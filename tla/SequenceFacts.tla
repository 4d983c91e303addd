--------------------------- MODULE SequenceFacts ---------------------------
(***************************************************************************)
(* Facts about the sequences that the modules are built from, for the      *)
(* proofs about them.                                                      *)
(***************************************************************************)
EXTENDS Queues, SequencesExt, SequenceTheorems, FiniteSetTheorems, NaturalsInduction,
        WellFoundedInduction, TLAPS

\* Three sequences in a row are the same, however they are put together.
InARow(a, b, c) == (a \o b) \o c = a \o (b \o c)

\* The library's theorem on the queues of the models, under a name the provers can match.
LEMMA Associative == \A S : \A a, b, c \in Seq(S) : InARow(a, b, c)
<1> SUFFICES ASSUME NEW S, NEW a \in Seq(S), NEW b \in Seq(S), NEW c \in Seq(S) PROVE InARow(a, b, c)
  OBVIOUS
<1>1. (a \o b) \o c = a \o (b \o c) BY ConcatAssociative
<1> QED BY <1>1 DEF InARow

\* A prefix, element by element: what IsPrefix says in the properties of the store, of the
\* reader of lines and of the window (DbManager, Wire, ChatClient).
LEMMA PrefixElements ==
    ASSUME NEW S, NEW s \in Seq(S), NEW t \in Seq(S)
    PROVE  IsPrefix(s, t) <=> Len(s) <= Len(t) /\ \A k \in 1..Len(s) : s[k] = t[k]
<1>1. Len(s) \in Nat /\ Len(t) \in Nat
  BY LenProperties
<1>2. SubSeq(s, 1, Len(s)) = s
  BY SubSeqFull
<1> SUFFICES ASSUME Len(s) <= Len(t)
             PROVE  s = SubSeq(t, 1, Len(s)) <=> \A k \in 1..Len(s) : s[k] = t[k]
  BY <1>2 DEF IsPrefix
<1>3. \A k \in 1..Len(s) : t[k] \in S
  <2> SUFFICES ASSUME NEW k \in 1..Len(s) PROVE t[k] \in S
    OBVIOUS
  <2>1. k \in 1..Len(t) BY <1>1, SMT
  <2> QED BY <2>1, ElementOfSeq
<1> DEFINE u == SubSeq(t, 1, Len(s))
<1>4. u \in Seq(S) /\ Len(u) = Len(s) /\ \A k \in 1..Len(s) : u[k] = t[k]
  BY <1>1, <1>3, SMT
<1>5. (\A k \in 1..Len(s) : s[k] = u[k]) => s = u
  <2> HIDE DEF u
  <2> QED BY <1>4, SeqEqual
<1> QED BY <1>4, <1>5

\* A sequence that is added to keeps its prefixes, and is one of them.
LEMMA PrefixAppend ==
    ASSUME NEW S, NEW s \in Seq(S), NEW t \in Seq(S), NEW e \in S
    PROVE  /\ IsPrefix(s, s)
           /\ IsPrefix(s, t) => IsPrefix(s, Append(t, e))
<1>1. Append(t, e) \in Seq(S) /\ Len(Append(t, e)) = Len(t) + 1
      /\ \A k \in 1..Len(t) : Append(t, e)[k] = t[k]
  BY AppendProperties
<1>2. Len(s) \in Nat /\ Len(t) \in Nat
  BY LenProperties
<1>3. IsPrefix(s, s)
  BY <1>2, PrefixElements, SMT
<1>4. ASSUME IsPrefix(s, t) PROVE IsPrefix(s, Append(t, e))
  <2>1. Len(s) <= Len(t) /\ \A k \in 1..Len(s) : s[k] = t[k]
    BY <1>4, PrefixElements
  <2>2. \A k \in 1..Len(s) : s[k] = Append(t, e)[k]
    BY <1>1, <1>2, <2>1, SMT
  <2>3. Len(s) <= Len(Append(t, e)) BY <1>1, <1>2, <2>1, SMT
  <2> QED BY <1>1, <2>2, <2>3, PrefixElements
<1> QED BY <1>3, <1>4

\* A prefix that is not everything may take the next element.
LEMMA PrefixNext ==
    ASSUME NEW S, NEW s \in Seq(S), NEW t \in Seq(S), IsPrefix(s, t), Len(s) < Len(t)
    PROVE  /\ t[Len(s) + 1] \in S
           /\ IsPrefix(Append(s, t[Len(s) + 1]), t)
<1> DEFINE e == t[Len(s) + 1]
<1>1. Len(s) \in Nat /\ Len(t) \in Nat
  BY LenProperties
<1>2. Len(s) + 1 \in 1..Len(t) BY <1>1, SMT
<1>3. e \in S BY <1>2, ElementOfSeq
<1>4. /\ Append(s, e) \in Seq(S) /\ Len(Append(s, e)) = Len(s) + 1
      /\ \A k \in 1..Len(s) : Append(s, e)[k] = s[k]
      /\ Append(s, e)[Len(s) + 1] = e
  <2> HIDE DEF e
  <2> QED BY <1>3, AppendProperties
<1>5. \A k \in 1..Len(s) : s[k] = t[k] BY PrefixElements
<1>6. \A k \in 1..Len(Append(s, e)) : Append(s, e)[k] = t[k]
  <2> SUFFICES ASSUME NEW k \in 1..(Len(s) + 1) PROVE Append(s, e)[k] = t[k]
    BY <1>4
  <2>1. CASE k = Len(s) + 1 BY <2>1, <1>4
  <2>2. CASE k # Len(s) + 1
    <3>1. k \in 1..Len(s) BY <2>2, <1>1, SMT
    <3> QED BY <3>1, <1>4, <1>5
  <2> QED BY <2>1, <2>2
<1>7. Len(Append(s, e)) <= Len(t) BY <1>1, <1>4, SMT
<1> HIDE DEF e
<1>8. IsPrefix(Append(s, e), t) BY <1>4, <1>6, <1>7, PrefixElements
<1> QED BY <1>3, <1>8 DEF e

(***************************************************************************)
(* A queue.  Has and AtMostOne after an element was taken from the front,  *)
(* and after one or several were added at the end.                         *)
(***************************************************************************)

\* What Has and AtMostOne say of a queue whose front was taken: run_one of the io threads.
LEMMA TailFacts ==
    ASSUME NEW S, NEW q \in Seq(S), q # <<>>, NEW H
    PROVE  /\ Head(q) \in S /\ Tail(q) \in Seq(S)
           /\ Has(q, H) <=> Head(q) \in H \/ Has(Tail(q), H)
           /\ AtMostOne(q, H) => /\ AtMostOne(Tail(q), H)
                                 /\ Head(q) \in H => ~Has(Tail(q), H)
<1>1. /\ Head(q) = q[1] /\ Head(q) \in S /\ Tail(q) \in Seq(S)
      /\ Len(q) \in Nat \ {0} /\ Len(Tail(q)) = Len(q) - 1
      /\ \A k \in 1..(Len(q) - 1) : Tail(q)[k] = q[k + 1]
  BY HeadTailProperties, SMT
<1>2. ASSUME NEW k \in 1..Len(q), k # 1
      PROVE  k - 1 \in 1..Len(Tail(q)) /\ Tail(q)[k - 1] = q[k]
  BY <1>1, <1>2, SMT
<1>3. \A k \in 1..Len(Tail(q)) : k + 1 \in 1..Len(q) /\ Tail(q)[k] = q[k + 1]
  BY <1>1, SMT
<1>4. Has(q, H) <=> Head(q) \in H \/ Has(Tail(q), H)
  <2>1. ASSUME Has(q, H) PROVE Head(q) \in H \/ Has(Tail(q), H)
    BY <2>1, <1>1, <1>2 DEF Has
  <2>2. ASSUME Head(q) \in H \/ Has(Tail(q), H) PROVE Has(q, H)
    <3>1. 1 \in 1..Len(q) BY <1>1, SMT
    <3> QED BY <2>2, <3>1, <1>1, <1>3 DEF Has
  <2> QED BY <2>1, <2>2
<1>5. ASSUME AtMostOne(q, H) PROVE AtMostOne(Tail(q), H)
  <2> SUFFICES ASSUME NEW j \in 1..Len(Tail(q)), NEW k \in 1..Len(Tail(q)),
                      Tail(q)[j] \in H, Tail(q)[k] \in H
               PROVE  j = k
    BY DEF AtMostOne
  <2>1. j + 1 = k + 1 BY <1>3, <1>5 DEF AtMostOne
  <2> QED BY <2>1, <1>1, SMT
<1>6. ASSUME AtMostOne(q, H), Head(q) \in H PROVE ~Has(Tail(q), H)
  <2> SUFFICES ASSUME NEW k \in 1..Len(Tail(q)), Tail(q)[k] \in H PROVE FALSE
    BY DEF Has
  <2>1. k + 1 \in 1..Len(q) /\ q[k + 1] \in H BY <1>3
  <2>2. 1 \in 1..Len(q) /\ q[1] \in H BY <1>1, <1>6, SMT
  <2>3. k + 1 = 1 BY <2>1, <2>2, <1>6 DEF AtMostOne
  <2> QED BY <2>3, <1>1, SMT
<1> QED BY <1>1, <1>4, <1>5, <1>6

\* Several elements, none of them in H, are posted: the callbacks of the chat post one write
\* for each line.
LEMMA ConcatFacts ==
    ASSUME NEW S, NEW q \in Seq(S), NEW p \in Seq(S), NEW H, ~Has(p, H)
    PROVE  /\ q \o p \in Seq(S)
           /\ Has(q \o p, H) <=> Has(q, H)
           /\ AtMostOne(q, H) => AtMostOne(q \o p, H)
<1>1. /\ q \o p \in Seq(S) /\ Len(q) \in Nat /\ Len(p) \in Nat
      /\ Len(q \o p) = Len(q) + Len(p)
      /\ \A k \in 1..Len(q) : (q \o p)[k] = q[k]
      /\ \A k \in 1..(Len(q) + Len(p)) : k > Len(q) => (q \o p)[k] = p[k - Len(q)]
  BY ConcatProperties, SMT
<1>2. \A k \in 1..Len(q) : k \in 1..Len(q \o p) /\ (q \o p)[k] = q[k]
  BY <1>1, SMT
<1>3. ASSUME NEW k \in 1..Len(q \o p), (q \o p)[k] \in H
      PROVE  k \in 1..Len(q) /\ q[k] \in H
  <2>1. CASE k > Len(q)
    <3>1. k - Len(q) \in 1..Len(p) /\ (q \o p)[k] = p[k - Len(q)] BY <2>1, <1>1, SMT
    <3> QED BY <3>1, <1>3 DEF Has
  <2>2. CASE ~(k > Len(q))
    <3>1. k \in 1..Len(q) BY <2>2, <1>1, SMT
    <3> QED BY <3>1, <1>3, <1>1
  <2> QED BY <2>1, <2>2
<1>4. Has(q \o p, H) <=> Has(q, H)
  BY <1>2, <1>3 DEF Has
<1>5. AtMostOne(q, H) => AtMostOne(q \o p, H)
  BY <1>3 DEF AtMostOne
<1> QED BY <1>1, <1>4, <1>5

\* One element is posted: asio::post and the completions of the reactor.
LEMMA AppendFacts ==
    ASSUME NEW S, NEW q \in Seq(S), NEW h \in S, NEW H
    PROVE  /\ Append(q, h) \in Seq(S)
           /\ Has(Append(q, h), H) <=> Has(q, H) \/ h \in H
           /\ AtMostOne(q, H) /\ ~(Has(q, H) /\ h \in H) => AtMostOne(Append(q, h), H)
<1>1. /\ Append(q, h) \in Seq(S) /\ Len(q) \in Nat /\ Len(Append(q, h)) = Len(q) + 1
      /\ \A k \in 1..Len(q) : Append(q, h)[k] = q[k]
      /\ Append(q, h)[Len(q) + 1] = h
  BY AppendProperties, SMT
<1>2. Len(q) + 1 \in 1..Len(Append(q, h)) BY <1>1, SMT
<1>3. \A k \in 1..Len(q) : k \in 1..Len(Append(q, h)) BY <1>1, SMT
<1>4. ASSUME NEW k \in 1..Len(Append(q, h)), k # Len(q) + 1 PROVE k \in 1..Len(q)
  BY <1>1, <1>4, SMT
<1>5. Has(Append(q, h), H) <=> Has(q, H) \/ h \in H
  BY <1>1, <1>2, <1>3, <1>4 DEF Has
<1>6. AtMostOne(q, H) /\ ~(Has(q, H) /\ h \in H) => AtMostOne(Append(q, h), H)
  BY <1>1, <1>4 DEF Has, AtMostOne
<1> QED BY <1>1, <1>5, <1>6

(***************************************************************************)
(* How many elements of a queue are in a set.                              *)
(***************************************************************************)
Places(q, H) == {k \in 1..Len(q) : q[k] \in H}
Times(q, H)  == Cardinality(Places(q, H))

\* A queue has finitely many places, none when it is empty.
LEMMA TimesIsNat ==
    ASSUME NEW S, NEW q \in Seq(S), NEW H
    PROVE  /\ IsFiniteSet(Places(q, H)) /\ Times(q, H) \in Nat
           /\ q = <<>> => Times(q, H) = 0
<1>1. Len(q) \in Nat BY LenProperties
<1>2. IsFiniteSet(1..Len(q)) BY <1>1, FS_Interval, SMT
<1>3. Places(q, H) \in SUBSET (1..Len(q)) BY DEF Places
<1>4. IsFiniteSet(Places(q, H)) BY <1>2, <1>3, FS_Subset
<1>5. Times(q, H) \in Nat BY <1>4, FS_CardinalityType DEF Times
<1>6. ASSUME q = <<>> PROVE Times(q, H) = 0
  <2>1. Places(q, H) = {}
    <3>1. Len(q) = 0 BY <1>6, EmptySeq
    <3>2. 1..Len(q) = {} BY <3>1, SMT
    <3> QED BY <3>2, <1>3
  <2> QED BY <2>1, FS_EmptySet DEF Times
<1> QED BY <1>4, <1>5, <1>6

\* An element that is added counts when it is in the set.
LEMMA TimesAppend ==
    ASSUME NEW S, NEW q \in Seq(S), NEW e \in S, NEW H
    PROVE  Times(Append(q, e), H) = Times(q, H) + (IF e \in H THEN 1 ELSE 0)
<1> DEFINE n == Len(q) + 1
           a == Append(q, e)
<1>1. /\ Len(q) \in Nat /\ Len(a) = n /\ a[n] = e
      /\ \A k \in 1..Len(q) : a[k] = q[k]
  BY AppendProperties, LenProperties
<1>2. 1..Len(a) = (1..Len(q)) \cup {n} /\ n \notin 1..Len(q) BY <1>1, SMT
<1> HIDE DEF a, n
<1>3. n \notin Places(q, H) /\ IsFiniteSet(Places(q, H)) /\ Times(q, H) \in Nat
  BY <1>2, TimesIsNat DEF Places
<1>4. CASE e \in H
  <2>1. Places(a, H) = Places(q, H) \cup {n} BY <1>1, <1>2, <1>4 DEF Places
  <2>2. Times(a, H) = Times(q, H) + 1 BY <2>1, <1>3, FS_AddElement DEF Times
  <2> QED BY <2>2, <1>4 DEF a
<1>5. CASE e \notin H
  <2>1. Places(a, H) = Places(q, H) BY <1>1, <1>2, <1>5 DEF Places
  <2>2. Times(a, H) = Times(q, H) BY <2>1 DEF Times
  <2> QED BY <2>2, <1>3, <1>5 DEF a
<1> QED BY <1>4, <1>5

\* An element that is taken from the front counted when it is in the set.
LEMMA TimesTail ==
    ASSUME NEW S, NEW q \in Seq(S), q # <<>>, NEW H
    PROVE  Times(q, H) = Times(Tail(q), H) + (IF Head(q) \in H THEN 1 ELSE 0)
<1> DEFINE t == Tail(q)
           later == Places(q, H) \ {1}
           f == [k \in Places(t, H) |-> k + 1]
<1>1. /\ Len(q) \in Nat \ {0} /\ t \in Seq(S) /\ Len(t) = Len(q) - 1
      /\ \A k \in 1..Len(t) : t[k] = q[k + 1]
      /\ Head(q) = q[1]
  BY HeadTailProperties, EmptySeq, SMT
<1>2. /\ IsFiniteSet(Places(t, H)) /\ Times(t, H) \in Nat
      /\ IsFiniteSet(Places(q, H)) /\ Times(q, H) \in Nat
  BY <1>1, TimesIsNat
<1>3. \A k \in Places(t, H) : k + 1 \in later
  BY <1>1, SMT DEF Places
<1>4. \A k \in later : k - 1 \in Places(t, H) /\ k = (k - 1) + 1
  BY <1>1, SMT DEF Places
<1>5. \A j, k \in Places(t, H) : j + 1 = k + 1 => j = k
  BY <1>1, SMT DEF Places
<1> HIDE DEF later
<1>6. f \in Bijection(Places(t, H), later)
  <2>1. f \in [Places(t, H) -> later] BY <1>3
  <2>2. \A a, b \in Places(t, H) : f[a] = f[b] => a = b BY <1>5
  <2>3. \A b \in later : \E a \in Places(t, H) : f[a] = b BY <1>4
  <2> HIDE DEF f, t
  <2> QED BY <2>1, <2>2, <2>3 DEF Bijection, Injection, Surjection, IsInjective
<1>7. Cardinality(later) = Times(t, H)
  BY <1>2, <1>6, FS_Bijection DEF ExistsBijection, Times
<1>8. CASE Head(q) \in H
  <2>1. 1 \in Places(q, H) BY <1>1, <1>8, SMT DEF Places
  <2>2. Cardinality(later) = Times(q, H) - 1
    BY <2>1, <1>2, FS_RemoveElement DEF later, Times
  <2> QED BY <2>2, <1>2, <1>7, <1>8
<1>9. CASE Head(q) \notin H
  <2>1. later = Places(q, H) BY <1>1, <1>9 DEF later, Places
  <2> QED BY <2>1, <1>2, <1>7, <1>9 DEF Times
<1> QED BY <1>8, <1>9

\* What Has and AtMostOne say, in numbers.
LEMMA TimesOfOne ==
    ASSUME NEW S, NEW q \in Seq(S), NEW H, AtMostOne(q, H)
    PROVE  Times(q, H) = IF Has(q, H) THEN 1 ELSE 0
<1>1. CASE Has(q, H)
  <2>1. PICK k \in 1..Len(q) : q[k] \in H BY <1>1 DEF Has
  <2>2. Places(q, H) = {k} BY <2>1 DEF Places, AtMostOne
  <2> QED BY <1>1, <2>2, FS_Singleton DEF Times
<1>2. CASE ~Has(q, H)
  <2>1. Places(q, H) = {} BY <1>2 DEF Places, Has
  <2> QED BY <1>2, <2>1, FS_EmptySet DEF Times
<1> QED BY <1>1, <1>2

\* A beginning of a queue has no more of them.
LEMMA TimesConcat ==
    ASSUME NEW S, NEW s \in Seq(S), NEW q \in Seq(S), NEW H
    PROVE  Times(s, H) <= Times(s \o q, H)
<1>1. /\ s \o q \in Seq(S) /\ Len(s \o q) = Len(s) + Len(q)
      /\ Len(s) \in Nat /\ Len(q) \in Nat
      /\ \A k \in 1..Len(s) : (s \o q)[k] = s[k]
  BY ConcatProperties, LenProperties, SMT
<1> DEFINE t == s \o q
<1> HIDE DEF t
<1>2. \A k \in 1..Len(s) : k \in 1..Len(t) BY <1>1, SMT DEF t
<1>3. Places(s, H) \in SUBSET Places(t, H) BY <1>1, <1>2 DEF Places, t
<1>4. IsFiniteSet(Places(t, H)) BY <1>1, TimesIsNat DEF t
<1>5. Cardinality(Places(s, H)) <= Cardinality(Places(t, H)) BY <1>3, <1>4, FS_Subset
<1> QED BY <1>5 DEF Times, t

\* What is appended does not count when none of it is in H.
LEMMA TimesConcatNone ==
    ASSUME NEW S, NEW s \in Seq(S), NEW q \in Seq(S), NEW H, ~Has(q, H)
    PROVE  Times(s \o q, H) = Times(s, H)
<1>1. Len(s) \in Nat /\ Len(q) \in Nat BY LenProperties
<1>2. /\ Len(s \o q) = Len(s) + Len(q)
      /\ \A k \in 1..(Len(s) + Len(q)) : (s \o q)[k] = IF k <= Len(s) THEN s[k] ELSE q[k - Len(s)]
  BY ConcatProperties
<1>3. ASSUME NEW k \in Places(s, H) PROVE k \in Places(s \o q, H)
  BY <1>1, <1>2, <1>3 DEF Places
<1>4. ASSUME NEW k \in Places(s \o q, H) PROVE k \in Places(s, H)
  <2>1. k \in 1..(Len(s) + Len(q)) /\ (s \o q)[k] \in H BY <1>2, <1>4 DEF Places
  <2>2. CASE k <= Len(s)
    <3>1. k \in 1..Len(s) /\ s[k] \in H BY <1>1, <1>2, <2>1, <2>2
    <3> QED BY <3>1 DEF Places
  <2>3. CASE ~(k <= Len(s))
    <3>1. k - Len(s) \in 1..Len(q) BY <1>1, <2>1, <2>3
    <3>2. q[k - Len(s)] \in H BY <1>2, <2>1, <2>3
    <3> QED BY <3>1, <3>2 DEF Has
  <2> QED BY <2>2, <2>3
<1>5. Places(s \o q, H) = Places(s, H) BY <1>3, <1>4
<1> QED BY <1>5 DEF Times

(***************************************************************************)
(* What was sent, followed by what waits: taking the next line from the    *)
(* front of the one to the end of the other changes nothing of the whole.  *)
(***************************************************************************)
\* pop_front() of a line whose write completed.
LEMMA MoveFront ==
    ASSUME NEW S, NEW s \in Seq(S), NEW q \in Seq(S), q # <<>>
    PROVE  Append(s, Head(q)) \o Tail(q) = s \o q
<1> DEFINE h == Head(q)
           t == Tail(q)
<1>1. h \in S /\ t \in Seq(S) /\ q = <<h>> \o t /\ <<h>> \in Seq(S)
  BY HeadTailProperties
<1> HIDE DEF h, t
<1>2. Append(s, h) = s \o <<h>> BY <1>1, AppendIsConcat
<1>3. (s \o <<h>>) \o t = s \o (<<h>> \o t) BY <1>1, ConcatAssociative
<1> QED BY <1>1, <1>2, <1>3 DEF h, t

\* What is added to the queue is added to the whole.
LEMMA AppendLast ==
    ASSUME NEW S, NEW s \in Seq(S), NEW q \in Seq(S), NEW e \in S
    PROVE  s \o Append(q, e) = Append(s \o q, e)
<1>1. <<e>> \in Seq(S) /\ s \o q \in Seq(S) BY ConcatProperties
<1>2. Append(q, e) = q \o <<e>> BY AppendIsConcat
<1>3. Append(s \o q, e) = (s \o q) \o <<e>> BY <1>1, AppendIsConcat
<1> QED BY <1>1, <1>2, <1>3, ConcatAssociative

(***************************************************************************)
(* Filter.  Its function is recursive; the induction is that a set of      *)
(* numbers has a least one, since the library's theorem on recursive       *)
(* functions takes an operator that the provers cannot be given.           *)
(***************************************************************************)
IsKept(f, s, H) ==
    f = [k \in 0..Len(s) |-> IF k = 0 THEN <<>>
                             ELSE IF s[k] \in H THEN Append(f[k - 1], s[k]) ELSE f[k - 1]]

\* A set of numbers that is not empty has a least one: the induction of this module.
LEMMA Least ==
    ASSUME NEW S \in SUBSET Nat, S # {}
    PROVE  \E n \in S : \A m \in S : ~(m < n)
<1>1. \E n \in S : \A m \in S : <<m, n>> \notin OpToRel(<, Nat)
  BY NatLessThanWellFounded, WFMin
<1> QED BY <1>1 DEF OpToRel

\* What 0 has, and each number up to N when the one before has it, all of them have.
LEMMA UpTo ==
    ASSUME NEW N \in Nat, NEW B, 0 \in B,
           \A k \in 0..N : k # 0 /\ k - 1 \in B => k \in B
    PROVE  \A k \in 0..N : k \in B
<1> SUFFICES ASSUME NEW j \in 0..N, j \notin B PROVE FALSE
  OBVIOUS
<1> DEFINE rest == (0..N) \ B
<1>1. rest \in SUBSET Nat /\ rest # {} OBVIOUS
<1>2. PICK n \in rest : \A m \in rest : ~(m < n)
  <2> HIDE DEF rest
  <2> QED BY <1>1, Least
<1>3. n \in 0..N /\ n # 0 OBVIOUS
<1>4. n - 1 \in 0..N /\ n - 1 < n BY <1>3, SMT
<1>5. n - 1 \in B BY <1>2, <1>4
<1> QED BY <1>3, <1>5

\* Filter chooses the function that its definition describes.
LEMMA FilterIs ==
    ASSUME NEW s, NEW H
    PROVE  Filter(s, H) = (CHOOSE f : IsKept(f, s, H))[Len(s)]
BY DEF Filter, IsKept

\* There is such a function: it goes one element further than one for the elements before.
LEMMA KeptExists ==
    ASSUME NEW s, NEW H, Len(s) \in Nat
    PROVE  \E f : IsKept(f, s, H)
<1> DEFINE Step(k, t) == IF s[k] \in H THEN Append(t, s[k]) ELSE t
           Upto(n, f) == f = [k \in 0..n |-> IF k = 0 THEN <<>> ELSE Step(k, f[k - 1])]
           B == {n \in 0..Len(s) : \E f : Upto(n, f)}
<1>1. 0 \in B
  <2> DEFINE f == [k \in 0..0 |-> <<>>]
  <2>1. Upto(0, f) 
    <3>1. \A k \in 0..0 : k = 0 BY SMT
    <3> QED BY <3>1, Zenon
  <2>2. 0 \in 0..Len(s) BY SMT
  <2> QED BY <2>1, <2>2
<1>2. ASSUME NEW n \in 0..Len(s), n # 0, n - 1 \in B
      PROVE  n \in B
  <2> DEFINE m == n - 1
  <2>1. PICK g : Upto(m, g) BY <1>2
  <2> DEFINE f == [k \in 0..n |-> IF k = n THEN Step(n, g[m]) ELSE g[k]]
  <2>2. m \in 0..n /\ n \in 0..n /\ n # 0 /\ m # n BY <1>2, SMT
  <2>3. f = [k \in 0..n |-> IF k = 0 THEN <<>> ELSE Step(k, f[k - 1])]
    <3> SUFFICES ASSUME NEW k \in 0..n
                 PROVE  f[k] = IF k = 0 THEN <<>> ELSE Step(k, f[k - 1])
      <4> HIDE DEF Step
      <4> QED OBVIOUS
    <3>1. CASE k = n
      <4>1. f[k] = Step(n, g[m]) BY <3>1
      <4>2. f[k - 1] = g[m] BY <3>1, <2>2
      <4> QED BY <3>1, <4>1, <4>2, <2>2
    <3>2. CASE k = 0
      <4>1. f[k] = g[k] /\ 0 \in 0..m BY <3>2, <2>2, <1>2, SMT
      <4>2. g[0] = <<>> BY <2>1, <4>1
      <4> QED BY <3>2, <4>1, <4>2
    <3>3. CASE k # n /\ k # 0
      <4>1. k \in 0..m /\ k - 1 \in 0..n /\ k - 1 # n BY <3>3, <1>2, SMT
      <4>2. f[k] = g[k] /\ f[k - 1] = g[k - 1] BY <3>3, <4>1
      <4>3. g[k] = Step(k, g[k - 1])
        <5> HIDE DEF Step, m
        <5> QED BY <2>1, <4>1, <3>3
      <4> QED BY <3>3, <4>2, <4>3
    <3> QED BY <3>1, <3>2, <3>3
  <2> HIDE DEF f, Step
  <2>4. Upto(n, f) BY <2>3
  <2> QED BY <2>4
<1>3. Len(s) \in B
  <2> HIDE DEF B
  <2>1. \A k \in 0..Len(s) : k \in B BY <1>1, <1>2, UpTo
  <2> QED BY <2>1
<1> QED BY <1>3 DEF IsKept

\* So Filter is computed element by element.
LEMMA FilterStep ==
    ASSUME NEW s, NEW H, Len(s) \in Nat
    PROVE  \E f : /\ IsKept(f, s, H) /\ Filter(s, H) = f[Len(s)]
                  /\ f[0] = <<>>
                  /\ \A k \in 1..Len(s) :
                        f[k] = IF s[k] \in H THEN Append(f[k - 1], s[k]) ELSE f[k - 1]
<1> DEFINE f == CHOOSE f : IsKept(f, s, H)
<1>1. IsKept(f, s, H) BY KeptExists
<1>2. Filter(s, H) = f[Len(s)] BY FilterIs
<1> HIDE DEF f
<1>3. 0 \in 0..Len(s) /\ \A k \in 1..Len(s) : k \in 0..Len(s) /\ k # 0 BY SMT
<1>4. f[0] = <<>> BY <1>1, <1>3 DEF IsKept
<1>5. \A k \in 1..Len(s) :
                        f[k] = IF s[k] \in H THEN Append(f[k - 1], s[k]) ELSE f[k - 1]
  BY <1>1, <1>3, Zenon DEF IsKept
<1> QED BY <1>1, <1>2, <1>4, <1>5

\* What is added to a queue is added to the filtered one when it is in the set: TextsTold after
\* a line of the server came (ChatClient), the texts of a stream (ChatServer).
LEMMA FilterAppend ==
    ASSUME NEW S, NEW s \in Seq(S), NEW e \in S, NEW H
    PROVE  Filter(Append(s, e), H) = IF e \in H THEN Append(Filter(s, H), e) ELSE Filter(s, H)
<1> DEFINE t == Append(s, e)
           n == Len(s) + 1
<1>1. /\ t \in Seq(S) /\ Len(s) \in Nat /\ Len(t) = n /\ t[n] = e
      /\ \A k \in 1..Len(s) : t[k] = s[k]
  BY AppendProperties, LenProperties
<1> HIDE DEF t
<1>2. PICK f : /\ Filter(s, H) = f[Len(s)] /\ f[0] = <<>>
               /\ \A k \in 1..Len(s) :
                        f[k] = IF s[k] \in H THEN Append(f[k - 1], s[k]) ELSE f[k - 1]
  BY <1>1, FilterStep
<1>3. Len(t) \in Nat BY <1>1
<1>4. PICK g : /\ Filter(t, H) = g[Len(t)] /\ g[0] = <<>>
               /\ \A k \in 1..Len(t) :
                        g[k] = IF t[k] \in H THEN Append(g[k - 1], t[k]) ELSE g[k - 1]
  BY <1>3, FilterStep
<1> DEFINE B == {k \in 0..Len(s) : f[k] = g[k]}
<1>5. 0 \in B BY <1>1, <1>2, <1>4
<1>6. ASSUME NEW k \in 0..Len(s), k # 0, k - 1 \in B PROVE k \in B
  <2>1. k \in 1..Len(s) /\ k \in 1..Len(t) BY <1>1, <1>6, SMT
  <2>2. t[k] = s[k] /\ f[k - 1] = g[k - 1] BY <1>1, <1>6, <2>1
  <2> QED BY <1>2, <1>4, <2>1, <2>2
<1>7. \A k \in 0..Len(s) : k \in B
  <2> HIDE DEF B
  <2> QED BY <1>1, <1>5, <1>6, UpTo
<1>8. f[Len(s)] = g[Len(s)]
  <2>1. Len(s) \in 0..Len(s) BY <1>1, SMT
  <2> QED BY <1>7, <2>1
<1>9. g[n] = IF e \in H THEN Append(g[n - 1], e) ELSE g[n - 1]
  <2>1. n \in 1..Len(t) BY <1>1, SMT
  <2> HIDE DEF n
  <2> QED BY <1>1, <1>4, <2>1
<1>10. n - 1 = Len(s) BY <1>1
<1> QED BY <1>1, <1>2, <1>4, <1>8, <1>9, <1>10 DEF t

\* The filtered queue has elements of the set only.
LEMMA FilterType ==
    ASSUME NEW S, NEW s \in Seq(S), NEW H
    PROVE  Filter(s, H) \in Seq(S \cap H)
<1>1. Len(s) \in Nat BY LenProperties
<1>2. PICK f : /\ Filter(s, H) = f[Len(s)] /\ f[0] = <<>>
               /\ \A k \in 1..Len(s) :
                        f[k] = IF s[k] \in H THEN Append(f[k - 1], s[k]) ELSE f[k - 1]
  BY <1>1, FilterStep
<1> DEFINE B == {k \in 0..Len(s) : f[k] \in Seq(S \cap H)}
<1>3. 0 \in B
  <2>1. <<>> \in Seq(S \cap H) /\ 0 \in 0..Len(s) BY <1>1, EmptySeq, SMT
  <2> QED BY <1>2, <2>1
<1>4. ASSUME NEW k \in 0..Len(s), k # 0, k - 1 \in B PROVE k \in B
  <2>1. k \in 1..Len(s) /\ f[k - 1] \in Seq(S \cap H) BY <1>1, <1>4, SMT
  <2>2. s[k] \in S BY <2>1, ElementOfSeq
  <2>3. CASE s[k] \in H
    <3> DEFINE x == f[k - 1]
               y == s[k]
    <3>1. x \in Seq(S \cap H) /\ y \in S \cap H BY <2>1, <2>2, <2>3
    <3>2. f[k] = Append(x, y) BY <1>2, <2>1, <2>3
    <3> HIDE DEF x, y
    <3>3. Append(x, y) \in Seq(S \cap H) BY <3>1, AppendProperties
    <3> QED BY <3>2, <3>3
  <2>4. CASE s[k] \notin H
    <3>1. f[k] = f[k - 1] BY <1>2, <2>1, <2>4
    <3> QED BY <2>1, <3>1
  <2>5. f[k] \in Seq(S \cap H) BY <2>3, <2>4
  <2> QED BY <2>5
<1>5. \A k \in 0..Len(s) : k \in B
  <2> HIDE DEF B
  <2> QED BY <1>1, <1>3, <1>4, UpTo
<1>6. Len(s) \in 0..Len(s) BY <1>1, SMT
<1> QED BY <1>2, <1>5, <1>6

\* Nothing is filtered from nothing.
LEMMA FilterEmpty == \A H : Filter(<<>>, H) = <<>>
<1> SUFFICES ASSUME NEW H PROVE Filter(<<>>, H) = <<>>
  OBVIOUS
<1>1. Len(<<>>) = 0 /\ Len(<<>>) \in Nat BY EmptySeq
<1> QED BY <1>1, FilterStep

\* What holds of the empty queue, and of a queue that was added to when it held before, holds of
\* every queue: induction, with a set for the property.
LEMMA Growing ==
    ASSUME NEW S, NEW B, <<>> \in B,
           \A s \in Seq(S), e \in S : s \in B => Append(s, e) \in B
    PROVE  \A s \in Seq(S) : s \in B
<1> SUFFICES ASSUME NEW s \in Seq(S) PROVE s \in B
  OBVIOUS
<1>1. Len(s) \in Nat BY LenProperties
<1> DEFINE K == {k \in 0..Len(s) : SubSeq(s, 1, k) \in B}
<1>2. 0 \in K
  <2>1. SubSeq(s, 1, 0) = <<>> BY SubSeqEmpty
  <2>2. 0 \in 0..Len(s) BY <1>1, SMT
  <2>3. SubSeq(s, 1, 0) \in B BY <2>1
  <2> QED BY <2>2, <2>3
<1>3. ASSUME NEW k \in 0..Len(s), k # 0, k - 1 \in K PROVE k \in K
  <2>1. k \in 1..Len(s) /\ k \in Nat /\ k - 1 \in Nat /\ k - 1 <= Len(s) BY <1>1, <1>3, SMT
  <2>2. /\ SubSeq(s, 1, k - 1) \in Seq(S) /\ s[k] \in S
        /\ \A j \in 1..(k - 1) : s[j] \in S
    <3>1. \A j \in 1..Len(s) : s[j] \in S BY ElementOfSeq
    <3>2. \A j \in 1..(k - 1) : j \in 1..Len(s) BY <1>1, <2>1, SMT
    <3>3. \A j \in 1..(k - 1) : s[j] \in S BY <3>1, <3>2
    <3>4. 1 \in Int /\ k - 1 \in Int BY <2>1
    <3> QED BY <2>1, <3>1, <3>3, <3>4, SubSeqProperties
  <2>3. SubSeq(s, 1, k) = SubSeq(s, 1, k - 1) \o <<s[k]>>
    <3>1. 1 \in 1..Len(s) /\ k \in 1..Len(s) BY <1>1, <2>1, SMT
    <3> QED BY <3>1, SubSeqRecursiveSecond
  <2> DEFINE p == SubSeq(s, 1, k - 1)
             e == s[k]
  <2>4. p \in Seq(S) /\ e \in S /\ p \in B BY <1>3, <2>2
  <2> HIDE DEF p, e
  <2>5. p \o <<e>> = Append(p, e) BY <2>4, AppendIsConcat
  <2>6. SubSeq(s, 1, k) \in B BY <2>3, <2>4, <2>5 DEF p, e
  <2> QED BY <2>6
<1>4. Len(s) \in K
  <2> HIDE DEF K
  <2>1. \A k \in 0..Len(s) : k \in K BY <1>1, <1>2, <1>3, UpTo
  <2> QED BY <1>1, <2>1
<1>5. SubSeq(s, 1, Len(s)) = s BY SubSeqFull
<1> QED BY <1>4, <1>5

\* Two queues are filtered one after the other.
LEMMA FilterConcat ==
    ASSUME NEW S, NEW s \in Seq(S), NEW t \in Seq(S), NEW H
    PROVE  Filter(s \o t, H) = Filter(s, H) \o Filter(t, H)
<1> DEFINE B == {q \in Seq(S) : Filter(s \o q, H) = Filter(s, H) \o Filter(q, H)}
<1>1. \A q \in Seq(S) : Filter(q, H) \in Seq(S)
  <2> SUFFICES ASSUME NEW q \in Seq(S) PROVE Filter(q, H) \in Seq(S)
    OBVIOUS
  <2>1. Filter(q, H) \in Seq(S \cap H) BY FilterType
  <2> QED BY <2>1, SeqMonotonic
<1>2. <<>> \in B
  <2>1. s \o <<>> = s BY ConcatEmptySeq
  <2>2. Filter(s, H) \o <<>> = Filter(s, H) BY <1>1, ConcatEmptySeq
  <2> QED BY <2>1, <2>2, FilterEmpty, EmptySeq
<1>3. ASSUME NEW q \in Seq(S), NEW e \in S, q \in B PROVE Append(q, e) \in B
  <2>1. s \o Append(q, e) = Append(s \o q, e) BY AppendLast
  <2>2. s \o q \in Seq(S) /\ Append(q, e) \in Seq(S) BY ConcatProperties, AppendProperties
  <2>3. Filter(s \o Append(q, e), H)
           = IF e \in H THEN Append(Filter(s \o q, H), e) ELSE Filter(s \o q, H)
    BY <2>1, <2>2, FilterAppend
  <2>4. Filter(Append(q, e), H) = IF e \in H THEN Append(Filter(q, H), e) ELSE Filter(q, H)
    BY FilterAppend
  <2>5. Filter(s \o q, H) = Filter(s, H) \o Filter(q, H) BY <1>3
  <2>6. Filter(s, H) \o Append(Filter(q, H), e) = Append(Filter(s, H) \o Filter(q, H), e)
    BY <1>1, AppendLast
  <2> QED BY <2>2, <2>3, <2>4, <2>5, <2>6
<1>4. \A q \in Seq(S) : q \in B
  <2> HIDE DEF B
  <2> QED BY <1>2, <1>3, Growing
<1> QED BY <1>4

\* A queue of elements of the set stays as it is, and nothing is left of one without any.
LEMMA FilterPure ==
    ASSUME NEW S, NEW H
    PROVE  /\ \A s \in Seq(S) : S \subseteq H => Filter(s, H) = s
           /\ \A s \in Seq(S) : S \cap H = {} => Filter(s, H) = <<>>
<1>1. ASSUME S \subseteq H PROVE \A s \in Seq(S) : Filter(s, H) = s
  <2> DEFINE B == {s \in Seq(S) : Filter(s, H) = s}
  <2>1. <<>> \in B BY FilterEmpty, EmptySeq
  <2>2. ASSUME NEW s \in Seq(S), NEW e \in S, s \in B PROVE Append(s, e) \in B
    <3>1. e \in H /\ Append(s, e) \in Seq(S) BY <1>1, AppendProperties
    <3>2. Filter(Append(s, e), H) = IF e \in H THEN Append(Filter(s, H), e) ELSE Filter(s, H)
      BY FilterAppend
    <3> QED BY <2>2, <3>1, <3>2
  <2>3. \A s \in Seq(S) : s \in B
    <3> HIDE DEF B
    <3> QED BY <2>1, <2>2, Growing
  <2> QED BY <2>3
<1>2. ASSUME S \cap H = {} PROVE \A s \in Seq(S) : Filter(s, H) = <<>>
  <2> DEFINE B == {s \in Seq(S) : Filter(s, H) = <<>>}
  <2>1. <<>> \in B BY FilterEmpty, EmptySeq
  <2>2. ASSUME NEW s \in Seq(S), NEW e \in S, s \in B PROVE Append(s, e) \in B
    <3>1. e \notin H /\ Append(s, e) \in Seq(S) BY <1>2, AppendProperties
    <3>2. Filter(Append(s, e), H) = IF e \in H THEN Append(Filter(s, H), e) ELSE Filter(s, H)
      BY FilterAppend
    <3> QED BY <2>2, <3>1, <3>2
  <2>3. \A s \in Seq(S) : s \in B
    <3> HIDE DEF B
    <3> QED BY <2>1, <2>2, Growing
  <2> QED BY <2>3
<1> QED BY <1>1, <1>2

\* What is at the front comes first, when it is in the set.
LEMMA FilterFront ==
    ASSUME NEW S, NEW q \in Seq(S), q # <<>>, NEW H
    PROVE  Filter(q, H) = IF Head(q) \in H THEN <<Head(q)>> \o Filter(Tail(q), H)
                                           ELSE Filter(Tail(q), H)
<1> DEFINE h == Head(q)
           t == Tail(q)
<1>1. h \in S /\ t \in Seq(S) BY HeadTailProperties
<1>2. q = <<h>> \o t
  <2>1. Len(q) \in Nat /\ Len(t) = Len(q) - 1 /\ h = q[1] /\ Len(q) # 0
        /\ \A k \in 1..Len(t) : t[k] = q[k + 1]
    BY HeadTailProperties, EmptySeq
  <2> HIDE DEF h, t
  <2>2. <<h>> \in Seq(S) /\ Len(<<h>>) = 1 /\ <<h>>[1] = h BY <1>1
  <2> DEFINE f == <<h>>
  <2>3. f \in Seq(S) /\ Len(f) = 1 /\ f[1] = h BY <2>2
  <2> HIDE DEF f
  <2>4. /\ f \o t \in Seq(S) /\ Len(f \o t) = Len(q)
        /\ \A k \in 1..Len(q) : (f \o t)[k] = IF k <= 1 THEN f[k] ELSE t[k - 1]
    <3>1. /\ f \o t \in Seq(S) /\ Len(f \o t) = Len(f) + Len(t)
          /\ \A k \in 1..(Len(f) + Len(t)) :
                (f \o t)[k] = IF k <= Len(f) THEN f[k] ELSE t[k - Len(f)]
      BY <1>1, <2>3, ConcatProperties
    <3>2. Len(f) + Len(t) = Len(q) BY <2>1, <2>3
    <3> QED BY <2>3, <3>1, <3>2
  <2>5. \A k \in 1..Len(q) : (f \o t)[k] = q[k]
    <3> SUFFICES ASSUME NEW k \in 1..Len(q) PROVE (f \o t)[k] = q[k]
      OBVIOUS
    <3>1. CASE k = 1 BY <2>1, <2>3, <2>4, <3>1
    <3>2. CASE k # 1
      <4>1. k - 1 \in 1..Len(t) /\ ~(k <= 1) /\ (k - 1) + 1 = k BY <2>1, <3>2, SMT
      <4> QED BY <2>1, <2>4, <4>1
    <3> QED BY <3>1, <3>2
  <2>6. f \o t = q BY <2>4, <2>5, SeqEqual
  <2> QED BY <2>6 DEF f
<1> HIDE DEF h, t
<1>3. <<h>> \in Seq(S) BY <1>1
<1>4. Filter(q, H) = Filter(<<h>>, H) \o Filter(t, H)
  <2> DEFINE f == <<h>>
  <2>1. f \in Seq(S) /\ q = f \o t BY <1>2, <1>3
  <2> HIDE DEF f
  <2>2. Filter(f \o t, H) = Filter(f, H) \o Filter(t, H) BY <1>1, <2>1, FilterConcat
  <2> QED BY <2>1, <2>2 DEF f
<1>5. Filter(<<h>>, H) = IF h \in H THEN <<h>> ELSE <<>>
  <2>1. <<>> \in Seq(S) /\ Append(<<>>, h) = <<h>> BY <1>1, EmptySeq
  <2>2. Filter(Append(<<>>, h), H) = IF h \in H THEN Append(Filter(<<>>, H), h) ELSE Filter(<<>>, H)
    BY <1>1, <2>1, FilterAppend
  <2> QED BY <2>1, <2>2, FilterEmpty
<1>6. <<>> \o Filter(t, H) = Filter(t, H)
  <2>1. Filter(t, H) \in Seq(S \cap H) BY <1>1, FilterType
  <2> QED BY <2>1, ConcatEmptySeq
<1> QED BY <1>4, <1>5, <1>6 DEF h, t

(***************************************************************************)
(* A queue within another one: some of its elements, in their order.       *)
(***************************************************************************)
Embeds(f, t, s) ==
    /\ \A k \in 1..Len(t) : f[k] \in 1..Len(s) /\ t[k] = s[f[k]]
    /\ \A j, k \in 1..Len(t) : j < k => f[j] < f[k]

Within(t, s) == \E f \in [1..Len(t) -> Nat] : Embeds(f, t, s)

\* Both queues are added to, or the larger one is.
LEMMA WithinAppend ==
    ASSUME NEW S, NEW s \in Seq(S), NEW t \in Seq(S), NEW e \in S, Within(t, s)
    PROVE  Within(t, Append(s, e)) /\ Within(Append(t, e), Append(s, e))
<1> DEFINE a == Append(s, e)
           b == Append(t, e)
           n == Len(s) + 1
           m == Len(t) + 1
<1>1. /\ Len(s) \in Nat /\ Len(a) = n /\ a[n] = e /\ \A k \in 1..Len(s) : a[k] = s[k]
      /\ Len(t) \in Nat /\ Len(b) = m /\ b[m] = e /\ \A k \in 1..Len(t) : b[k] = t[k]
  BY AppendProperties, LenProperties
<1> HIDE DEF a, b
<1>2. PICK f \in [1..Len(t) -> Nat] : Embeds(f, t, s) BY DEF Within
<1>3. \A k \in 1..Len(s) : k \in 1..Len(a) BY <1>1, SMT
<1>4. Within(t, a)
  <2>1. Embeds(f, t, a) BY <1>1, <1>2, <1>3 DEF Embeds
  <2> QED BY <2>1 DEF Within
<1>5. Within(b, a)
  <2> DEFINE g == [k \in 1..Len(b) |-> IF k = m THEN n ELSE f[k]]
  <2>1. \A k \in 1..Len(b) : k # m => k \in 1..Len(t) BY <1>1, SMT
  <2>2. g \in [1..Len(b) -> Nat]
    <3>1. \A k \in 1..Len(b) : (IF k = m THEN n ELSE f[k]) \in Nat BY <1>1, <1>2, <2>1
    <3> QED BY <3>1
  <2>3. ASSUME NEW k \in 1..Len(b) PROVE g[k] \in 1..Len(a) /\ b[k] = a[g[k]]
    <3>1. CASE k = m
      <4>1. g[k] = n /\ n \in 1..Len(a) BY <1>1, <3>1
      <4> QED BY <1>1, <3>1, <4>1
    <3>2. CASE k # m
      <4>1. g[k] = f[k] /\ f[k] \in 1..Len(s) /\ t[k] = s[f[k]] /\ k \in 1..Len(t)
        BY <1>2, <2>1, <3>2 DEF Embeds
      <4> QED BY <1>1, <1>3, <4>1
    <3> QED BY <3>1, <3>2
  <2>4. ASSUME NEW j \in 1..Len(b), NEW k \in 1..Len(b), j < k PROVE g[j] < g[k]
    <3>1. j # m /\ j \in 1..Len(t) BY <1>1, <2>4, SMT
    <3>2. g[j] = f[j] /\ f[j] \in 1..Len(s) BY <1>2, <3>1 DEF Embeds
    <3>3. CASE k = m
      <4>1. g[k] = n BY <3>3
      <4> QED BY <1>1, <3>2, <4>1, SMT
    <3>4. CASE k # m
      <4>1. g[k] = f[k] /\ k \in 1..Len(t) BY <2>1, <3>4
      <4> QED BY <1>2, <2>4, <3>1, <3>2, <4>1 DEF Embeds
    <3> QED BY <3>3, <3>4
  <2> HIDE DEF g
  <2>5. Embeds(g, b, a) BY <2>3, <2>4 DEF Embeds
  <2> QED BY <2>2, <2>5 DEF Within
<1> QED BY <1>4, <1>5 DEF a, b

\* What is filtered keeps its order.
LEMMA FilterWithin ==
    ASSUME NEW S, NEW H
    PROVE  \A s \in Seq(S) : Within(Filter(s, H), s)
<1> DEFINE B == {s \in Seq(S) : Within(Filter(s, H), s)}
<1>1. <<>> \in B
  <2> DEFINE f == [k \in 1..Len(<<>>) |-> 0]
  <2>1. Len(<<>>) = 0 /\ 1..0 = {} BY EmptySeq, SMT
  <2>2. Embeds(f, <<>>, <<>>) BY <2>1 DEF Embeds
  <2>3. f \in [1..Len(<<>>) -> Nat] BY <2>1
  <2>4. Within(<<>>, <<>>) BY <2>2, <2>3 DEF Within
  <2> QED BY <2>4, FilterEmpty, EmptySeq
<1>2. ASSUME NEW s \in Seq(S), NEW e \in S, s \in B PROVE Append(s, e) \in B
  <2>1. Append(s, e) \in Seq(S) BY AppendProperties
  <2>2. Filter(Append(s, e), H) = IF e \in H THEN Append(Filter(s, H), e) ELSE Filter(s, H)
    BY FilterAppend
  <2>3. Filter(s, H) \in Seq(S)
    <3>1. Filter(s, H) \in Seq(S \cap H) BY FilterType
    <3> QED BY <3>1, SeqMonotonic
  <2>4. Within(Filter(s, H), s) BY <1>2
  <2>5. Within(Filter(s, H), Append(s, e)) /\ Within(Append(Filter(s, H), e), Append(s, e))
    BY <2>3, <2>4, WithinAppend
  <2> QED BY <2>1, <2>2, <2>5
<1>3. \A s \in Seq(S) : s \in B
  <2> HIDE DEF B
  <2> QED BY <1>1, <1>2, Growing
<1> QED BY <1>3

\* One element is dropped from the middle: a line for a connection that was closed.
LEMMA WithinDrop ==
    ASSUME NEW S, NEW a \in Seq(S), NEW x \in S, NEW b \in Seq(S)
    PROVE  Within(a \o b, a \o (<<x>> \o b)) /\ Within(a, a)
<1> DEFINE c == <<x>> \o b
           t == a \o b
           s == a \o c
<1>1. /\ Len(a) \in Nat /\ Len(b) \in Nat /\ c \in Seq(S) /\ Len(c) = Len(b) + 1
      /\ \A k \in 1..Len(b) : c[k + 1] = b[k]
  <2> DEFINE f == <<x>>
  <2>1. f \in Seq(S) /\ Len(f) = 1 OBVIOUS
  <2> HIDE DEF f
  <2>2. /\ f \o b \in Seq(S) /\ Len(f \o b) = Len(f) + Len(b)
        /\ \A k \in 1..(Len(f) + Len(b)) : (f \o b)[k] = IF k <= Len(f) THEN f[k] ELSE b[k - Len(f)]
    BY <2>1, ConcatProperties
  <2>3. Len(a) \in Nat /\ Len(b) \in Nat BY LenProperties
  <2>4. \A k \in 1..Len(b) : k + 1 \in 1..(Len(f) + Len(b)) /\ ~(k + 1 <= 1) /\ (k + 1) - 1 = k
    BY <2>1, <2>3, SMT
  <2>5. \A k \in 1..Len(b) : (f \o b)[k + 1] = b[k] BY <2>1, <2>2, <2>4
  <2> QED BY <2>1, <2>2, <2>3, <2>5 DEF f
<1> HIDE DEF c
<1>2. /\ Len(t) = Len(a) + Len(b)
      /\ \A k \in 1..(Len(a) + Len(b)) : t[k] = IF k <= Len(a) THEN a[k] ELSE b[k - Len(a)]
      /\ Len(s) = Len(a) + Len(c)
      /\ \A k \in 1..(Len(a) + Len(c)) : s[k] = IF k <= Len(a) THEN a[k] ELSE c[k - Len(a)]
  BY <1>1, ConcatProperties
<1> HIDE DEF t, s
<1> DEFINE f == [k \in 1..Len(t) |-> IF k <= Len(a) THEN k ELSE k + 1]
<1>3. ASSUME NEW k \in 1..Len(t)
      PROVE  f[k] \in Nat /\ f[k] \in 1..Len(s) /\ t[k] = s[f[k]]
  <2>1. CASE k <= Len(a)
    <3>1. f[k] = k /\ k \in 1..Len(s) /\ k \in 1..(Len(a) + Len(b)) /\ k \in 1..(Len(a) + Len(c))
      BY <1>1, <1>2, <2>1
    <3> QED BY <1>2, <2>1, <3>1
  <2>2. CASE ~(k <= Len(a))
    <3>1. /\ f[k] = k + 1 /\ k + 1 \in Nat /\ k + 1 \in 1..Len(s) /\ ~(k + 1 <= Len(a))
          /\ k - Len(a) \in 1..Len(b) /\ (k + 1) - Len(a) = (k - Len(a)) + 1
          /\ k + 1 \in 1..(Len(a) + Len(c)) /\ k \in 1..(Len(a) + Len(b))
      BY <1>1, <1>2, <2>2
    <3>2. t[k] = b[k - Len(a)] BY <1>2, <2>2, <3>1
    <3>3. s[k + 1] = c[(k - Len(a)) + 1]
      <4>1. s[k + 1] = c[(k + 1) - Len(a)] BY <1>2, <3>1
      <4> QED BY <3>1, <4>1
    <3>4. c[(k - Len(a)) + 1] = b[k - Len(a)] BY <1>1, <3>1
    <3> QED BY <3>1, <3>2, <3>3, <3>4
  <2> QED BY <2>1, <2>2
<1>4. \A j, k \in 1..Len(t) : j < k => f[j] < f[k] BY <1>1, <1>2, SMT
<1>5. f \in [1..Len(t) -> Nat] BY <1>1, <1>2
<1>6. Within(t, s)
  <2> HIDE DEF f
  <2>1. Embeds(f, t, s) BY <1>3, <1>4 DEF Embeds
  <2> QED BY <1>5, <2>1 DEF Within
<1>7. Within(a, a)
  <2> DEFINE g == [k \in 1..Len(a) |-> k]
  <2>1. g \in [1..Len(a) -> Nat] /\ Embeds(g, a, a) BY <1>1 DEF Embeds
  <2> HIDE DEF g
  <2> QED BY <2>1 DEF Within
<1> QED BY <1>6, <1>7 DEF t, s, c

\* A sequence whose elements are all in G.
LEMMA SeqIn ==
    ASSUME NEW S, NEW s \in Seq(S), NEW G, \A k \in 1..Len(s) : s[k] \in G
    PROVE  s \in Seq(G)
<1>1. Len(s) \in Nat /\ s \in [1..Len(s) -> S] BY LenProperties
<1>2. s \in [1..Len(s) -> G] BY <1>1
<1> QED BY <1>1, <1>2, SMT

\* What is within a sequence has its elements.
LEMMA WithinType ==
    ASSUME NEW S, NEW t \in Seq(S), NEW G, NEW s \in Seq(G), Within(t, s)
    PROVE  t \in Seq(G)
<1>1. PICK f \in [1..Len(t) -> Nat] : Embeds(f, t, s) BY DEF Within
<1>2. \A k \in 1..Len(t) : f[k] \in 1..Len(s) /\ t[k] = s[f[k]] BY <1>1 DEF Embeds
<1>3. \A k \in 1..Len(s) : s[k] \in G BY ElementOfSeq
<1>4. \A k \in 1..Len(t) : t[k] \in G BY <1>2, <1>3
<1> QED BY <1>4, SeqIn

\* What is in s and in H is in the filtered sequence.
LEMMA FilterHas ==
    ASSUME NEW S, NEW H
    PROVE  \A s \in Seq(S) : \A k \in 1..Len(s) :
              s[k] \in H => \E j \in 1..Len(Filter(s, H)) : Filter(s, H)[j] = s[k]
<1> DEFINE B == {s \in Seq(S) : \A k \in 1..Len(s) :
                    s[k] \in H => \E j \in 1..Len(Filter(s, H)) : Filter(s, H)[j] = s[k]}
<1>1. <<>> \in B
  <2>1. <<>> \in Seq(S) /\ Len(<<>>) = 0 /\ 1..0 = {} BY SMT
  <2> QED BY <2>1
<1>2. ASSUME NEW s \in Seq(S), NEW e \in S, s \in B PROVE Append(s, e) \in B
  <2> DEFINE a == Append(s, e)
             f == Filter(s, H)
             g == Filter(a, H)
  <2>1. /\ a \in Seq(S) /\ Len(a) = Len(s) + 1 /\ Len(s) \in Nat
        /\ (\A k \in 1..Len(s) : a[k] = s[k]) /\ a[Len(s) + 1] = e
    BY AppendProperties, LenProperties
  <2>2. \A k \in 1..Len(s) : s[k] \in H => \E j \in 1..Len(f) : f[j] = s[k]
    BY <1>2
  <2>3. g = IF e \in H THEN Append(f, e) ELSE f BY FilterAppend
  <2>4. f \in Seq(S)
    <3>1. f \in Seq(S \cap H) BY FilterType
    <3> HIDE DEF f
    <3> QED BY <3>1, SeqMonotonic
  <2> HIDE DEF a, f, g
  <2>5. /\ Len(Append(f, e)) = Len(f) + 1 /\ Len(f) \in Nat
        /\ (\A k \in 1..Len(f) : Append(f, e)[k] = f[k]) /\ Append(f, e)[Len(f) + 1] = e
    BY <2>4, AppendProperties, LenProperties
  <2>6. ASSUME NEW k \in 1..Len(a), a[k] \in H PROVE \E j \in 1..Len(g) : g[j] = a[k]
    <3>1. CASE k \in 1..Len(s)
      <4>1. PICK j \in 1..Len(f) : f[j] = s[k] BY <2>1, <2>2, <2>6, <3>1
      <4>2. j \in 1..Len(g) /\ g[j] = f[j] BY <2>3, <2>5, <4>1
      <4> QED BY <2>1, <3>1, <4>1, <4>2
    <3>2. CASE k \notin 1..Len(s)
      <4>1. k = Len(s) + 1 BY <2>1, <3>2
      <4>2. g = Append(f, e) /\ a[k] = e BY <2>1, <2>3, <2>6, <4>1
      <4>3. Len(f) + 1 \in 1..Len(g) BY <2>5, <4>2
      <4> QED BY <2>5, <4>2, <4>3
    <3> QED BY <3>1, <3>2
  <2> QED BY <2>1, <2>6 DEF a, g
<1> HIDE DEF B
<1>3. \A s \in Seq(S) : s \in B BY <1>1, <1>2, Growing
<1> QED BY <1>3 DEF B

\* A set of places has a last one.
LEMMA Greatest ==
    ASSUME NEW n \in Nat, NEW S \in SUBSET (1..n), S # {}
    PROVE  \E k \in S : \A j \in S : j <= k
<1> DEFINE T == {n - k : k \in S}
<1>1. T \in SUBSET Nat /\ T # {}
  <2>1. \A k \in S : n - k \in Nat
    <3>1. \A k \in 1..n : n - k \in Nat BY SMT
    <3> QED BY <3>1
  <2>2. PICK k \in S : TRUE OBVIOUS
  <2> QED BY <2>1, <2>2
<1> HIDE DEF T
<1>2. PICK m \in T : \A l \in T : ~(l < m) BY <1>1, Least
<1>3. PICK k \in S : m = n - k BY DEF T
<1>4. ASSUME NEW j \in S PROVE j <= k
  <2>1. n - j \in T BY DEF T
  <2>2. ~(n - j < n - k) BY <1>2, <1>3, <2>1
  <2> QED BY <2>2
<1> QED BY <1>4

\* The end of a sequence that was appended.
LEMMA LastOfConcat ==
    ASSUME NEW S, NEW p \in Seq(S), NEW q \in Seq(S)
    PROVE  /\ Len(p \o q) >= Len(q)
           /\ SubSeq(p \o q, Len(p \o q) - Len(q) + 1, Len(p \o q)) = q
<1> DEFINE t == p \o q
           a == Len(p)
           b == Len(q)
<1>1. a \in Nat /\ b \in Nat BY LenProperties
<1>2. /\ t \in Seq(S) /\ Len(t) = a + b
      /\ \A k \in 1..(a + b) : t[k] = IF k <= a THEN p[k] ELSE q[k - a]
  BY ConcatProperties
<1> HIDE DEF t
<1> DEFINE m == a + 1
           n == a + b
           r == SubSeq(t, m, n)
<1>3. m \in Int /\ n \in Int /\ \A k \in m..n : t[k] \in S
  <2>1. \A k \in 1..Len(t) : t[k] \in S BY <1>2, ElementOfSeq
  <2>2. \A k \in m..n : k \in 1..Len(t) BY <1>1, <1>2
  <2> QED BY <1>1, <2>1, <2>2
<1> HIDE DEF m, n
<1>4. /\ r \in Seq(S) /\ Len(r) = (IF m <= n THEN n - m + 1 ELSE 0)
      /\ \A k \in 1..(n - m + 1) : r[k] = t[m + k - 1]
  BY <1>3, SubSeqProperties
<1> HIDE DEF r
<1>5. n - m + 1 = b /\ Len(r) = b BY <1>1, <1>4 DEF m, n
<1>6. ASSUME NEW k \in 1..b PROVE r[k] = q[k]
  <2>1. m + k - 1 = a + k /\ a + k \in 1..(a + b) /\ ~(a + k <= a) /\ a + k - a = k
    BY <1>1 DEF m
  <2>2. r[k] = t[a + k] BY <1>4, <1>5, <2>1
  <2> QED BY <1>2, <2>1, <2>2
<1>7. r = q
  <2>1. \A k \in 1..Len(r) : r[k] = q[k] BY <1>5, <1>6
  <2>2. Len(r) = Len(q) BY <1>5
  <2> QED BY <1>4, <2>1, <2>2, SeqEqual
<1>8. Len(t) - b + 1 = m /\ Len(t) = n /\ Len(t) >= b BY <1>1, <1>2 DEF m, n
<1> QED BY <1>7, <1>8 DEF r, t

\* An element in front of others can be put behind the elements before it.
LEMMA AppendInside ==
    ASSUME NEW S, NEW a \in Seq(S), NEW x \in S, NEW b \in Seq(S)
    PROVE  a \o (<<x>> \o b) = Append(a, x) \o b
<1> DEFINE p == <<x>>
<1>1. p \in Seq(S) OBVIOUS
<1>2. Append(a, x) = a \o p BY AppendIsConcat
<1> HIDE DEF p
<1>3. a \o (p \o b) = (a \o p) \o b BY <1>1, ConcatAssociative
<1> QED BY <1>2, <1>3 DEF p

\* The beginning of a sequence.
LEMMA FirstPart ==
    ASSUME NEW S, NEW s \in Seq(S), NEW n \in 0..Len(s)
    PROVE  /\ SubSeq(s, 1, n) \in Seq(S) /\ Len(SubSeq(s, 1, n)) = n
           /\ \A k \in 1..n : SubSeq(s, 1, n)[k] = s[k]
<1>1. Len(s) \in Nat /\ \A k \in 1..Len(s) : s[k] \in S BY LenProperties, ElementOfSeq
<1>2. n \in Nat /\ 1 \in Int /\ n \in Int /\ \A k \in 1..n : s[k] \in S BY <1>1
<1>3. /\ SubSeq(s, 1, n) \in Seq(S)
      /\ Len(SubSeq(s, 1, n)) = IF 1 <= n THEN n - 1 + 1 ELSE 0
      /\ \A k \in 1..(n - 1 + 1) : SubSeq(s, 1, n)[k] = s[1 + k - 1]
  BY <1>2, SubSeqProperties
<1>4. Len(SubSeq(s, 1, n)) = n BY <1>2, <1>3
<1>5. ASSUME NEW k \in 1..n PROVE SubSeq(s, 1, n)[k] = s[k]
  <2>1. k \in 1..(n - 1 + 1) /\ 1 + k - 1 = k BY <1>2
  <2>2. SubSeq(s, 1, n)[k] = s[1 + k - 1] BY <1>3, <2>1
  <2> QED BY <2>1, <2>2
<1> QED BY <1>3, <1>4, <1>5

\* A function on the first numbers is a sequence.
LEMMA FunctionSeq ==
    ASSUME NEW S, NEW n \in Nat, NEW f \in [1..n -> S]
    PROVE  f \in Seq(S) /\ Len(f) = n
BY SMT

\* Equal sequences, the first ending with a, stay equal when t is added to both.
AddsTo(S, a, t) == \A m, p, d \in Seq(S) : m \o a = p \o d => m \o (a \o t) = p \o (d \o t)

\* What is appended to a whole is appended to its second part, however it is split.
LEMMA ConcatBoth ==
    ASSUME NEW S, NEW a \in Seq(S), NEW t \in Seq(S)
    PROVE  AddsTo(S, a, t)
<1>1. \A x, y \in Seq(S) : (x \o y) \o t = x \o (y \o t) BY ConcatAssociative
<1>2. ASSUME NEW m \in Seq(S), NEW p \in Seq(S), NEW d \in Seq(S)
      PROVE  m \o a = p \o d => m \o (a \o t) = p \o (d \o t)
  <2>1. (m \o a) \o t = m \o (a \o t) BY <1>1, Zenon
  <2>2. (p \o d) \o t = p \o (d \o t) BY <1>1, Zenon
  <2> QED BY <2>1, <2>2, Zenon
<1> QED BY <1>2, Zenon DEF AddsTo

\* How the end of a sequence, after its first b elements, changes when an element is added.
EndGrows(S, s, e, b) ==
    LET v == SubSeq(s, b + 1, Len(s))
        w == SubSeq(Append(s, e), b + 1, Len(s) + 1)
    IN  /\ b <= Len(s) => v \in Seq(S) /\ Len(v) = Len(s) - b /\ w = Append(v, e)
        /\ ~(b <= Len(s)) => v = <<>> /\ w = <<>>

\* The end of a sequence grows by the element that is added to the sequence.
LEMMA EndAppend ==
    ASSUME NEW S, NEW s \in Seq(S), NEW e \in S, NEW b \in Nat
    PROVE  EndGrows(S, s, e, b)
<1> DEFINE n == Len(s)
           t == Append(s, e)
           v == SubSeq(s, b + 1, n)
           w == SubSeq(t, b + 1, n + 1)
<1>1. n \in Nat /\ (\A k \in 1..n : s[k] \in S) BY LenProperties, ElementOfSeq
<1>2. (\A k \in 1..n : t[k] = s[k]) /\ t[n + 1] = e BY AppendProperties
<1>3. CASE b <= n
  <2>1. \A k \in (b + 1)..n : s[k] \in S BY <1>1
  <2>2. \A k \in (b + 1)..(n + 1) : t[k] \in S
    <3>1. \A k \in (b + 1)..(n + 1) : k \in 1..n \/ k = n + 1 BY <1>1
    <3> HIDE DEF t
    <3> QED BY <1>1, <1>2, <3>1
  <2>3. b + 1 \in Int /\ n \in Int /\ n + 1 \in Int BY <1>1
  <2> HIDE DEF n, t
  <2>4. /\ v \in Seq(S) /\ Len(v) = IF b + 1 <= n THEN n - (b + 1) + 1 ELSE 0
        /\ \A k \in 1..(n - (b + 1) + 1) : v[k] = s[(b + 1) + k - 1]
    BY <2>1, <2>3, SubSeqProperties
  <2>5. /\ w \in Seq(S) /\ Len(w) = IF b + 1 <= n + 1 THEN (n + 1) - (b + 1) + 1 ELSE 0
        /\ \A k \in 1..((n + 1) - (b + 1) + 1) : w[k] = t[(b + 1) + k - 1]
    BY <2>2, <2>3, SubSeqProperties
  <2> DEFINE a == Append(v, e)
  <2> HIDE DEF v, w
  <2>6. a \in Seq(S) /\ Len(a) = Len(v) + 1 /\ (\A k \in 1..Len(v) : a[k] = v[k]) /\ a[Len(v) + 1] = e
    BY <2>4, AppendProperties
  <2>7. Len(v) = n - b /\ Len(w) = n - b + 1 BY <1>1, <1>3, <2>4, <2>5
  <2> HIDE DEF a
  <2>8. ASSUME NEW k \in 1..(n - b + 1) PROVE w[k] = a[k]
    <3>1. k \in 1..((n + 1) - (b + 1) + 1) /\ (b + 1) + k - 1 = b + k BY <1>1, <1>3
    <3>2. w[k] = t[b + k] BY <2>5, <3>1
    <3>3. CASE k <= n - b
      <4>1. k \in 1..Len(v) /\ k \in 1..(n - (b + 1) + 1) /\ b + k \in 1..n BY <1>1, <1>3, <2>7, <3>3
      <4>2. v[k] = s[b + k] BY <2>4, <3>1, <4>1
      <4> QED BY <1>2, <2>6, <3>2, <4>1, <4>2 DEF n, t
    <3>4. CASE ~(k <= n - b)
      <4>1. k = Len(v) + 1 /\ b + k = n + 1 BY <1>1, <1>3, <2>7, <3>4
      <4> QED BY <1>2, <2>6, <3>2, <4>1 DEF n, t
    <3> QED BY <3>3, <3>4
  <2>9. w = a
    <3>1. Len(w) = Len(a) /\ Len(w) = n - b + 1 BY <2>6, <2>7
    <3> QED BY <2>5, <2>6, <2>8, <3>1, SeqEqual
  <2>10. v \in Seq(S) /\ w = Append(v, e) BY <2>4, <2>9 DEF a
  <2>11. b <= Len(s) /\ Len(v) = Len(s) - b BY <1>3, <2>7 DEF n
  <2>12. v = SubSeq(s, b + 1, Len(s)) /\ w = SubSeq(Append(s, e), b + 1, Len(s) + 1) BY DEF v, w, n, t
  <2> HIDE DEF v, w
  <2> QED BY <2>10, <2>11, <2>12 DEF EndGrows
<1>4. CASE ~(b <= n)
  <2>1. n < b + 1 /\ n + 1 < b + 1 /\ b + 1 \in Int /\ n \in Int /\ n + 1 \in Int BY <1>1, <1>4
  <2> HIDE DEF n, t
  <2>2. v = <<>> BY <2>1, SubSeqEmpty
  <2>3. w = <<>> BY <2>1, SubSeqEmpty
  <2>4. ~(b <= Len(s)) BY <1>4 DEF n
  <2>5. v = SubSeq(s, b + 1, Len(s)) /\ w = SubSeq(Append(s, e), b + 1, Len(s) + 1) BY DEF n, t
  <2> HIDE DEF v, w
  <2> QED BY <2>2, <2>3, <2>4, <2>5 DEF EndGrows
<1> QED BY <1>3, <1>4

\* What t says after p, when a \o t = p \o d: the rest of a, and t.
RestIs(a, t, p, d) == d = SubSeq(a, Len(p) + 1, Len(a)) \o t

\* A whole that is split in two ways: the second part of the earlier split begins with the end
\* of the other's first part.
LEMMA RestOfConcat ==
    ASSUME NEW S, NEW a \in Seq(S), NEW t \in Seq(S), NEW p \in Seq(S), NEW d \in Seq(S),
           a \o t = p \o d, Len(p) <= Len(a)
    PROVE  RestIs(a, t, p, d)
<1> DEFINE i == Len(a)
           b == Len(p)
           w == SubSeq(a, b + 1, i)
           q == w \o t
<1>1. i \in Nat /\ b \in Nat /\ Len(d) \in Nat /\ Len(t) \in Nat /\ b <= i BY LenProperties
<1>2. \A k \in (b + 1)..i : a[k] \in S
  <2>1. \A k \in 1..i : a[k] \in S BY ElementOfSeq
  <2>2. \A k \in (b + 1)..i : k \in 1..i BY <1>1
  <2> QED BY <2>1, <2>2
<1>3. /\ w \in Seq(S) /\ Len(w) = i - b
      /\ \A k \in 1..(i - b) : w[k] = a[b + k]
  <2>1. b + 1 \in Int /\ i \in Int BY <1>1
  <2>2. /\ w \in Seq(S) /\ Len(w) = IF b + 1 <= i THEN i - (b + 1) + 1 ELSE 0
        /\ \A k \in 1..(i - (b + 1) + 1) : w[k] = a[(b + 1) + k - 1]
    <3> HIDE DEF i, b
    <3> QED BY <1>2, <2>1, SubSeqProperties
  <2> HIDE DEF i, b, w
  <2>3. i - (b + 1) + 1 = i - b /\ \A k \in 1..(i - b) : (b + 1) + k - 1 = b + k BY <1>1
  <2>4. Len(w) = i - b BY <1>1, <2>2
  <2>5. ASSUME NEW k \in 1..(i - b) PROVE w[k] = a[b + k]
    <3>1. k \in 1..(i - (b + 1) + 1) BY <2>3
    <3> QED BY <2>2, <2>3, <3>1
  <2> QED BY <2>2, <2>4, <2>5
<1>4. /\ Len(a \o t) = i + Len(t)
      /\ \A k \in 1..(i + Len(t)) : (a \o t)[k] = IF k <= i THEN a[k] ELSE t[k - i]
  BY ConcatProperties
<1>5. /\ Len(p \o d) = b + Len(d)
      /\ \A k \in 1..(b + Len(d)) : (p \o d)[k] = IF k <= b THEN p[k] ELSE d[k - b]
  BY ConcatProperties
<1> HIDE DEF w
<1>6. /\ q \in Seq(S) /\ Len(q) = Len(w) + Len(t)
      /\ \A k \in 1..(Len(w) + Len(t)) : q[k] = IF k <= Len(w) THEN w[k] ELSE t[k - Len(w)]
  BY <1>3, ConcatProperties
<1> HIDE DEF i, b, q
<1>7. Len(d) = Len(q) /\ Len(q) = (i - b) + Len(t) BY <1>1, <1>3, <1>4, <1>5, <1>6
<1>8. ASSUME NEW k \in 1..Len(d) PROVE d[k] = q[k]
  <2>1. b + k \in 1..(i + Len(t)) /\ b + k \in 1..(b + Len(d)) /\ ~(b + k <= b) /\ (b + k) - b = k
    BY <1>1, <1>7
  <2>2. d[k] = (p \o d)[b + k] BY <1>5, <2>1
  <2>3. CASE k <= i - b
    <3>1. k \in 1..(i - b) /\ k \in 1..(Len(w) + Len(t)) /\ k <= Len(w) /\ b + k <= i
      BY <1>1, <1>3, <1>7, <2>3
    <3>2. (a \o t)[b + k] = a[b + k] BY <1>4, <2>1, <3>1
    <3>3. q[k] = a[b + k] BY <1>3, <1>6, <3>1
    <3> QED BY <2>2, <3>2, <3>3
  <2>4. CASE ~(k <= i - b)
    <3>1. k \in 1..(Len(w) + Len(t)) /\ ~(k <= Len(w)) /\ ~(b + k <= i) /\ (b + k) - i = k - Len(w)
      BY <1>1, <1>3, <1>7, <2>4
    <3>2. (a \o t)[b + k] = t[(b + k) - i] BY <1>4, <2>1, <3>1
    <3>3. q[k] = t[k - Len(w)] BY <1>6, <3>1
    <3> QED BY <2>2, <3>1, <3>2, <3>3
  <2> QED BY <2>3, <2>4
<1>9. d = q BY <1>6, <1>7, <1>8, SeqEqual
<1> QED BY <1>9 DEF RestIs, q, w, i, b

\* Sets that are the same as far as the elements of a queue go keep the same of it.
LEMMA FilterSame ==
    ASSUME NEW S, NEW G, NEW H, S \cap G = S \cap H
    PROVE  \A s \in Seq(S) : Filter(s, G) = Filter(s, H)
<1> DEFINE B == {s \in Seq(S) : Filter(s, G) = Filter(s, H)}
<1>1. <<>> \in B BY FilterEmpty, EmptySeq
<1>2. ASSUME NEW s \in Seq(S), NEW e \in S, s \in B PROVE Append(s, e) \in B
  <2>1. (e \in G <=> e \in H) /\ Append(s, e) \in Seq(S) BY AppendProperties
  <2>2. /\ Filter(Append(s, e), G) = IF e \in G THEN Append(Filter(s, G), e) ELSE Filter(s, G)
        /\ Filter(Append(s, e), H) = IF e \in H THEN Append(Filter(s, H), e) ELSE Filter(s, H)
    BY FilterAppend
  <2> QED BY <1>2, <2>1, <2>2
<1>3. \A s \in Seq(S) : s \in B
  <2> HIDE DEF B
  <2> QED BY <1>1, <1>2, Growing
<1> QED BY <1>3

=============================================================================
