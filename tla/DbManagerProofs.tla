-------------------------- MODULE DbManagerProofs --------------------------
(***************************************************************************)
(* What DbManager keeps for every set of messages, however large the       *)
(* table, wherever a statement fails and whenever the process is killed.   *)
(***************************************************************************)
EXTENDS DbManager, SequenceFacts

(***************************************************************************)
(* The inductive invariant: what the locals of a call are at each of its   *)
(* statements.  The statement is live only between its prepare and its     *)
(* first finalize, and an insert has stored its message exactly when it    *)
(* comes to the last finalize without an error.                            *)
(***************************************************************************)

CallInv ==
    /\ at = "prepare" => stmt # "live" /\ (call # "none" => ~stored /\ ~failed)
    /\ call = "none" => at = "prepare"
    /\ at = "finalize on error" => call = "insert" /\ ~stored /\ failed
    /\ call = "insert" /\ at = "step" => ~stored /\ (stmt = "null" <=> failed)
    /\ call = "insert" /\ at = "finalize" => (stored <=> ~failed)

StoredInv == stored => rows # <<>> /\ rows[Len(rows)] = arg

DbInv == DbTypeOK /\ CallInv /\ StoredInv /\ ReadsPrefix

----------------------------------------------------------------------------
\* The empty table of a new file satisfies it (db_manager.cpp:9-25).
LEMMA DbInitInv == Init => DbInv
<1> SUFFICES ASSUME Init PROVE DbInv
  OBVIOUS
<1>1. <<>> \in Seq(Messages) /\ 0 \in 0..MaxLives
  BY EmptySeq, DbBounds
<1>2. DbTypeOK BY <1>1 DEF Init, NoCall, DbTypeOK
<1>3. CallInv /\ StoredInv BY DEF Init, NoCall, CallInv, StoredInv
<1>4. ReadsPrefix
  <2>1. out = <<>> /\ rows = <<>> BY DEF Init, NoCall
  <2>2. IsPrefix(<<>>, <<>>) BY <1>1, PrefixAppend, <1>2 DEF DbTypeOK
  <2> QED BY <2>1, <2>2 DEF ReadsPrefix
<1> QED BY <1>2, <1>3, <1>4 DEF DbInv

\* What a step leaves alone stays as it should be: a step that changes neither the table nor
\* what was collected reads no other part of the table.
LEMMA PrefixKept ==
    ASSUME ReadsPrefix, rows' = rows, out' = out
    PROVE  ReadsPrefix'
BY DEF ReadsPrefix

\* A call that begins, or that is killed, has collected nothing.
LEMMA PrefixOfNothing ==
    ASSUME DbTypeOK, rows' = rows, out' = <<>>
    PROVE  ReadsPrefix'
<1>1. <<>> \in Seq(Messages) /\ Len(<<>>) = 0 BY EmptySeq
<1>2. Len(rows) \in Nat BY LenProperties DEF DbTypeOK
<1>3. rows \in Seq(Messages) BY DEF DbTypeOK
<1>4. Len(<<>>) <= Len(rows) /\ \A k \in 1..Len(<<>>) : <<>>[k] = rows[k] BY <1>1, <1>2, SMT
<1>5. IsPrefix(<<>>, rows) BY <1>1, <1>3, <1>4, PrefixElements
<1> QED BY <1>5 DEF ReadsPrefix

\* Every step keeps it: a call is followed statement by statement, through its failures, and
\* may be cut off after each of them by a kill (db_manager.cpp:77-142).
LEMMA DbNextInv == DbInv /\ [Next]_vars => DbInv'
<1> SUFFICES ASSUME DbInv, [Next]_vars PROVE DbInv'
  OBVIOUS
<1> USE DEF DbInv
<1>1. CASE Open
  <2>1. lives' \in 0..MaxLives
    <3>1. lives' = lives + 1 /\ lives < MaxLives /\ lives \in 0..MaxLives
      BY <1>1 DEF Open, DbTypeOK
    <3> QED BY <3>1, DbBounds
  <2>2. DbTypeOK' BY <1>1, <2>1 DEF Open, frame, DbTypeOK
  <2>3. CallInv' /\ StoredInv' BY <1>1 DEF Open, frame, CallInv, StoredInv
  <2>4. ReadsPrefix' BY <1>1, PrefixKept DEF Open, frame
  <2> QED BY <2>2, <2>3, <2>4
<1>2. CASE Close
  <2>1. DbTypeOK' BY <1>2 DEF Close, frame, DbTypeOK
  <2>2. CallInv' /\ StoredInv' BY <1>2 DEF Close, frame, CallInv, StoredInv
  <2>3. ReadsPrefix' BY <1>2, PrefixKept DEF Close, frame
  <2> QED BY <2>1, <2>2, <2>3
<1>3. CASE Kill
  <2>1. DbTypeOK' BY <1>3, EmptySeq DEF Kill, DbTypeOK
  <2>2. CallInv' /\ StoredInv' BY <1>3 DEF Kill, CallInv, StoredInv
  <2>3. ReadsPrefix' BY <1>3, PrefixOfNothing DEF Kill
  <2> QED BY <2>1, <2>2, <2>3
<1>4. ASSUME NEW m \in Messages, addMessageEntry(m) PROVE DbInv'
  <2>1. DbTypeOK' BY <1>4, EmptySeq DEF addMessageEntry, Begin, DbTypeOK
  <2>2. CallInv' /\ StoredInv' BY <1>4 DEF addMessageEntry, Begin, CallInv, StoredInv
  <2>3. ReadsPrefix' BY <1>4, PrefixOfNothing DEF addMessageEntry, Begin
  <2> QED BY <2>1, <2>2, <2>3
<1>5. CASE getMessages
  <2>1. DbTypeOK' BY <1>5, EmptySeq DEF getMessages, Begin, DbTypeOK
  <2>2. CallInv' /\ StoredInv' BY <1>5 DEF getMessages, Begin, CallInv, StoredInv
  <2>3. ReadsPrefix' BY <1>5, PrefixOfNothing DEF getMessages, Begin
  <2> QED BY <2>1, <2>2, <2>3
<1>6. CASE Prepare
  <2>1. DbTypeOK' BY <1>6 DEF Prepare, DbTypeOK
  <2>2. ~stored /\ ~failed /\ UNCHANGED <<stored, rows, arg>>
    BY <1>6 DEF Prepare, CallInv
  <2>3. CallInv' /\ StoredInv'
    <3>1. CASE stmt' = "live" /\ at' = "step" /\ UNCHANGED <<call, failed>>
      BY <1>6, <2>2, <3>1 DEF Prepare, CallInv, StoredInv
    <3>2. CASE call = "insert" /\ stmt' = "null" /\ at' = "step" /\ failed' /\ UNCHANGED call
      BY <2>2, <3>2 DEF CallInv, StoredInv
    <3>3. CASE at' = "prepare" /\ stmt' = "null" /\ call' = "none"
      BY <2>2, <3>3 DEF CallInv, StoredInv
    <3> QED BY <1>6, <3>1, <3>2, <3>3 DEF Prepare
  <2>4. ReadsPrefix' BY <1>6, PrefixKept DEF Prepare
  <2> QED BY <2>1, <2>3, <2>4
<1>7. CASE StepInsert
  <2>1. CASE /\ rows' = Append(rows, arg) /\ stored' = TRUE
             /\ stmt = "live" /\ at' = "finalize" /\ UNCHANGED failed
    <3>1. rows \in Seq(Messages) /\ arg \in Messages BY DEF DbTypeOK
    <3>2. /\ Append(rows, arg) \in Seq(Messages) /\ Append(rows, arg) # <<>>
          /\ Append(rows, arg)[Len(Append(rows, arg))] = arg
      BY <3>1, AppendProperties
    <3>3. DbTypeOK' BY <1>7, <2>1, <3>2 DEF StepInsert, DbTypeOK
    <3>4. CallInv' BY <1>7, <2>1 DEF StepInsert, CallInv
    <3>5. StoredInv' BY <1>7, <2>1, <3>2 DEF StepInsert, StoredInv
    <3>6. ReadsPrefix'
      <4>1. out \in Seq(Messages) /\ out' = out /\ rows' = Append(rows, arg)
        BY <1>7, <2>1 DEF StepInsert, DbTypeOK
      <4>2. IsPrefix(out, rows) => IsPrefix(out, Append(rows, arg)) BY <3>1, <4>1, PrefixAppend
      <4> QED BY <4>1, <4>2 DEF ReadsPrefix
    <3> QED BY <3>3, <3>4, <3>5, <3>6
  <2>2. CASE UNCHANGED <<rows, stored>> /\ at' = "finalize on error" /\ failed' = TRUE
    <3>1. DbTypeOK' BY <1>7, <2>2 DEF StepInsert, DbTypeOK
    <3>2. CallInv' /\ StoredInv' BY <1>7, <2>2 DEF StepInsert, CallInv, StoredInv
    <3>3. ReadsPrefix' BY <1>7, <2>2, PrefixKept DEF StepInsert
    <3> QED BY <3>1, <3>2, <3>3
  <2> QED BY <1>7, <2>1, <2>2 DEF StepInsert
<1>8. CASE StepSelect
  <2>1. CASE Len(out) < Len(rows) /\ out' = Append(out, Row(Len(out) + 1)) /\ at' = at
    <3>1. Row(Len(out) + 1) \in Messages /\ IsPrefix(out', rows)
      BY <2>1, PrefixNext DEF Row, ReadsPrefix, DbTypeOK
    <3>2. out' \in Seq(Messages) BY <2>1, <3>1, AppendProperties DEF DbTypeOK
    <3>3. DbTypeOK' BY <1>8, <2>1, <3>2 DEF StepSelect, DbTypeOK
    <3>4. CallInv' /\ StoredInv' BY <1>8, <2>1 DEF StepSelect, CallInv, StoredInv
    <3>5. ReadsPrefix' BY <1>8, <3>1 DEF StepSelect, ReadsPrefix
    <3> QED BY <3>3, <3>4, <3>5
  <2>2. CASE at' = "finalize" /\ UNCHANGED out
    <3>1. DbTypeOK' BY <1>8, <2>2 DEF StepSelect, DbTypeOK
    <3>2. CallInv' /\ StoredInv' BY <1>8, <2>2 DEF StepSelect, CallInv, StoredInv
    <3>3. ReadsPrefix' BY <1>8, <2>2, PrefixKept DEF StepSelect
    <3> QED BY <3>1, <3>2, <3>3
  <2> QED BY <1>8, <2>1, <2>2 DEF StepSelect
<1>9. CASE FinalizeOnError
  <2>1. DbTypeOK' BY <1>9 DEF FinalizeOnError, finalizeSilently, DbTypeOK
  <2>2. CallInv' /\ StoredInv'
    BY <1>9 DEF FinalizeOnError, finalizeSilently, CallInv, StoredInv
  <2>3. ReadsPrefix' BY <1>9, PrefixKept DEF FinalizeOnError
  <2> QED BY <2>1, <2>2, <2>3
<1>10. CASE Finalize
  <2>1. DbTypeOK' BY <1>10 DEF Finalize, finalizeSilently, DbTypeOK
  <2>2. CallInv' BY <1>10 DEF Finalize, finalizeSilently, CallInv
  <2>3. StoredInv' BY <1>10 DEF Finalize, finalizeSilently, StoredInv
  <2>4. ReadsPrefix' BY <1>10, PrefixKept DEF Finalize
  <2> QED BY <2>1, <2>2, <2>3, <2>4
<1>11. CASE UNCHANGED vars
  <2>1. DbTypeOK' BY <1>11 DEF vars, frame, DbTypeOK
  <2>2. CallInv' /\ StoredInv' BY <1>11 DEF vars, frame, CallInv, StoredInv
  <2>3. ReadsPrefix' BY <1>11, PrefixKept DEF vars, frame
  <2> QED BY <2>1, <2>2, <2>3
<1> QED BY <1>1, <1>2, <1>3, <1>4, <1>5, <1>6, <1>7, <1>8, <1>9, <1>10, <1>11 DEF Next

----------------------------------------------------------------------------
\* The store keeps the invariant in every execution (db_manager.cpp:9-142).
THEOREM DbInvariant == Spec => []DbInv
BY DbInitInv, DbNextInv, PTL DEF Spec

\* The variables of the store keep their types.
THEOREM DbTypeCorrect == Spec => []DbTypeOK
<1>1. DbInv => DbTypeOK BY DEF DbInv
<1> QED BY <1>1, DbInvariant, PTL

\* No call leaves a live statement behind, whichever of its statements failed
\* (db_manager.cpp:41-48, 77-142).
THEOREM AllFinalizedHolds == Spec => []AllFinalized
<1>1. DbInv => AllFinalized BY DEF DbInv, CallInv, AllFinalized
<1> QED BY <1>1, DbInvariant, PTL

\* What getMessages() returns is a beginning of the table, in its order
\* (db_manager.cpp:122-141).
THEOREM ReadsPrefixHolds == Spec => []ReadsPrefix
<1>1. DbInv => ReadsPrefix BY DEF DbInv
<1> QED BY <1>1, DbInvariant, PTL

\* An insert either stores its message at the end of the table or logs an error
\* (db_manager.cpp:83-103).
THEOREM StoredOrLoggedHolds == Spec => []StoredOrLogged
<1>1. DbInv => StoredOrLogged BY DEF DbInv, CallInv, StoredInv, StoredOrLogged
<1> QED BY <1>1, DbInvariant, PTL

\* No step takes a row out of the table or changes one, and none adds more than one: not a
\* failed insert, nor a kill and the start after it (db_manager.cpp:9-25, 83-103).
THEOREM TableOnlyGrowsHolds == Spec => TableOnlyGrows
<1> DEFINE Grows == IsPrefix(rows, rows') /\ Len(rows') <= Len(rows) + 1
<1>1. ASSUME DbInv, [Next]_vars PROVE [Grows]_vars
  <2>1. rows \in Seq(Messages) /\ arg \in Messages /\ Len(rows) \in Nat
    BY <1>1, LenProperties DEF DbInv, DbTypeOK
  <2>2. IsPrefix(rows, rows) BY <2>1, PrefixElements, SMT
  <2>3. CASE rows' = rows BY <2>1, <2>2, <2>3, SMT
  <2>4. CASE rows' = Append(rows, arg)
    <3>1. IsPrefix(rows, Append(rows, arg)) BY <2>1, PrefixAppend
    <3>2. Len(Append(rows, arg)) = Len(rows) + 1 BY <2>1, AppendProperties
    <3> QED BY <2>1, <2>4, <3>1, <3>2, SMT
  <2>5. rows' = rows \/ rows' = Append(rows, arg)
    BY <1>1 DEF Next, vars, frame, Open, Close, Kill, addMessageEntry, getMessages, Begin,
                Prepare, StepInsert, StepSelect, FinalizeOnError, Finalize
  <2> QED BY <2>3, <2>4, <2>5
<1>2. DbInv /\ [Next]_vars => [Grows]_vars BY <1>1
<1> QED BY <1>2, DbInvariant, PTL DEF Spec, TableOnlyGrows

=============================================================================
