----------------------------- MODULE DbManager -----------------------------
(***************************************************************************)
(* The server's store, class DataBaseManager                               *)
(* (src/packages/server/src/db_manager.cpp): the calls it makes of SQLite  *)
(* (external), in their order, and what each may return.  One thread makes *)
(* the calls.  The process may be killed between two of them; the file     *)
(* chat.db, with the rows of the table messages, remains.                  *)
(***************************************************************************)
EXTENDS Naturals, Sequences, SequencesExt

CONSTANTS
    Messages,  \* what addMessageEntry is called with
    MaxRows,   \* bound: rows of the table
    MaxLives   \* bound: how often the process is started

ASSUME DbBounds == MaxRows \in Nat /\ MaxLives \in Nat

VARIABLES
    lives,   \* how often the process was started
    db_,     \* "closed" (no manager), "open", or "null" (sqlite3_open failed)
    schema,  \* the tables exist in the file
    rows,    \* the table messages, in the order of its ids
    call,    \* "none", "insert" (addMessageEntry) or "select" (getMessages)
    at,      \* the next SQLite call: "prepare", "step", "finalize on error", "finalize"
    stmt,    \* the local statement: "null", "live", or "dangling" after its finalize
    arg,     \* the message being added
    out,     \* what getMessages collected
    stored,  \* history: the insert under way put its row in the table
    failed,  \* history: the insert under way logged an error
    misused  \* history: a statement was used after it had been finalized

frame == <<call, at, stmt, arg, out, stored, failed>>
vars  == <<lives, db_, schema, rows, frame, misused>>

NoCall == /\ call = "none" /\ at = "prepare" /\ stmt = "null" /\ out = <<>>
          /\ stored = FALSE /\ failed = FALSE

Init ==
    /\ lives = 0 /\ db_ = "closed" /\ schema = FALSE /\ rows = <<>> /\ misused = FALSE
    /\ NoCall /\ arg \in Messages

----------------------------------------------------------------------------
\* The definitions named Bad... are the code with a slip, each before the definition it
\* would replace; the properties are tried against them.  This one makes a new table.
BadOpen ==
    /\ db_ = "closed" /\ lives < MaxLives
    /\ lives' = lives + 1
    /\ db_' = "open" /\ schema' = TRUE /\ rows' = <<>>
    /\ UNCHANGED <<frame, misused>>

\* The constructor: a failure to open is logged and the manager goes on without a
\* database; ensureSchema() may fail too, and on a null database it does.
Open ==
    /\ db_ = "closed" /\ lives < MaxLives
    /\ lives' = lives + 1
    /\ \/ db_' = "null" /\ UNCHANGED schema
       \/ db_' = "open" /\ schema' \in {schema, TRUE}
    /\ UNCHANGED <<rows, frame, misused>>

\* The destructor, between two calls.
Close ==
    /\ db_ # "closed" /\ call = "none"
    /\ db_' = "closed"
    /\ UNCHANGED <<lives, schema, rows, frame, misused>>

\* The process is killed at any point; the open statement is rolled back.
Kill ==
    /\ db_ # "closed"
    /\ db_' = "closed"
    /\ call' = "none" /\ at' = "prepare" /\ stmt' = "null" /\ out' = <<>>
    /\ stored' = FALSE /\ failed' = FALSE
    /\ UNCHANGED <<lives, schema, rows, arg, misused>>

Begin(kind, m) ==
    /\ db_ # "closed" /\ call = "none"
    /\ call' = kind /\ arg' = m
    /\ at' = "prepare" /\ stmt' = "null" /\ out' = <<>>
    /\ stored' = FALSE /\ failed' = FALSE
    /\ UNCHANGED <<lives, db_, schema, rows, misused>>

addMessageEntry(m) == Begin("insert", m)
getMessages        == Begin("select", arg)

\* sqlite3_prepare_v2: with no database or no table it fails and leaves a null statement.
\* After a failure getMessages returns, addMessageEntry goes on with the null statement.
Prepare ==
    /\ call # "none" /\ at = "prepare"
    /\ \/ /\ db_ = "open" /\ schema
          /\ stmt' = "live" /\ at' = "step"
          /\ UNCHANGED <<call, failed>>
       \/ /\ stmt' = "null"
          /\ IF call = "insert" THEN at' = "step" /\ failed' = TRUE /\ UNCHANGED call
                                ELSE at' = at /\ call' = "none" /\ UNCHANGED failed
    /\ UNCHANGED <<lives, db_, schema, rows, arg, out, stored, misused>>

\* ... that takes every answer for SQLITE_DONE.
BadStepInsert ==
    /\ call = "insert" /\ at = "step"
    /\ at' = "finalize"
    /\ \/ /\ stmt = "live" /\ Len(rows) < MaxRows
          /\ rows' = Append(rows, arg) /\ stored' = TRUE
       \/ UNCHANGED <<rows, stored>>
    /\ UNCHANGED <<lives, db_, schema, call, stmt, arg, out, failed, misused>>

\* sqlite3_step of the INSERT: SQLITE_DONE, or an error, always one on a null statement.
StepInsert ==
    /\ call = "insert" /\ at = "step"
    /\ \/ /\ stmt = "live" /\ Len(rows) < MaxRows
          /\ rows' = Append(rows, arg) /\ stored' = TRUE
          /\ at' = "finalize" /\ UNCHANGED failed
       \/ /\ at' = "finalize on error" /\ failed' = TRUE
          /\ UNCHANGED <<rows, stored>>
    /\ UNCHANGED <<lives, db_, schema, call, stmt, arg, out, misused>>

\* ... in the opposite order.
BadRowDesc(k) == rows[Len(rows) + 1 - k]

\* The k-th row of the SELECT, which orders by id.
Row(k) == rows[k]

\* sqlite3_step of the SELECT: a row, or the end of the loop, by SQLITE_DONE or an error.
StepSelect ==
    /\ call = "select" /\ at = "step"
    /\ \/ Len(out) < Len(rows) /\ out' = Append(out, Row(Len(out) + 1)) /\ at' = at
       \/ at' = "finalize" /\ UNCHANGED out
    /\ UNCHANGED <<lives, db_, schema, rows, call, stmt, arg, stored, failed, misused>>

\* ... that does nothing.
BadFinalize == UNCHANGED <<stmt, misused>>

\* finalizeSilently(): it gets the pointer by value, so the caller's stays what it was.
finalizeSilently ==
    /\ misused' = (misused \/ stmt = "dangling")
    /\ stmt' = IF stmt = "null" THEN "null" ELSE "dangling"

\* The finalize of the error branch of addMessageEntry, which does not return.
FinalizeOnError ==
    /\ at = "finalize on error"
    /\ finalizeSilently
    /\ at' = "finalize"
    /\ UNCHANGED <<lives, db_, schema, rows, call, arg, out, stored, failed>>

\* The last finalize, and the return.
Finalize ==
    /\ at = "finalize"
    /\ finalizeSilently
    /\ call' = "none" /\ at' = "prepare"
    /\ UNCHANGED <<lives, db_, schema, rows, arg, out, stored, failed>>

Next ==
    \/ Open \/ Close \/ Kill
    \/ \E m \in Messages : addMessageEntry(m)
    \/ getMessages
    \/ Prepare \/ StepInsert \/ StepSelect \/ FinalizeOnError \/ Finalize

Spec == Init /\ [][Next]_vars

----------------------------------------------------------------------------
(* Properties.                                                             *)

DbTypeOK ==
    /\ lives \in 0..MaxLives /\ db_ \in {"closed", "open", "null"} /\ schema \in BOOLEAN
    /\ rows \in Seq(Messages) /\ out \in Seq(Messages) /\ arg \in Messages
    /\ call \in {"none", "insert", "select"}
    /\ at \in {"prepare", "step", "finalize on error", "finalize"}
    /\ stmt \in {"null", "live", "dangling"}
    /\ stored \in BOOLEAN /\ failed \in BOOLEAN /\ misused \in BOOLEAN

\* However a call ends, by a return or by an error, it leaves no statement behind that would
\* keep sqlite3_close() from closing the file (db_manager.cpp:41-48, 77-142).
AllFinalized == call = "none" => stmt # "live"

\* What getMessages returns is a beginning of the table in the order of the ids, all of it or
\* the part read before an error (db_manager.cpp:122-141).
ReadsPrefix == IsPrefix(out, rows)

\* A finished addMessageEntry either stored its message, once, at the end of the table, or
\* logged an error, never both and never neither (db_manager.cpp:83-103); a return tells the
\* caller nothing of it.
StoredOrLogged ==
    /\ at = "finalize" /\ call = "insert" => (stored <=> ~failed)
    /\ stored => rows # <<>> /\ rows[Len(rows)] = arg

\* No step, a kill and a restart included, removes, changes or reorders what was stored.
TableOnlyGrows == [][IsPrefix(rows, rows') /\ Len(rows') <= Len(rows) + 1]_vars

\* "It is a grievous error for the application to try to use a prepared statement after it
\* has been finalized" (src/packages/server/sqlite3/sqlite3.h:5499).
NeverUsedAfterFinalize == ~misused

=============================================================================
