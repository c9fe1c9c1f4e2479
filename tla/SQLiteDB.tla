------------------------------ MODULE SQLiteDB ------------------------------
(***************************************************************************)
(* SQLiteDB (src/src/SQLiteDB.cpp): a wrapper around one sqlite3           *)
(* connection handle.  open() asks sqlite for a new connection, close()    *)
(* asks sqlite to free it and keeps the handle when sqlite answers BUSY    *)
(* (statements of the connection not yet finalised), prepare_statement()   *)
(* creates a statement on the current handle or throws NotInit.            *)
(*                                                                         *)
(* Several SQLiteDB objects (the global metadata database, an archive's   *)
(* metadata database) share one sqlite library.                           *)
(* The sqlite library is part of the environment: `live` is the set of     *)
(* connections it has allocated and not freed, `stmts` maps each          *)
(* statement slot to the connection it was prepared on.  A statement is    *)
(* finalised by SQLitePreparedStatement's destructor, which is not in the *)
(* repository; it is modelled from the spec as an action of its own.       *)
(***************************************************************************)
EXTENDS FiniteSets, Functions

CONSTANTS
  DBs,          \* SQLiteDB objects
  Conns,        \* connection objects sqlite can hand out
  Stmts,        \* statement slots a caller may hold at once
  Null,         \* nullptr
  AllowReopen   \* may the caller call open() while m_db_handle is set?

VARIABLES
  m_db_handle,  \* SQLiteDB::m_db_handle of each object
  live,         \* connections sqlite has open
  stmts,        \* statement -> connection it belongs to, or Null when free
  result        \* outcome of the caller's last call

vars == <<m_db_handle, live, stmts, result>>

Results == {"none", "ok", "true", "false", "Failure", "NotInit"}

Init ==
  /\ m_db_handle = [d \in DBs |-> Null]
  /\ live = {}
  /\ stmts = [s \in Stmts |-> Null]
  /\ result = "none"

\* SQLiteDB::open: sqlite3_open writes a new connection into m_db_handle,
\* whatever the handle held before.  On failure it calls close(), which
\* frees the failed connection (it has no statements), and throws.
Open(d) ==
  /\ m_db_handle[d] = Null \/ AllowReopen
  /\ \E c \in Conns \ live, ok \in BOOLEAN :
       IF ok
       THEN /\ m_db_handle' = [m_db_handle EXCEPT ![d] = c]
            /\ live' = live \cup {c}
            /\ result' = "ok"
       ELSE /\ m_db_handle' = [m_db_handle EXCEPT ![d] = Null]
            /\ live' = live
            /\ result' = "Failure"
  /\ UNCHANGED stmts

\* A connection has statements that are not finalised
Busy(c) == \E s \in Stmts : stmts[s] = c

\* Mutant: the connection is freed but m_db_handle is not reset
MutantCloseKeepsHandle(d) ==
  /\ IF m_db_handle[d] # Null /\ Busy(m_db_handle[d])
     THEN /\ result' = "false"
          /\ UNCHANGED <<m_db_handle, live>>
     ELSE /\ live' = live \ {m_db_handle[d]}
          /\ result' = "true"
          /\ UNCHANGED m_db_handle
  /\ UNCHANGED stmts

\* Mutant: the SQLITE_BUSY early return is dropped (sqlite still keeps a
\* busy connection)
MutantClose(d) ==
  /\ live' = IF m_db_handle[d] # Null /\ Busy(m_db_handle[d]) THEN live
             ELSE live \ {m_db_handle[d]}
  /\ m_db_handle' = [m_db_handle EXCEPT ![d] = Null]
  /\ result' = "true"
  /\ UNCHANGED stmts

\* SQLiteDB::close: sqlite3_close answers BUSY while statements are
\* outstanding and then keeps the connection; close returns false and
\* leaves m_db_handle set.  Otherwise (sqlite3_close(nullptr) included) the
\* connection is freed and the handle cleared.
Close(d) ==
  /\ IF m_db_handle[d] # Null /\ Busy(m_db_handle[d])
     THEN /\ result' = "false"
          /\ UNCHANGED <<m_db_handle, live>>
     ELSE /\ live' = live \ {m_db_handle[d]}
          /\ m_db_handle' = [m_db_handle EXCEPT ![d] = Null]
          /\ result' = "true"
  /\ UNCHANGED stmts

\* SQLiteDB::prepare_statement: NotInit on a null handle, otherwise a new
\* statement on the current connection
PrepareStatement(d) ==
  \E s \in Stmts :
    /\ stmts[s] = Null
    /\ IF m_db_handle[d] = Null
       THEN /\ result' = "NotInit"
            /\ UNCHANGED stmts
       ELSE /\ stmts' = [stmts EXCEPT ![s] = m_db_handle[d]]
            /\ result' = "ok"
    /\ UNCHANGED <<m_db_handle, live>>

\* ~SQLitePreparedStatement: sqlite3_finalize
Finalize ==
  \E s \in Stmts :
    /\ stmts[s] # Null
    /\ stmts' = [stmts EXCEPT ![s] = Null]
    /\ result' = "none"
    /\ UNCHANGED <<m_db_handle, live>>

Next ==
  \/ \E d \in DBs : Open(d) \/ Close(d) \/ PrepareStatement(d)
  \/ Finalize

Spec == Init /\ [][Next]_vars

-----------------------------------------------------------------------------

\* The handles and every statement refer to a connection sqlite still has
\* open (or to nothing): close() never frees a connection it keeps a
\* handle to, nor one with statements outstanding.
TypeOK ==
  /\ live \subseteq Conns
  /\ m_db_handle \in [DBs -> live \cup {Null}]
  /\ stmts \in [Stmts -> live \cup {Null}]
  /\ result \in Results

\* No connection is lost: every connection sqlite still holds open is the
\* handle of some SQLiteDB object, so a close() can still free it.  Broken
\* by a close() that forgets the handle while sqlite kept the connection
\* (BUSY), and by an open() that overwrites a live handle.
NoLeakedConnection == live \subseteq Range(m_db_handle)

=============================================================================
