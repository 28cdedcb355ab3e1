---------------------------- MODULE SubuRegistry ----------------------------
(***************************************************************************)
(* The manager's SQLite database: the file, its one table subu, and the    *)
(* statements release/manager/dispatch.py runs on it.  Each statement is   *)
(* a transaction of its own, committed before the code goes on, so it is   *)
(* one atomic step.  A row keeps id and path; owner, name, full_unix_name  *)
(* and netns_name are functions of the path.  A definition marked "Slip:"  *)
(* is the next one with a mistake in it, which a property must notice.     *)
(***************************************************************************)
EXTENDS SubuPaths

VARIABLES
  dbFile,   \* "absent", "empty" (no table yet) or "ready"
  rows      \* the table subu

registryVars == <<dbFile, rows>>

DbFileStates == {"absent", "empty", "ready"}

Rows == [id : Nat \ {0}, path : Paths]

Ids == {row.id : row \in rows}

\* INTEGER PRIMARY KEY without AUTOINCREMENT: one more than the largest id
\* in the table, 1 for an empty table.  The ids of deleted rows come back.
IsNextId(id) ==
  /\ id \in Nat \ {0}
  /\ \A row \in rows : row.id < id
  /\ id = 1 \/ \E row \in rows : id = row.id + 1

\* full_unix_name UNIQUE.
IsRecorded(path) == \E row \in rows : row.path = path

\* open_db of 'db load schema': sqlite3.connect creates a missing file.
CreateFile ==
  /\ dbFile' = IF dbFile = "absent" THEN "empty" ELSE dbFile
  /\ UNCHANGED rows

\* ensure_schema: CREATE TABLE, which fails if the table exists.
CanCreateTable == dbFile = "empty"

CreateTable ==
  /\ CanCreateTable
  /\ dbFile' = "ready"
  /\ UNCHANGED rows

\* _open_existing_db, then INSERT and commit in _insert_subu_row.
CanInsert(path) == dbFile = "ready" /\ ~IsRecorded(path)

InsertRow(path, id) ==
  /\ CanInsert(path)
  /\ IsNextId(id)
  /\ rows' = rows \cup {[id |-> id, path |-> path]}
  /\ UNCHANGED dbFile

\* DELETE FROM subu WHERE id = ?
DeleteRow(id) ==
  /\ rows' = {row \in rows : row.id # id}
  /\ UNCHANGED dbFile

\* Slip: WHERE id = ? only.
AnyonesRow(id, owner) == {row.path : row \in {r \in rows : r.id = id}}

\* SELECT full_unix_name FROM subu WHERE id = ? AND owner = ?
OwnersRow(id, owner) ==
  {row.path : row \in {r \in rows : r.id = id /\ Owner(r.path) = owner}}

\* Slip: no WHERE.
AllPaths(owner) == {row.path : row \in rows}

\* SELECT full_unix_name FROM subu WHERE owner = ?
PathsOfOwner(owner) == {row.path : row \in {r \in rows : Owner(r.path) = owner}}
=============================================================================
