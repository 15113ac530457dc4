----------------------------- MODULE OrmSession -----------------------------
(***************************************************************************)
(* How a request's SQLAlchemy session writes a row back.                   *)
(*                                                                         *)
(* A session is opened per request (get_db) with autoflush and             *)
(* expire_on_commit off: a row is read once, the copy stays in the         *)
(* identity map for the rest of the request, and a flush emits UPDATE only *)
(* for the columns whose value differs from the one that was loaded.       *)
(* PostgreSQL runs the UPDATE at READ COMMITTED on the row as it is now,   *)
(* whatever other requests committed to it since the load; no column is    *)
(* compared and nothing is locked before the flush.                        *)
(***************************************************************************)

\* (Mutant: a session that writes every column of its copy back.)
FlushAllColumns(stored, loaded, mine) == mine

\* The stored row after a session that loaded `loaded` and holds `mine`
\* flushes: its changed columns overwrite, the others keep what is stored.
Flush(stored, loaded, mine) ==
  [column \in DOMAIN stored |->
     IF mine[column] = loaded[column] THEN stored[column] ELSE mine[column]]

=============================================================================
