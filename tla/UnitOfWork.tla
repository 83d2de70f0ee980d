----------------------------- MODULE UnitOfWork -----------------------------
(***************************************************************************)
(* How a handler's database session (backend/app/database.py, SQLAlchemy   *)
(* with autoflush and expire_on_commit off) writes a row it has loaded.    *)
(* The commit sends an UPDATE with the columns whose value differs from    *)
(* the one that was loaded, and no others; it does not look at what the    *)
(* row has become since.                                                   *)
(***************************************************************************)

\* The row as the UPDATE leaves it: now is the stored row, seen the row the
\* handler loaded, new the row as the handler changed it.
MergeWhole(now, seen, new) == new
Merge(now, seen, new) ==
    [column \in DOMAIN now |->
        IF new[column] = seen[column] THEN now[column] ELSE new[column]]
=============================================================================
