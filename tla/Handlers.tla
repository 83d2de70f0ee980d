------------------------------ MODULE Handlers ------------------------------
(***************************************************************************)
(* The request handlers of the backend, as the database sees them: each    *)
(* runs in a session of its own (backend/app/database.py get_db), loads    *)
(* rows, checks them, changes the loaded objects and commits.  Handlers in *)
(* flight together interleave between the load and the commit; nothing but *)
(* a row lock or a constraint keeps them apart.  A behaviour either lets   *)
(* them overlap or runs them one after another (alone), so that a property *)
(* can say which of the two it is about.                                   *)
(***************************************************************************)
EXTENDS UnitOfWork

CONSTANT Sessions     \* the handlers that may be in flight together

VARIABLES
    alone,            \* no two handlers overlap in this behaviour
    sess              \* what each handler has loaded and not yet committed

handlers == <<alone, sess>>

Idle == [op |-> "idle"]
AllIdle == alone \in BOOLEAN /\ sess = [s \in Sessions |-> Idle]

Go(s, work) == sess' = [sess EXCEPT ![s] = work] /\ UNCHANGED alone
Finish(s)   == Go(s, Idle)
Begin(s, work) ==
    /\ sess[s] = Idle
    /\ alone => \A t \in Sessions : sess[t] = Idle
    /\ Go(s, work)

\* A handler that loads one row of a table, has checked it, and will commit new.
Edit(s, table, k, row, new) ==
    Begin(s, [op |-> "edit", table |-> table, key |-> k, seen |-> row, new |-> new])
\* A handler that has checked what it needs and will insert a row.
Add(s, table, row) == Begin(s, [op |-> "add", table |-> table, new |-> row])

Editing(s, table) == sess[s].op = "edit" /\ sess[s].table = table
Adding(s, table)  == sess[s].op = "add" /\ sess[s].table = table
\* The rows after the commit of an Edit.
Edited(s, rows) == [rows EXCEPT ![sess[s].key] = Merge(@, sess[s].seen, sess[s].new)]

\* get_db: an exception, a lost client or a restart rolls the session back.
Abort(s) == sess[s] # Idle /\ Finish(s)
=============================================================================
