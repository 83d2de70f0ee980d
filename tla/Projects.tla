------------------------------ MODULE Projects ------------------------------
(***************************************************************************)
(* Projects with their members, tasks, subtasks and comments, after        *)
(* backend/app/project/service.py and the endpoints of project/router.py.  *)
(* A task takes its number from a counter of the project under a row lock, *)
(* a subtask from a count of the subtasks without one.                     *)
(***************************************************************************)
EXTENDS Handlers, Integers, FiniteSets

CONSTANTS
    Projects, Tasks, Subtasks, Comments,   \* the primary keys the tables may hand out
    Members,                               \* primary keys of project_members
    Users                                  \* users.id

VARIABLES projects, tasks, subtasks, comments, members   \* the tables

projectTables == <<projects, tasks, subtasks, comments, members>>
projectVars   == <<projectTables, alone, sess>>

ProjectRow == [status: {"DRAFT", "ACTIVE", "COMPLETED", "TERMINATED"}, counter: Nat]
\* n is the number in the slug, text whether it was updated, live deleted_at IS NULL.
TaskRow    == [of: Projects, n: Nat, text: BOOLEAN, live: BOOLEAN]
SubtaskRow == [of: Tasks, n: Nat, text: BOOLEAN, live: BOOLEAN]
CommentRow == [of: Tasks \cup Subtasks, author: Users, text: BOOLEAN, live: BOOLEAN]
NoRow == [live |-> FALSE, of |-> "none"]
Stored(rows, k) == rows[k] # NoRow

TypeOK ==
    /\ projects \in [Projects -> ProjectRow \cup {NoRow}]
    /\ tasks    \in [Tasks -> TaskRow \cup {NoRow}]
    /\ subtasks \in [Subtasks -> SubtaskRow \cup {NoRow}]
    /\ comments \in [Comments -> CommentRow \cup {NoRow}]
    /\ members  \in [Members -> Projects \cup {"none"}]
Init ==
    /\ projects = [p \in Projects |-> NoRow] /\ tasks = [t \in Tasks |-> NoRow]
    /\ subtasks = [u \in Subtasks |-> NoRow] /\ comments = [c \in Comments |-> NoRow]
    /\ members  = [m \in Members |-> "none"] /\ AllIdle

\* get_task, get_subtask: what is not deleted.  Projects are never deleted.
LiveTask(t)    == tasks[t].live
LiveSubtask(u) == subtasks[u].live
-----------------------------------------------------------------------------
\* FOR UPDATE on the row of p is held by another handler until its commit: its
\* lock waits here, and so does every UPDATE of the row.
LockedNever(p, s) == FALSE
Locked(p, s) ==
    \E t \in Sessions \ {s} : sess[t].op = "slug" /\ sess[t].project = p

CreateProject(s) == Add(s, "projects", [status |-> "DRAFT", counter |-> 0])

MayActivateAny(p) == Stored(projects, p)
MayActivate(p) == projects[p] # NoRow /\ projects[p].status = "DRAFT"
ChangeProject(s, p, status) ==
    Edit(s, "projects", p, projects[p], [projects[p] EXCEPT !.status = status])
\* update_project: name, dates, value, no column of the model, but it stores the row.
UpdateProject(s, p) == Stored(projects, p) /\ Edit(s, "projects", p, projects[p], projects[p])
\* activate_project
Activate(s, p) == MayActivate(p) /\ ChangeProject(s, p, "ACTIVE")
\* close_project: from any status, a closed one included.
Close(s, p, status) ==
    /\ Stored(projects, p) /\ status \in {"COMPLETED", "TERMINATED"}
    /\ ChangeProject(s, p, status)

\* add_member checks the project only; remove_member deletes the row.
AddMember(s, p)    == Stored(projects, p) /\ Begin(s, [op |-> "join", project |-> p])
RemoveMember(s, m) == members[m] # "none" /\ Begin(s, [op |-> "leave", member |-> m])
-----------------------------------------------------------------------------
\* _next_task_slug: the counter is read under the lock, whatever get_project saw.
NextTaskNumber(p) == projects[p].counter + 1
CreateTask(s, p) ==
    /\ Stored(projects, p) /\ ~Locked(p, s)
    /\ Begin(s, [op |-> "slug", project |-> p, n |-> NextTaskNumber(p)])
CreateTaskCommit(s, t) ==
    /\ sess[s].op = "slug" /\ ~Stored(tasks, t)
    /\ projects' = [projects EXCEPT ![sess[s].project].counter = sess[s].n]
    /\ tasks' = [tasks EXCEPT ![t] = [of |-> sess[s].project, n |-> sess[s].n, text |-> FALSE, live |-> TRUE]]
    /\ UNCHANGED <<subtasks, comments, members>> /\ Finish(s)

\* _next_subtask_slug: counted with the deleted ones, and nothing is locked.
NextSubtaskNumberLive(t) == Cardinality({u \in Subtasks : subtasks[u].of = t /\ subtasks[u].live}) + 1
NextSubtaskNumber(t) == Cardinality({u \in Subtasks : subtasks[u].of = t}) + 1
CreateSubtask(s, t) ==
    /\ LiveTask(t)
    /\ Add(s, "subtasks", [of |-> t, n |-> NextSubtaskNumber(t), text |-> FALSE, live |-> TRUE])

\* update_task, update_subtask and delete_task, delete_subtask
Changed(row) == [row EXCEPT !.text = TRUE]
Deleted(row) == [row EXCEPT !.live = FALSE]
UpdateTask(s, t)    == LiveTask(t) /\ Edit(s, "tasks", t, tasks[t], Changed(tasks[t]))
DeleteTask(s, t)    == LiveTask(t) /\ Edit(s, "tasks", t, tasks[t], Deleted(tasks[t]))
UpdateSubtask(s, u) == LiveSubtask(u) /\ Edit(s, "subtasks", u, subtasks[u], Changed(subtasks[u]))
DeleteSubtask(s, u) == LiveSubtask(u) /\ Edit(s, "subtasks", u, subtasks[u], Deleted(subtasks[u]))
-----------------------------------------------------------------------------
\* Comments of tasks and of subtasks: two tables with the same operations.
NewComment(on, user) == [of |-> on, author |-> user, text |-> FALSE, live |-> TRUE]
CreateComment(s, t, user)        == LiveTask(t) /\ Add(s, "comments", NewComment(t, user))
CreateSubtaskComment(s, u, user) == LiveSubtask(u) /\ Add(s, "comments", NewComment(u, user))
\* Only its author may edit or delete a comment, a comment of what is deleted included.
MayChangeComment(c, user) == comments[c].live /\ comments[c].author = user
UpdateComment(s, c, user) ==
    comments[c].of \in Tasks /\ MayChangeComment(c, user) /\ Edit(s, "comments", c, comments[c], Changed(comments[c]))
DeleteComment(s, c, user) ==
    comments[c].of \in Tasks /\ MayChangeComment(c, user) /\ Edit(s, "comments", c, comments[c], Deleted(comments[c]))
UpdateSubtaskComment(s, c, user) ==
    comments[c].of \in Subtasks /\ MayChangeComment(c, user) /\ Edit(s, "comments", c, comments[c], Changed(comments[c]))
DeleteSubtaskComment(s, c, user) ==
    comments[c].of \in Subtasks /\ MayChangeComment(c, user) /\ Edit(s, "comments", c, comments[c], Deleted(comments[c]))
-----------------------------------------------------------------------------
Inserted(s, name, rows, k) == Adding(s, name) /\ ~Stored(rows, k)
Commit(s) ==
    /\ \/ /\ \/ Editing(s, "projects") /\ ~Locked(sess[s].key, s) /\ projects' = Edited(s, projects)
             \/ \E p \in Projects : Inserted(s, "projects", projects, p) /\ projects' = [projects EXCEPT ![p] = sess[s].new]
          /\ UNCHANGED <<tasks, subtasks, comments, members>>
       \/ /\ Editing(s, "tasks") /\ tasks' = Edited(s, tasks)
          /\ UNCHANGED <<projects, subtasks, comments, members>>
       \/ /\ \/ Editing(s, "subtasks") /\ subtasks' = Edited(s, subtasks)
             \/ \E u \in Subtasks : Inserted(s, "subtasks", subtasks, u) /\ subtasks' = [subtasks EXCEPT ![u] = sess[s].new]
          /\ UNCHANGED <<projects, tasks, comments, members>>
       \/ /\ \/ Editing(s, "comments") /\ comments' = Edited(s, comments)
             \/ \E c \in Comments : Inserted(s, "comments", comments, c) /\ comments' = [comments EXCEPT ![c] = sess[s].new]
          /\ UNCHANGED <<projects, tasks, subtasks, members>>
       \/ /\ \/ sess[s].op = "join" /\ \E m \in Members :
                   members[m] = "none" /\ members' = [members EXCEPT ![m] = sess[s].project]
             \/ sess[s].op = "leave" /\ members' = [members EXCEPT ![sess[s].member] = "none"]
          /\ UNCHANGED <<projects, tasks, subtasks, comments>>
    /\ Finish(s)

Request(s) ==
    \/ CreateProject(s)
    \/ \E p \in Projects :
          \/ UpdateProject(s, p) \/ Activate(s, p)
          \/ \E st \in {"COMPLETED", "TERMINATED"} : Close(s, p, st)
          \/ AddMember(s, p) \/ CreateTask(s, p)
    \/ \E m \in Members : RemoveMember(s, m)
    \/ \E t \in Tasks : CreateSubtask(s, t) \/ UpdateTask(s, t) \/ DeleteTask(s, t)
    \/ \E u \in Subtasks : UpdateSubtask(s, u) \/ DeleteSubtask(s, u)
    \/ \E user \in Users :
          \/ \E t \in Tasks : CreateComment(s, t, user)
          \/ \E u \in Subtasks : CreateSubtaskComment(s, u, user)
          \/ \E c \in Comments :
                \/ UpdateComment(s, c, user) \/ DeleteComment(s, c, user)
                \/ UpdateSubtaskComment(s, c, user) \/ DeleteSubtaskComment(s, c, user)

Step(s) ==
    \/ (Request(s) \/ Abort(s)) /\ UNCHANGED projectTables
    \/ Commit(s)
    \/ \E t \in Tasks : CreateTaskCommit(s, t)
Next == \E s \in Sessions : Step(s)
Spec == Init /\ [][Next]_projectVars
-----------------------------------------------------------------------------
\* However the handlers interleave, and whoever closes the project meanwhile,
\* two tasks of a project never get one slug, and the counter stays ahead.
TaskSlugsUnique ==
    \A t1, t2 \in Tasks : Stored(tasks, t1) =>
        /\ tasks[t1].n <= projects[tasks[t1].of].counter
        /\ t1 # t2 /\ tasks[t1].of = tasks[t2].of => tasks[t1].n # tasks[t2].n

\* Handlers that do not overlap never give two subtasks of a task one slug, the
\* deleted ones included.
SubtaskSlugsUnique ==
    alone => \A u1, u2 \in Subtasks :
        u1 # u2 /\ Stored(subtasks, u1) /\ subtasks[u1].of = subtasks[u2].of => subtasks[u1].n # subtasks[u2].n

\* A task, subtask or comment that is deleted stays deleted, whatever a handler
\* that loaded it before commits later.
DeletedStays ==
    [][/\ \A t \in Tasks : Stored(tasks, t) /\ ~tasks[t].live => ~tasks'[t].live
       /\ \A u \in Subtasks : Stored(subtasks, u) /\ ~subtasks[u].live => ~subtasks'[u].live
       /\ \A c \in Comments : Stored(comments, c) /\ ~comments[c].live => ~comments'[c].live]_projectVars

\* Of handlers that do not overlap none makes a closed project active again.
ClosedStaysClosed ==
    [][\A p \in Projects : alone /\ projects[p] # NoRow /\ projects[p].status \in {"COMPLETED", "TERMINATED"}
          => projects'[p].status \in {"COMPLETED", "TERMINATED"}]_projectVars
=============================================================================
