----------------------------- MODULE Onboarding -----------------------------
(***************************************************************************)
(* Onboarding checklists, after backend/app/onboarding/service.py and      *)
(* router.py: templates of tasks, their assignment to employees, and the   *)
(* completion of each task, which is committed before the assignment is    *)
(* looked at.                                                              *)
(***************************************************************************)
EXTENDS Handlers, Integers, FiniteSets

CONSTANTS Templates, Tasks, Assignments, Joiners   \* primary keys, and employees

VARIABLES
    templates,      \* table onboarding_templates
    tasks,          \* table onboarding_tasks
    assignments,    \* table onboarding_assignments
    completions     \* table task_completions: per assignment, the status of each task that has a row

onboardingTables == <<templates, tasks, assignments, completions>>
onboardingVars   == <<onboardingTables, alone, sess>>

NoRow == [of |-> "none", status |-> "none"]
TaskRow == [of: Templates, required: BOOLEAN]
Statuses == {"PENDING", "DONE", "SKIPPED", "BLOCKED"}
AssignmentStatuses == {"NOT_STARTED", "IN_PROGRESS", "COMPLETED", "CANCELLED"}
AssignmentRow == [of: Templates, joiner: Joiners, dated: BOOLEAN, status: AssignmentStatuses]
TypeOK ==
    /\ templates \in [Templates -> {"none", "stored"}]
    /\ tasks \in [Tasks -> TaskRow \cup {NoRow}]
    /\ assignments \in [Assignments -> AssignmentRow \cup {NoRow}]
    /\ completions \in [Assignments \X Tasks -> Statuses \cup {"none"}]
    /\ \A a \in Assignments, k \in Tasks : completions[<<a, k>>] # "none" => assignments[a] # NoRow /\ tasks[k] # NoRow
Init ==
    /\ templates = [t \in Templates |-> "none"] /\ tasks = [k \in Tasks |-> NoRow]
    /\ assignments = [a \in Assignments |-> NoRow] /\ completions = [c \in Assignments \X Tasks |-> "none"]
    /\ AllIdle
TasksOf(t) == {k \in Tasks : tasks[k].of = t}
-----------------------------------------------------------------------------
\* create_template with its tasks, in one transaction; update_template
CreateTemplate(s, required) == Begin(s, [op |-> "template", required |-> required])
TemplateCommit(s) ==
    /\ sess[s].op = "template"
    /\ \E t \in Templates :
          /\ templates[t] = "none" /\ templates' = [templates EXCEPT ![t] = "stored"]
          /\ \A k \in DOMAIN sess[s].required : tasks[k] = NoRow
          /\ tasks' = [k \in Tasks |-> IF k \in DOMAIN sess[s].required
                                       THEN [of |-> t, required |-> sess[s].required[k]] ELSE tasks[k]]
    /\ Finish(s) /\ UNCHANGED <<assignments, completions>>
UpdateTemplate(s, t) == templates[t] = "stored" /\ Edit(s, "templates", t, templates[t], templates[t])
\* add_task_to_template, update_task, delete_task: also while the template is assigned
AddTask(s, t, required) == templates[t] = "stored" /\ Add(s, "tasks", [of |-> t, required |-> required])
UpdateTask(s, k, required) == tasks[k] # NoRow /\ Edit(s, "tasks", k, tasks[k], [tasks[k] EXCEPT !.required = required])
DeleteTask(s, k) == tasks[k] # NoRow /\ Begin(s, [op |-> "delete", key |-> k])
\* The foreign key of the completions keeps a task that has one.
UnusedAny(k) == TRUE
Unused(k)    == \A a \in Assignments : completions[<<a, k>>] = "none"
DeleteCommit(s) ==
    /\ sess[s].op = "delete" /\ Unused(sess[s].key)
    /\ tasks' = [tasks EXCEPT ![sess[s].key] = NoRow]
    /\ Finish(s) /\ UNCHANGED <<templates, assignments, completions>>
-----------------------------------------------------------------------------
\* create_assignment: one row for every task the template has when it is loaded.
Assigned(t, joiner) ==
    \E a \in Assignments : assignments[a] # NoRow /\ assignments[a].of = t /\ assignments[a].joiner = joiner
CreateAssignment(s, t, joiner) ==
    /\ templates[t] = "stored" /\ ~Assigned(t, joiner)
    /\ Begin(s, [op |-> "assign", tasks |-> TasksOf(t),
                 new |-> [of |-> t, joiner |-> joiner, dated |-> FALSE, status |-> "IN_PROGRESS"]])
\* The unique constraint and the foreign keys are met at the commit.
AssignCommit(s) ==
    /\ sess[s].op = "assign" /\ ~Assigned(sess[s].new.of, sess[s].new.joiner)
    /\ \A k \in sess[s].tasks : tasks[k] # NoRow
    /\ \E a \in Assignments :
          /\ assignments[a] = NoRow
          /\ assignments' = [assignments EXCEPT ![a] = sess[s].new]
          /\ completions' = [c \in Assignments \X Tasks |->
                                IF c[1] = a /\ c[2] \in sess[s].tasks THEN "PENDING" ELSE completions[c]]
    /\ Finish(s) /\ UNCHANGED <<templates, tasks>>
\* update_assignment: any status from any other; dated is completed_at.
UpdateAssignment(s, a, status) ==
    /\ assignments[a] # NoRow
    /\ Edit(s, "assignments", a, assignments[a],
            [assignments[a] EXCEPT !.status = status, !.dated = @ \/ status = "COMPLETED"])
-----------------------------------------------------------------------------
\* update_completion, then _maybe_complete_assignment in a transaction of its own
UpdateCompletion(s, a, k, status) ==
    /\ completions[<<a, k>>] # "none"
    /\ Begin(s, [op |-> "complete", assignment |-> a, task |-> k, status |-> status])
CompletionCommit(s) ==
    /\ sess[s].op = "complete"
    /\ completions' = [completions EXCEPT ![<<sess[s].assignment, sess[s].task>>] = sess[s].status]
    /\ Go(s, [op |-> "check", assignment |-> sess[s].assignment])
    /\ UNCHANGED <<templates, tasks, assignments>>
Required(a) == {k \in TasksOf(assignments[a].of) : tasks[k].required}
DoneAny(a)  == {k \in Tasks : completions[<<a, k>>] = "DONE"}
Done(a)     == {k \in Required(a) : completions[<<a, k>>] = "DONE"}
AllDone(a)  == Cardinality(Required(a)) > 0 /\ Cardinality(Done(a)) = Cardinality(Required(a))
Check(s) ==
    /\ sess[s].op = "check"
    /\ LET a == sess[s].assignment IN
       IF AllDone(a) /\ assignments[a].status # "COMPLETED"
       THEN Go(s, [op |-> "edit", table |-> "assignments", key |-> a, seen |-> assignments[a],
                   new |-> [assignments[a] EXCEPT !.status = "COMPLETED", !.dated = TRUE]])
       ELSE Finish(s)
-----------------------------------------------------------------------------
Commit(s) ==
    /\ \/ /\ \/ Editing(s, "tasks") /\ tasks' = Edited(s, tasks)
             \/ \E k \in Tasks : Adding(s, "tasks") /\ tasks[k] = NoRow /\ tasks' = [tasks EXCEPT ![k] = sess[s].new]
          /\ UNCHANGED assignments
       \/ Editing(s, "assignments") /\ assignments' = Edited(s, assignments) /\ UNCHANGED tasks
       \/ Editing(s, "templates") /\ UNCHANGED <<tasks, assignments>>
    /\ Finish(s) /\ UNCHANGED <<templates, completions>>

Request(s) ==
    \/ \E ks \in SUBSET Tasks : \E required \in [ks -> BOOLEAN] : CreateTemplate(s, required)
    \/ \E t \in Templates :
          \/ UpdateTemplate(s, t)
          \/ \E required \in BOOLEAN : AddTask(s, t, required)
          \/ \E joiner \in Joiners : CreateAssignment(s, t, joiner)
    \/ \E k \in Tasks :
          \/ \E required \in BOOLEAN : UpdateTask(s, k, required)
          \/ DeleteTask(s, k)
          \/ \E a \in Assignments, status \in Statuses : UpdateCompletion(s, a, k, status)
    \/ \E a \in Assignments, status \in AssignmentStatuses : UpdateAssignment(s, a, status)
    \/ Check(s)

Step(s) ==
    \/ (Request(s) \/ Abort(s)) /\ UNCHANGED onboardingTables
    \/ Commit(s) \/ TemplateCommit(s) \/ DeleteCommit(s) \/ AssignCommit(s) \/ CompletionCommit(s)
Next == \E s \in Sessions : Step(s)
Spec == Init /\ [][Next]_onboardingVars
-----------------------------------------------------------------------------
\* Ticking a task completes an assignment only when no required task of its
\* template is left, one that was added after the assignment included; optional
\* tasks that are done do not make up for it (handlers that do not overlap).
TickCompletes ==
    [][alone => \A s \in Sessions : sess[s].op = "check" /\ sess'[s].op = "edit" =>
        \A k \in TasksOf(assignments[sess[s].assignment].of) :
            tasks[k].required => completions[<<sess[s].assignment, k>>] = "DONE"]_onboardingVars
=============================================================================
