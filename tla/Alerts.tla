------------------------------- MODULE Alerts -------------------------------
(***************************************************************************)
(* The daily scan that notifies users of what is due, after                *)
(* backend/app/notification/alert_rules.py, service.py, approver_chain.py, *)
(* router.py, admin_router.py and the scheduler in main.py.  A scan is one *)
(* session: its rules are run one after another, each commits, and one     *)
(* that fails is passed over.                                              *)
(***************************************************************************)
EXTENDS Handlers, Integers, Sequences, FiniteSets

CONSTANTS
    Things,              \* contracts, placements, KPI forms, tasks, payroll periods and joiners
    RuleOf, About,       \* the rule that looks at each, the employee each is about (or assigned to)
    UserOf, NoOne,       \* column user_id of employees, NoOne for those without a login
    Settings,            \* what else the rules may read, one record each: the date of each thing (its
                         \* end, expiry, due, submission or join date), the supervisor_id of each
                         \* employee, the users with employee.view, outsource.view, payroll.approve
    H30, H14, H7, H3,    \* how many days ahead of a date the rules look
    LastDay,             \* bound on the days
    MaxRetries           \* parameter of retry-failed

VARIABLES
    day,
    setting, changed,    \* what the rules read; whether it was changed on this day
    open,                \* things that are still active, unsubmitted, undone, pending or to join
    notes,               \* table notifications: the rows of each notice
    scanned,             \* a scan was started on this day
    hurt,                \* rules whose rows of the day's scans were, or may have been, lost
    mayFail              \* a flush may fail in this behaviour

alertTables == <<day, setting, changed, open, notes, scanned, hurt, mayFail>>
alertVars   == <<alertTables, alone, sess>>

Days == 0 .. LastDay
\* find_l1_l2_approver_user_ids
L1(c, e) == IF c.supervisor[e] = NoOne THEN NoOne ELSE UserOf[c.supervisor[e]]
L2(c, e) ==
    IF c.supervisor[e] = NoOne \/ c.supervisor[c.supervisor[e]] = NoOne THEN NoOne
    ELSE UserOf[c.supervisor[c.supervisor[e]]]
\* Who is told by each rule, and as what: those who would be told as a supervisor
\* are left out of the holders of the permission.
RecipientsAll(c, x) ==
    LET boss == {L1(c, About[x]), L2(c, About[x])} \ {NoOne} IN
    CASE RuleOf[x] = "contract"  -> (({L1(c, About[x])} \ {NoOne}) \X {"l1"}) \cup (c.view \X {"ops"})
      [] RuleOf[x] \in {"placement", "kpi"} -> c.place \X {"ops"}
      [] RuleOf[x] = "task"      -> ({UserOf[About[x]]} \ {NoOne}) \X {"assignee"}
      [] RuleOf[x] = "payroll"   -> c.approve \X {"approver"}
      [] RuleOf[x] = "prejoin"   -> (boss \X {"sup"}) \cup (c.view \X {"ops"})
Recipients(c, x) ==
    LET l1 == L1(c, About[x])
        boss == {l1, L2(c, About[x])} IN
    CASE RuleOf[x] = "contract"  -> (({l1} \ {NoOne}) \X {"l1"}) \cup ((c.view \ {l1}) \X {"ops"})
      [] RuleOf[x] \in {"placement", "kpi"} -> c.place \X {"ops"}
      [] RuleOf[x] = "task"      -> ({UserOf[About[x]]} \ {NoOne}) \X {"assignee"}
      [] RuleOf[x] = "payroll"   -> c.approve \X {"approver"}
      [] RuleOf[x] = "prejoin"   -> ((boss \ {NoOne}) \X {"sup"}) \cup ((c.view \ boss) \X {"ops"})
\* The passes of a scan, each a select and a commit.
Passes ==
    << [rule |-> "contract", label |-> "h-30", ahead |-> H30], [rule |-> "contract", label |-> "h-14", ahead |-> H14],
       [rule |-> "contract", label |-> "h-7", ahead |-> H7],
       [rule |-> "placement", label |-> "h-30", ahead |-> H30], [rule |-> "placement", label |-> "h-14", ahead |-> H14],
       [rule |-> "placement", label |-> "h-7", ahead |-> H7],
       [rule |-> "kpi", label |-> "h7", ahead |-> H7], [rule |-> "task", label |-> "h3", ahead |-> H3],
       [rule |-> "payroll", label |-> "reminder", ahead |-> 0], [rule |-> "prejoin", label |-> "h3", ahead |-> H3] >>
\* The select of a pass on day d: dates of one day, and tasks that are overdue or
\* payrolls that wait for more than a day.
Overdue(c, x, d) == RuleOf[x] = "task" /\ c.date[x] < d
Selected(c, x, pass, d) ==
    /\ RuleOf[x] = pass.rule
    /\ IF pass.rule = "payroll" THEN c.date[x] < d - 1 ELSE c.date[x] = d + pass.ahead \/ Overdue(c, x, d)
\* A notice: a user and the dedupe key, made of the thing, the day and, of the rule's
\* name, what tells its passes and the roles of those told apart.
Notice(c, x, pass, d, who) == <<who[1], x, d, IF Overdue(c, x, d) THEN "overdue" ELSE pass.label, who[2]>>
NoticesAt(c, pass, d) ==
    UNION {{Notice(c, x, pass, d, who) : who \in Recipients(c, x)} : x \in {y \in Things : Selected(c, y, pass, d)}}
NoticesOn(c, d) == UNION {NoticesAt(c, Passes[i], d) : i \in DOMAIN Passes}
Notices == UNION {NoticesOn(c, d) : c \in Settings, d \in Days}
Known == DOMAIN notes
NoticesOf(pass) == {n \in NoticesAt(setting, pass, day) : n[2] \in open}
Row == [status: {"DELIVERED", "FAILED"}, read: BOOLEAN, tries: 0 .. MaxRetries]
New(status) == [status |-> status, read |-> FALSE, tries |-> IF status = "FAILED" THEN 1 ELSE 0]

TypeOK ==
    /\ day \in Days /\ setting \in Settings /\ open \subseteq Things
    /\ \A n \in Known : Len(notes[n]) <= Cardinality(Sessions) /\ \A i \in DOMAIN notes[n] : notes[n][i] \in Row
Init ==
    /\ day = 0 /\ setting \in Settings /\ changed = FALSE /\ open = Things /\ notes = [n \in Notices |-> << >>]
    /\ scanned = FALSE /\ hurt = {} /\ mayFail \in BOOLEAN /\ AllIdle
-----------------------------------------------------------------------------
Scan == [op |-> "scan", pass |-> 1, stage |-> "select", todo |-> {}, added |-> {}]
Scanning(s, stage) == sess[s].op = "scan" /\ sess[s].stage = stage
Pass(s) == Passes[sess[s].pass]
\* The scheduler starts a scan every morning on which the process is up.
NewDay(s, up) ==
    /\ day < LastDay /\ \A t \in Sessions : sess[t] = Idle
    /\ day' = day + 1 /\ changed' = FALSE /\ scanned' = up /\ hurt' = {}
    /\ Go(s, IF up THEN Scan ELSE Idle) /\ UNCHANGED <<setting, open, notes, mayFail>>
\* run_alert_rules_endpoint
RunAlertRules(s) == Begin(s, Scan) /\ scanned' = TRUE /\ UNCHANGED <<day, setting, changed, open, notes, hurt, mayFail>>
\* What the handlers of the other modules do to the tables that the rules read: what is
\* due is terminated, submitted, done, approved or called off; a contract is renewed, a
\* task put off, an employee given another supervisor, a permission granted.
Close(x) ==
    /\ x \in open /\ open' = open \ {x}
    /\ UNCHANGED <<day, setting, changed, notes, scanned, hurt, mayFail, handlers>>
Change(c) ==
    /\ c # setting /\ setting' = c /\ changed' = TRUE
    /\ UNCHANGED <<day, open, notes, scanned, hurt, mayFail, handlers>>

\* Going on with the pass i; the rows added and not committed stay in the session,
\* which is closed after the last pass.
OnTo(s, i, added) ==
    IF i \in DOMAIN Passes THEN Go(s, [sess[s] EXCEPT !.pass = i, !.stage = "select", !.todo = {}, !.added = added])
    ELSE Finish(s)
RulesOf(added) == {RuleOf[a.notice[2]] : a \in added}
\* run_all_alert_rules: a rule that raised is given up, with the passes it has left.
GivenUpAll(s) == Len(Passes) + 1
GivenUp(s) ==
    LET later == {i \in DOMAIN Passes : i > sess[s].pass /\ Passes[i].rule # Pass(s).rule} IN
    IF later = {} THEN Len(Passes) + 1 ELSE CHOOSE i \in later : \A j \in later : i <= j
Raise(s, added) ==
    /\ OnTo(s, GivenUp(s), added)
    /\ hurt' = hurt \cup {Pass(s).rule} \cup (IF GivenUp(s) > Len(Passes) THEN RulesOf(added) ELSE {})
    /\ UNCHANGED <<day, setting, changed, open, notes, scanned, mayFail>>
\* Without a joiner due, the last rule returns before its commit.
Select(s) ==
    /\ Scanning(s, "select")
    /\ LET due == NoticesOf(Pass(s)) IN
       IF Pass(s).rule = "prejoin" /\ ~\E x \in open : Selected(setting, x, Pass(s), day)
       THEN Finish(s) /\ hurt' = hurt \cup RulesOf(sess[s].added)
       ELSE Go(s, [sess[s] EXCEPT !.stage = "notify", !.todo = due]) /\ UNCHANGED hurt
    /\ UNCHANGED <<day, setting, changed, open, notes, scanned, mayFail>>
\* notify: the rows with this dedupe key, the flushed ones of this session among them
FoundOfKey(s, n) == UNION {{<<m, i>> : i \in DOMAIN notes[m]} : m \in {k \in Known : Tail(k) = Tail(n)}}
                    \cup {a \in sess[s].added : Tail(a.notice) = Tail(n)}
FoundUnread(s, n) == {<<n, i>> : i \in {j \in DOMAIN notes[n] : ~notes[n][j].read}} \cup {a \in sess[s].added : a.notice = n}
Found(s, n) == {<<n, i>> : i \in DOMAIN notes[n]} \cup {a \in sess[s].added : a.notice = n}
Notify(s, n) ==
    /\ Scanning(s, "notify") /\ n \in sess[s].todo
    /\ CASE Cardinality(Found(s, n)) > 1 -> Raise(s, sess[s].added)
         [] Cardinality(Found(s, n)) = 1 ->
               Go(s, [sess[s] EXCEPT !.todo = @ \ {n}]) /\ UNCHANGED alertTables
         [] Found(s, n) = {} ->
               /\ Go(s, [sess[s] EXCEPT !.todo = @ \ {n}, !.added = @ \cup {[notice |-> n, status |-> "DELIVERED"]}])
               /\ UNCHANGED alertTables
\* A flush that fails rolls back what the session holds, and stores the row as FAILED
\* or, failing again, not at all; what was loaded is lost with it, so that a rule with
\* notices left raises.
NotifyFails(s, n, added) ==
    /\ mayFail /\ Scanning(s, "notify") /\ n \in sess[s].todo /\ Found(s, n) = {}
    /\ added \in {{}, {[notice |-> n, status |-> "FAILED"]}}
    /\ LET next == GivenUp(s)
           raises == sess[s].todo # {n} IN
       /\ IF raises THEN OnTo(s, next, added)
          ELSE Go(s, [sess[s] EXCEPT !.todo = {}, !.added = added])
       /\ hurt' = hurt \cup {Pass(s).rule} \cup RulesOf(sess[s].added)
    /\ UNCHANGED <<day, setting, changed, open, notes, scanned, mayFail>>
\* The commit at the end of a pass.
Conclude(s) ==
    /\ Scanning(s, "notify") /\ sess[s].todo = {}
    /\ notes' = [n \in Known |->
          IF \E a \in sess[s].added : a.notice = n
          THEN Append(notes[n], New((CHOOSE a \in sess[s].added : a.notice = n).status)) ELSE notes[n]]
    /\ OnTo(s, sess[s].pass + 1, {}) /\ UNCHANGED <<day, setting, changed, open, scanned, hurt, mayFail>>
\* A scan that is cut off, by a restart or a failing select, loses what it had left.
Cut(s) ==
    /\ mayFail /\ sess[s] # Idle /\ hurt' = {Passes[i].rule : i \in DOMAIN Passes}
    /\ Finish(s) /\ UNCHANGED <<day, setting, changed, open, notes, scanned, mayFail>>
-----------------------------------------------------------------------------
Marked(n, i) == [notes EXCEPT ![n][i].read = TRUE]
\* mark_read of one's own row, mark_all_read, retry_failed_endpoint: each is one
\* transaction that decides on the columns it writes.
MarkRead(n, i) == i \in DOMAIN notes[n] /\ ~notes[n][i].read /\ notes' = Marked(n, i)
MarkAllRead(u) ==
    notes' = [n \in Known |-> IF n[1] # u THEN notes[n] ELSE [i \in DOMAIN notes[n] |-> [notes[n][i] EXCEPT !.read = TRUE]]]
RetriedAll(row) == IF row.tries < MaxRetries THEN [row EXCEPT !.status = "DELIVERED", !.tries = @ + 1] ELSE row
Retried(row) ==
    IF row.status = "FAILED" /\ row.tries < MaxRetries THEN [row EXCEPT !.status = "DELIVERED", !.tries = @ + 1] ELSE row
RetryFailed == notes' = [n \in Known |-> [i \in DOMAIN notes[n] |-> Retried(notes[n][i])]]

ScanStep(s) ==
    \/ Select(s) \/ Conclude(s)
    \/ \E n \in Known : Notify(s, n) \/ \E added \in SUBSET {[notice |-> n, status |-> "FAILED"]} : NotifyFails(s, n, added)
Step(s) == (\E up \in BOOLEAN : NewDay(s, up)) \/ RunAlertRules(s) \/ ScanStep(s) \/ Cut(s)
Inbox ==
    /\ \/ \E n \in Known : \E i \in DOMAIN notes[n] : MarkRead(n, i)
       \/ \E u \in {n[1] : n \in Known} : MarkAllRead(u)
       \/ RetryFailed
    /\ UNCHANGED <<day, setting, changed, open, scanned, hurt, mayFail, handlers>>
Next ==
    \/ \E s \in Sessions : Step(s)
    \/ \E x \in Things : Close(x)
    \/ \E c \in Settings : Change(c)
    \/ Inbox
\* A scan that was started is run to its end by the event loop.
Fairness == \A s \in Sessions : WF_alertVars(ScanStep(s))
Spec == Init /\ [][Next]_alertVars /\ Fairness
-----------------------------------------------------------------------------
\* However often the scan is run, no user is notified twice under one dedupe key (scans
\* that do not overlap); and none is notified of one thing under two keys on one day, as
\* its supervisor and as one who may see it, or a month and a fortnight ahead, unless
\* what the rules read was changed on that day.
Told(n) == notes[n] # << >>
NotifiedOnce ==
    /\ alone => \A n \in Known : Len(notes[n]) <= 1
    /\ ~changed => \A m, n \in {k \in Known : k[3] = day /\ Told(k)} : m[1] = n[1] /\ m[2] = n[2] => m = n

\* An unread notice is not undone by a scan or a retry, and what was delivered is not
\* failed again: rows are only read, or retried, in place.
RowsStay ==
    [][\A n \in Known : \A i \in DOMAIN notes[n] :
        /\ i \in DOMAIN notes'[n]
        /\ notes[n][i].read => notes'[n][i].read
        /\ notes[n][i].status = "DELIVERED" => notes'[n][i] = [notes[n][i] EXCEPT !.read = notes'[n][i].read]]_alertVars

\* On a day on which a scan is started, whoever is to be told of what is due is told,
\* although the flush of another rule's row fails: unless that happened to the same
\* rule, the scan was cut off, the thing was closed meanwhile or what the rules read was
\* changed on that day (scans that do not overlap).
Owed ==
    IF alone /\ scanned /\ ~changed
    THEN {n \in NoticesOn(setting, day) : ~Told(n) /\ n[2] \in open /\ RuleOf[n[2]] \notin hurt} ELSE {}
DueIsTold == []<>(Owed = {})
=============================================================================
