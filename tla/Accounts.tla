------------------------------ MODULE Accounts ------------------------------
(***************************************************************************)
(* Logging in, the lock after five wrong passwords, and the ways a         *)
(* password is changed, after backend/app/identity/service.py, router.py,  *)
(* admin_router.py and password_reset.py.  Every handler commits what it   *)
(* changed, and then, in a second transaction, its row of the audit log    *)
(* (core/audit.py with commit=True).                                       *)
(***************************************************************************)
EXTENDS Handlers, Integers

CONSTANTS
    Users, Passwords,
    Resets,              \* reset tokens that may be drawn
    Joins,               \* the time from which each user's employee may log in
    LockTime, ResetTime, \* 30 minutes and one hour
    MaxTime              \* bound on the clock

VARIABLES
    now,
    accounts,            \* table users
    resets,              \* Redis: the user and the expiry of each reset token
    trail,               \* table audit_logs: what succeeded, for whom and when
    entries,             \* who was given a token pair, and when
    misses,              \* wrong passwords of each user since the count last started anew
    resetsDone,          \* passwords set with each reset token
    cut                  \* some handler was cut off

accountTables == <<accounts, resets, trail>>
accountGhosts == <<entries, misses, resetsDone, cut>>
accountVars   == <<now, accountTables, accountGhosts, alone, sess>>

Times == 0 .. MaxTime
None == [user |-> "none"]    \* a token not drawn yet
Used == [user |-> "used"]    \* one that was drawn and deleted
Account == [active: BOOLEAN, locked: BOOLEAN, failed: Nat, until: 0 .. MaxTime + LockTime, password: Passwords]
Deeds == {"LOGIN_SUCCESS", "PASSWORD_RESET_TOKEN_ISSUED", "PASSWORD_RESET_SUCCESS", "PASSWORD_CHANGE_SUCCESS", "USER_UNLOCKED"}
Init ==
    /\ now = 0 /\ entries = {} /\ trail = {} /\ cut = FALSE
    /\ \E p \in Passwords : accounts =
          [u \in Users |-> [active |-> TRUE, locked |-> FALSE, failed |-> 0, until |-> 0, password |-> p]]
    /\ resets = [r \in Resets |-> None] /\ resetsDone = [r \in Resets |-> 0]
    /\ misses = [u \in Users |-> 0] /\ AllIdle
TypeOK ==
    /\ now \in Times /\ accounts \in [Users -> Account]
    /\ \A r \in Resets : resets[r] \in {None, Used} \/ (resets[r].user \in Users /\ resets[r].until \in 0 .. MaxTime + ResetTime)
    /\ trail \subseteq [deed: Deeds, user: Users, at: Times]
    /\ misses \in [Users -> Nat] /\ resetsDone \in [Resets -> Nat]
    \* Three handlers that overlap may leave a full count without a lock, and so a sixth miss.
    /\ alone => \A u \in Users : accounts[u].failed <= 5
-----------------------------------------------------------------------------
LockedNever(a) == FALSE
Locked(a)   == a.locked /\ a.until > now
Counted(a)  == [a EXCEPT !.failed = 0]
Open(a)     == [a EXCEPT !.locked = FALSE, !.failed = 0, !.until = 0]
\* A lock that is over is taken off the loaded row, and stored with what follows.
SeenAtLogin(a) == IF a.locked THEN Open(a) ELSE a
MissedForever(a) == [a EXCEPT !.failed = @ + 1]
MissedAtSix(a) ==
    IF a.failed >= 5 THEN [a EXCEPT !.locked = TRUE, !.until = now + LockTime]
    ELSE [a EXCEPT !.failed = @ + 1]
Missed(a) ==
    IF a.failed + 1 >= 5 THEN [a EXCEPT !.failed = @ + 1, !.locked = TRUE, !.until = now + LockTime]
    ELSE [a EXCEPT !.failed = @ + 1]
\* A handler that will store new, and then the audit row of deed ("none" for one
\* that tells of no success).
Work(stage, u, new, deed) == [op |-> "account", stage |-> stage, key |-> u, seen |-> accounts[u], new |-> new, deed |-> deed, reset |-> "none"]

\* authenticate
LoginRefused(s, u) ==
    /\ ~accounts[u].active \/ Locked(accounts[u])
    /\ Begin(s, Work("audit", u, accounts[u], "none"))
LoginWrong(s, u) ==
    /\ accounts[u].active /\ ~Locked(accounts[u])
    /\ Begin(s, Work("store", u, Missed(SeenAtLogin(accounts[u])), "missed"))
LoginEarly(s, u) ==
    /\ accounts[u].active /\ ~Locked(accounts[u]) /\ Joins[u] > now
    /\ Begin(s, Work("audit", u, SeenAtLogin(accounts[u]), "none"))
LoginRight(s, u) ==
    /\ accounts[u].active /\ ~Locked(accounts[u]) /\ Joins[u] <= now
    /\ Begin(s, Work("store", u, Counted(SeenAtLogin(accounts[u])), "LOGIN_SUCCESS"))

\* forgot_password and issue_reset_token
ForgotPassword(s, u, r) ==
    /\ resets[r] = None /\ accounts[u].active
    /\ Begin(s, [Work("issue", u, accounts[u], "PASSWORD_RESET_TOKEN_ISSUED") EXCEPT !.reset = r])
IssueReset(s) ==
    /\ sess[s].op = "account" /\ sess[s].stage = "issue" /\ resets[sess[s].reset] = None
    /\ resets' = [resets EXCEPT ![sess[s].reset] = [user |-> sess[s].key, until |-> now + ResetTime]]
    /\ Go(s, [sess[s] EXCEPT !.stage = "audit"])
    /\ UNCHANGED <<now, accounts, trail, accountGhosts>>

\* consume_reset_token: a GET and a DELETE; and reset_password
MayConsume(r) == resets[r] \notin {None, Used} /\ resets[r].until > now
ResetPassword(s, r, p) ==
    MayConsume(r) /\ Begin(s, [op |-> "consume", reset |-> r, user |-> resets[r].user, password |-> p])
Unconsumed(r) == resets
Consumed(r)   == [resets EXCEPT ![r] = Used]
ConsumeReset(s) ==
    /\ sess[s].op = "consume"
    /\ resets' = Consumed(sess[s].reset)
    /\ LET u == sess[s].user IN
       Go(s, [Work("store", u, [Open(accounts[u]) EXCEPT !.password = sess[s].password], "PASSWORD_RESET_SUCCESS")
                EXCEPT !.reset = sess[s].reset])
    /\ UNCHANGED <<now, accounts, trail, accountGhosts>>

\* change_password: by who is logged in and knows the old one
ChangePassword(s, u, p) ==
    /\ accounts[u].active /\ (\E e \in entries : e[1] = u) /\ p # accounts[u].password
    /\ Begin(s, Work("store", u, [accounts[u] EXCEPT !.password = p], "PASSWORD_CHANGE_SUCCESS"))
\* unlock_user
UnlockUser(s, u) == Begin(s, Work("store", u, Open(accounts[u]), "USER_UNLOCKED"))
\* soft_delete_employee deactivates the user (its audit row is never stored)
Deactivate(s, u) == accounts[u].active /\ Begin(s, Work("last", u, [accounts[u] EXCEPT !.active = FALSE], "none"))
-----------------------------------------------------------------------------
CountAnew(u) == [misses EXCEPT ![u] = 0]
Stored(s)   == [accounts EXCEPT ![sess[s].key] = Merge(@, sess[s].seen, sess[s].new)]
At(s, stage) == sess[s].op = "account" /\ sess[s].stage = stage
AnswerFirst(s) == IF sess[s].deed = "LOGIN_SUCCESS" THEN "answer" ELSE "audit"
AfterStore(s)  == "audit"
\* The first commit of a handler: the columns it changed.
Store(s) ==
    /\ At(s, "store") \/ At(s, "last")
    /\ accounts' = Stored(s)
    /\ misses' = CASE sess[s].deed = "missed" -> [misses EXCEPT ![sess[s].key] = @ + 1]
                   [] sess[s].deed \in {"USER_UNLOCKED", "PASSWORD_RESET_SUCCESS"} -> CountAnew(sess[s].key)
                   [] OTHER -> misses
    /\ resetsDone' = IF sess[s].deed = "PASSWORD_RESET_SUCCESS" THEN [resetsDone EXCEPT ![sess[s].reset] = @ + 1] ELSE resetsDone
    /\ IF At(s, "last") THEN Finish(s) ELSE Go(s, [sess[s] EXCEPT !.stage = AfterStore(s), !.seen = sess[s].new])
    /\ UNCHANGED <<now, resets, trail, entries, cut>>
\* The second one: the audit row, with what else the session has changed.
Audit(s) ==
    /\ At(s, "audit")
    /\ accounts' = Stored(s)
    /\ trail' = IF sess[s].deed \in Deeds THEN trail \cup {[deed |-> sess[s].deed, user |-> sess[s].key, at |-> now]} ELSE trail
    /\ IF sess[s].deed = "LOGIN_SUCCESS" THEN Go(s, [sess[s] EXCEPT !.stage = "answer"]) ELSE Finish(s)
    /\ UNCHANGED <<now, resets, accountGhosts>>
\* login answers with a token pair.
Answer(s) ==
    /\ At(s, "answer")
    /\ entries' = entries \cup {<<sess[s].key, now>>} /\ misses' = CountAnew(sess[s].key)
    /\ Finish(s) /\ UNCHANGED <<now, accountTables, resetsDone, cut>>
\* A handler that is cut off; a login whose reset of the count is stored keeps it.
Cut(s) ==
    /\ sess[s] # Idle /\ cut' = TRUE
    /\ misses' = IF sess[s].op = "account" /\ sess[s].deed = "LOGIN_SUCCESS" /\ sess[s].stage # "store"
                 THEN CountAnew(sess[s].key) ELSE misses
    /\ Finish(s) /\ UNCHANGED <<now, accountTables, entries, resetsDone>>
\* Time passes between the handlers, which are done in less than LockTime.
Tick ==
    /\ now < MaxTime /\ \A s \in Sessions : sess[s] = Idle
    /\ now' = now + 1
    /\ misses' = [u \in Users |-> IF accounts[u].locked /\ accounts[u].until = now + 1 THEN 0 ELSE misses[u]]
    /\ UNCHANGED <<accountTables, entries, resetsDone, cut, alone, sess>>

Request(s) ==
    \/ \E u \in Users :
          \/ LoginRefused(s, u) \/ LoginWrong(s, u) \/ LoginEarly(s, u) \/ LoginRight(s, u)
          \/ UnlockUser(s, u) \/ Deactivate(s, u)
          \/ \E r \in Resets : ForgotPassword(s, u, r)
          \/ \E p \in Passwords : ChangePassword(s, u, p)
    \/ \E r \in Resets, p \in Passwords : ResetPassword(s, r, p)

Step(s) ==
    \/ Request(s) /\ UNCHANGED <<now, accountTables, accountGhosts>>
    \/ IssueReset(s) \/ ConsumeReset(s) \/ Store(s) \/ Audit(s) \/ Answer(s) \/ Cut(s)
Next == Tick \/ \E s \in Sessions : Step(s)
Spec == Init /\ [][Next]_accountVars
-----------------------------------------------------------------------------
\* A user is locked out exactly when five wrong passwords were given since the
\* count last started anew: at a login, an unlock, a reset, or the end of a lock
\* (handlers that do not overlap; those that do count their misses as one).
LockedAfterFive ==
    (alone /\ \A s \in Sessions : sess[s] = Idle) =>
        \A u \in Users : misses[u] >= 5 <=> Locked(accounts[u])

\* Who has missed five times is not let in (handlers that do not overlap).
NoEntryWhileLocked == [][alone => \A e \in entries' \ entries : misses[e[1]] < 5]_accountVars

\* A reset token sets one password, and while it lives (handlers that do not
\* overlap: two that both read it before either deletes it set two).
ResetOnce == alone => \A r \in Resets : resetsDone[r] <= 1

\* Whatever overlaps or is cut off, no token pair leaves before its login is in the
\* audit log; and where nothing was cut off, every reset that is over is there.
EntriesAudited ==
    /\ \A e \in entries : [deed |-> "LOGIN_SUCCESS", user |-> e[1], at |-> e[2]] \in trail
    /\ (~cut /\ \A s \in Sessions : sess[s] = Idle) =>
          \A r \in Resets : resetsDone[r] > 0 => \E row \in trail : row.deed = "PASSWORD_RESET_SUCCESS"
=============================================================================
