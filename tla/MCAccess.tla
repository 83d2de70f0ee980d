------------------------------ MODULE MCAccess ------------------------------
(***************************************************************************)
(* Who gets in and who is told: Accounts, Tokens, Permissions and Alerts,  *)
(* side by side.  They share no table, so that a behaviour exercises one   *)
(* of them (part), either with one handler after another (alone) or with   *)
(* handlers in flight together.  The parameters are constants; the values  *)
(* of a small instance are at the end.                                     *)
(***************************************************************************)
EXTENDS Integers, Sequences, FiniteSets, TLC

CONSTANTS
    Sessions,                \* the handlers that may be in flight together
    Logins,                  \* the users of Accounts and Tokens; those of Permissions are in RolesOf
    Passwords, Resets, Joins, LockTime, ResetTime, MaxTime,
    AccessTime, RefreshTime, MaxHalves,
    Roles, Executives, Codes, RolesOf, LevelOf, MaxTrail,
    Things, RuleOf, About, UserOf, NoOne, Settings,
    H30, H14, H7, H3, LastDay, MaxRetries

ASSUME AccountsAssumption ==
    /\ LockTime \in Nat \ {0}
    /\ ResetTime \in Nat
    /\ MaxTime \in Nat
ASSUME TokensAssumption == MaxHalves \in Nat /\ RefreshTime \in Nat
\* The levels of the executives are 1 and, of the deputy director, 11.
ASSUME RightsAssumption ==
    /\ LevelOf \in [Roles -> Nat \ {0}]
    /\ Executives = {r \in Roles : LevelOf[r] \in {1, 11}}
    /\ \A u \in DOMAIN RolesOf : RolesOf[u] \subseteq Roles
ASSUME AlertsAssumption ==
    /\ IsFiniteSet(Sessions) /\ Sessions # {}
    /\ LastDay \in Nat
    /\ {H30, H14, H7, H3} \subseteq Nat /\ H30 # H14 /\ H30 # H7 /\ H14 # H7
    /\ \A c \in Settings : \A x \in Things : c.date[x] \in Int
    /\ MaxRetries \in Nat \ {0}     \* 5, unless the caller says otherwise

VARIABLES part, alone, sess,
    now, accounts, resets, trail, entries, misses, resetsDone, cut,
    halves, active, revoked, issued, repeated, held, spent, twice, logged,
    seeded, granted, changes, torn,
    day, setting, changed, open, notes, scanned, hurt, mayFail

lock   == <<now, accounts, resets, trail, entries, misses, resetsDone, cut>>
pairs  == <<halves, active, revoked, issued, repeated, held, spent, twice, logged>>
rights == <<seeded, granted, changes, torn>>
told   == <<day, setting, changed, open, notes, scanned, hurt, mayFail>>
vars   == <<part, alone, sess, lock, pairs, rights, told>>

A == INSTANCE Accounts WITH Users <- Logins
T == INSTANCE Tokens WITH Users <- Logins, MaxTime <- MaxHalves, now <- halves
P == INSTANCE Permissions WITH trail <- changes, cut <- torn
N == INSTANCE Alerts

Init ==
    /\ part \in {"lock", "pairs", "rights", "told"}
    /\ A!Init /\ T!Init /\ P!Init /\ N!Init

Next ==
    /\ UNCHANGED part
    /\ \/ part = "lock"   /\ A!Next /\ UNCHANGED <<pairs, rights, told>>
       \/ part = "pairs"  /\ T!Next /\ UNCHANGED <<lock, rights, told>>
       \/ part = "rights" /\ P!Next /\ UNCHANGED <<lock, pairs, told>>
       \/ part = "told"   /\ N!Next /\ UNCHANGED <<lock, pairs, rights>>

\* A scan that was started is run to its end by the event loop.
Fairness ==
    \A s \in Sessions : WF_vars(part = "told" /\ N!ScanStep(s) /\ UNCHANGED <<part, lock, pairs, rights>>)
Spec == Init /\ [][Next]_vars /\ Fairness
-----------------------------------------------------------------------------
TypeOK == A!TypeOK /\ T!TypeOK /\ P!TypeOK /\ N!TypeOK
\* Five wrong passwords lock, resets are used once, and tokens so before their last
\* second, every pair is in the audit log and works, no change of permissions locks the
\* executives out or is lost from the log, and on a day on which nothing changes nobody
\* is told a thing twice.
AccessHolds ==
    /\ A!LockedAfterFive /\ A!ResetOnce /\ A!EntriesAudited
    /\ T!ExchangedOnce /\ T!HeldPairsWork /\ T!PairsLogged
    /\ P!TrailReplays /\ P!NoLockOut /\ P!PersonaExplicit
    /\ N!NotifiedOnce
\* Nobody gets in while locked or deactivated, and a notification that was read or
\* delivered stays so.
AccessSteps == A!NoEntryWhileLocked /\ T!DeactivatedStaysOut /\ N!RowsStay
\* Who is to be told of what is due is told.
DueIsTold == N!DueIsTold
-----------------------------------------------------------------------------
\* A small instance.  A tick of Accounts is some twenty minutes, one of Tokens a
\* second, and the days of Alerts are few: what matters is which limit comes first.
CONSTANTS u1, u2, u3, r1, d1, w1, p1, p2, t1, t2, t3, t4, e1, e2, e3, no, s1, s2

MCJoins   == u1 :> 0
MCRolesOf == u1 :> {d1} @@ u2 :> {w1, r1} @@ u3 :> {r1}
MCLevelOf == d1 :> 1 @@ w1 :> 11 @@ r1 :> 6
\* A contract and a joiner whose supervisor may view employees too, a task, and a
\* payroll two users may approve.
MCRuleOf == t1 :> "contract" @@ t2 :> "task" @@ t3 :> "payroll" @@ t4 :> "prejoin"
MCAbout  == [t \in {t1, t2, t3, t4} |-> e1]
MCSettings ==
    LET first == [date |-> t1 :> 4 @@ t2 :> 1 @@ t3 :> 0 @@ t4 :> 3, supervisor |-> e1 :> e2 @@ e2 :> e3 @@ e3 :> no,
                  view |-> {u2}, place |-> {u1}, approve |-> {u1, u2}] IN
    {first, [first EXCEPT !.date[t1] = 2, !.supervisor[e1] = no]}
MCUserOf == e1 :> u3 @@ e2 :> u2 @@ e3 :> no

\* Few audit rows, and few of the handlers that overlap.
Bounds ==
    /\ part # "rights" => seeded = {d1, w1} \X {p1}
    /\ part # "told" => ~mayFail
    /\ alone => sess[s2] = [op |-> "idle"]
    /\ part = "pairs" /\ ~alone => halves <= 2
    /\ part # "lock" => accounts[u1].password = p1
    /\ part = "lock" =>
        /\ Cardinality(trail) <= 2 /\ (~accounts[u1].active => trail = {})
        /\ accounts[u1].password = p2 \/ ~alone => now = 0
        /\ ~alone => misses[u1] <= 1 /\ Cardinality(trail) <= 1
    /\ part = "rights" /\ (~alone \/ seeded # {d1, w1} \X {p1}) => Len(changes) <= 1
    /\ part # "told" => setting = CHOOSE c \in Settings : c.date[t1] = 4
    /\ part = "told" =>
        /\ setting.date[t1] = 2 => day <= 1 /\ ~mayFail /\ alone
        /\ {t1, t4} \subseteq open /\ (mayFail => open = {t1, t2, t3, t4})
        /\ \A n \in DOMAIN notes : n[1] # u1 => \A i \in DOMAIN notes[n] : ~notes[n][i].read
        /\ ~alone => day = 0 /\ ~mayFail
        /\ mayFail /\ day < 2 => ~scanned

BoundedInit == Init /\ Bounds
BoundedNext == Next /\ Bounds'
BoundedSpec == BoundedInit /\ [][BoundedNext]_vars /\ Fairness
=============================================================================
