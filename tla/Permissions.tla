----------------------------- MODULE Permissions -----------------------------
(***************************************************************************)
(* The permissions of roles, after backend/app/identity/admin_router.py,   *)
(* and who is let in by them, after backend/app/core/deps.py and           *)
(* identity/service.py.  The change of a permission is committed first and *)
(* its row of the audit log second.                                        *)
(***************************************************************************)
EXTENDS Handlers, Integers, Sequences, FiniteSetsExt

CONSTANTS
    Roles, Executives,     \* Executives: the roles of the director and the deputy
    Codes,                 \* permission codes
    RolesOf,               \* table user_roles: the roles of each user
    LevelOf,               \* the hierarchy level of each role; 11 is the deputy director's
    MaxTrail               \* bound on audit_logs

VARIABLES
    seeded,                \* table role_permissions as it was seeded
    granted,               \* table role_permissions: pairs of a role and a permission
    trail,                 \* table audit_logs: what was granted and revoked, in order
    cut                    \* some handler was cut off between its commit and its audit row

permissionVars == <<seeded, granted, trail, cut, alone, sess>>

Users == DOMAIN RolesOf
TypeOK ==
    /\ granted \subseteq Roles \X Codes
    /\ \A i \in DOMAIN trail : /\ trail[i].act \in {"GRANTED", "REVOKED", "ALREADY"}
                               /\ trail[i].what \in Roles \X Codes /\ trail[i].user \in Users
Init ==
    /\ seeded \in SUBSET (Roles \X Codes) /\ Executives \X Codes \subseteq seeded
    /\ granted = seeded /\ trail = << >> /\ cut = FALSE /\ AllIdle
-----------------------------------------------------------------------------
\* get_user_permissions, user_has_permission, is_executive, get_min_user_level
PermissionsOf(u) == {c \in Codes : \E r \in RolesOf[u] : <<r, c>> \in granted}
MayUse(u, code)  == code \in PermissionsOf(u)
IsExecutive(u)   == RolesOf[u] \cap Executives # {}
Level(r)         == IF LevelOf[r] = 11 THEN 1 ELSE LevelOf[r]
MinLevel(u)      == Min({99} \cup {Level(r) : r \in RolesOf[u]})
ReachesLevel(u, n) == MinLevel(u) <= n
\* get_persona_name: the deputy's role before all others, then the highest
PersonasByLevel(u) == {r \in RolesOf[u] : \A other \in RolesOf[u] : LevelOf[r] <= LevelOf[other]}
Personas(u) ==
    LET deputy == {r \in RolesOf[u] : LevelOf[r] = 11} IN
    IF deputy # {} THEN deputy
    ELSE {r \in RolesOf[u] : \A other \in RolesOf[u] : LevelOf[r] <= LevelOf[other]}

\* toggle_role_permission
MayToggleAny(r, grant) == TRUE
MayToggle(r, grant) == grant \/ r \notin Executives
ActMissed(grant, existing) ==
    CASE grant /\ existing -> "GRANTED" [] ~grant /\ ~existing -> "REVOKED" [] OTHER -> "ALREADY"
Act(grant, existing) ==
    CASE grant /\ ~existing -> "GRANTED" [] ~grant /\ existing -> "REVOKED" [] OTHER -> "ALREADY"
Toggle(s, u, r, c, grant) ==
    /\ IsExecutive(u) /\ MayToggle(r, grant)
    /\ Begin(s, [op |-> "toggle", grant |-> grant, existing |-> <<r, c>> \in granted, what |-> <<r, c>>,
                 user |-> u, by |-> Personas(u)])
\* The primary key refuses a second insertion; a row that is gone already is deleted again.
ToggleCommit(s) ==
    /\ sess[s].op = "toggle"
    /\ IF sess[s].grant /\ ~sess[s].existing /\ sess[s].what \in granted
       THEN Finish(s) /\ UNCHANGED granted
       ELSE /\ granted' = CASE sess[s].grant /\ ~sess[s].existing -> granted \cup {sess[s].what}
                            [] ~sess[s].grant /\ sess[s].existing -> granted \ {sess[s].what}
                            [] OTHER -> granted
            /\ Go(s, [sess[s] EXCEPT !.op = "audit"])
    /\ UNCHANGED <<seeded, trail, cut>>
AuditCommit(s) ==
    /\ sess[s].op = "audit" /\ Len(trail) < MaxTrail
    /\ trail' = Append(trail, [act |-> Act(sess[s].grant, sess[s].existing), what |-> sess[s].what,
                               user |-> sess[s].user, by |-> sess[s].by])
    /\ Finish(s) /\ UNCHANGED <<seeded, granted, cut>>
Cut(s) ==
    /\ sess[s] # Idle /\ cut' = (cut \/ sess[s].op = "audit")
    /\ Finish(s) /\ UNCHANGED <<seeded, granted, trail>>

Step(s) ==
    \/ /\ \E u \in Users, r \in Roles, c \in Codes, grant \in BOOLEAN : Toggle(s, u, r, c, grant)
       /\ UNCHANGED <<seeded, granted, trail, cut>>
    \/ ToggleCommit(s) \/ AuditCommit(s) \/ Cut(s)
Next == \E s \in Sessions : Step(s)
Spec == Init /\ [][Next]_permissionVars
-----------------------------------------------------------------------------
\* What the audit log says of a permission: its last row tells, or the seed.
RowsOf(what) == {i \in DOMAIN trail : trail[i].what = what /\ trail[i].act # "ALREADY"}
LastRow(what, i) == i \in RowsOf(what) /\ \A j \in RowsOf(what) : j <= i
TrailGrants(what) ==
    \/ RowsOf(what) = {} /\ what \in seeded
    \/ \E i \in DOMAIN trail : LastRow(what, i) /\ trail[i].act = "GRANTED"
\* The audit log, read from what was seeded on, gives the permissions of the roles
\* (handlers that do not overlap, none cut off between its two commits).
TrailReplays ==
    (alone /\ ~cut /\ \A s \in Sessions : sess[s] = Idle) =>
        \A what \in Roles \X Codes : TrailGrants(what) <=> what \in granted
\* Whatever overlaps, a director or deputy can use every permission, so that no
\* series of changes locks everybody out of changing them back.
NoLockOut == \A u \in Users : IsExecutive(u) => (\A c \in Codes : MayUse(u, c)) /\ ReachesLevel(u, 1)

\* A change is put down under an executive role of the user who made it, and that of
\* a deputy director under the deputy's, whatever other roles they hold.
PersonaExplicit ==
    \A i \in DOMAIN trail :
        LET held == RolesOf[trail[i].user] IN
        /\ trail[i].by # {} /\ trail[i].by \subseteq held \cap Executives
        /\ (\E d \in held : LevelOf[d] = 11) => \A r \in trail[i].by : LevelOf[r] = 11
=============================================================================
