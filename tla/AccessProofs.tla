---------------------------- MODULE AccessProofs ----------------------------
(***************************************************************************)
(* Proofs about Accounts, Tokens, Permissions and Alerts for any users,    *)
(* tokens, roles, rules and handlers.                                      *)
(***************************************************************************)
EXTENDS MCAccess, FiniteSetTheorems, TLAPS

-----------------------------------------------------------------------------
\* What all handlers have in common: alone, one is at work at a time.
Idle == [op |-> "idle"]
InTurn ==
    /\ alone \in BOOLEAN
    /\ sess = [s \in Sessions |-> sess[s]]
    /\ alone => \A s, t \in Sessions : sess[s] # Idle /\ sess[t] # Idle => s = t

\* A step of handler s: it begins, goes on or ends.
Turns(s, w) ==
    /\ alone' = alone
    /\ sess' = [sess EXCEPT ![s] = w]
    /\ \/ sess[s] # Idle
       \/ alone => \A t \in Sessions : sess[t] = Idle

LEMMA TurnKeeps ==
    ASSUME InTurn, NEW s \in Sessions, NEW w, Turns(s, w)
    PROVE  /\ InTurn'
           /\ sess'[s] = w
           /\ \A t \in Sessions \ {s} : sess'[t] = sess[t] /\ (alone => sess[t] = Idle)
<1>1. sess'[s] = w /\ \A t \in Sessions \ {s} : sess'[t] = sess[t]
  BY DEF InTurn, Turns
<1>2. \A t \in Sessions \ {s} : alone => sess[t] = Idle
  BY DEF InTurn, Turns
<1>3. sess' = [t \in Sessions |-> sess'[t]]
  BY DEF InTurn, Turns
<1> QED
  BY <1>1, <1>2, <1>3 DEF InTurn, Turns
-----------------------------------------------------------------------------
\* Permissions.  A handler that revokes is not about an executive's role, and
\* its audit row will tell who made the change.
Actors == {u \in DOMAIN RolesOf : P!IsExecutive(u)}
RightsHolds(w, op) ==
    \E r \in Roles, c \in Codes, grant \in BOOLEAN, existing \in BOOLEAN, who \in Actors :
        /\ w = [op |-> op, grant |-> grant, existing |-> existing, what |-> <<r, c>>, user |-> who, by |-> P!Personas(who)]
        /\ grant \/ r \notin Executives
        /\ alone /\ op = "toggle" => (existing <=> <<r, c>> \in granted)
RightsWork(w) == w = Idle \/ RightsHolds(w, "toggle") \/ RightsHolds(w, "audit")

\* What the log says and a row that will be added make the permissions; without
\* one, the log does.
Agrees(what) == P!TrailGrants(what) <=> what \in granted
Telling(w) ==
    /\ \A what \in Roles \X Codes : what # w.what => Agrees(what)
    /\ CASE P!Act(w.grant, w.existing) = "GRANTED" -> w.what \in granted
         [] P!Act(w.grant, w.existing) = "REVOKED" -> w.what \notin granted
         [] OTHER -> Agrees(w.what)
LogKept ==
    alone /\ ~torn =>
        /\ (\A s \in Sessions : sess[s].op # "audit") => \A what \in Roles \X Codes : Agrees(what)
        /\ \A s \in Sessions : sess[s].op = "audit" => Telling(sess[s])
LogRow ==
    {row \in [act: {"GRANTED", "REVOKED", "ALREADY"}, what: Roles \X Codes, user: Actors, by: SUBSET Roles] :
        row.by = P!Personas(row.user)}
RightsInv ==
    /\ granted \subseteq Roles \X Codes
    /\ seeded \subseteq Roles \X Codes
    /\ Executives \X Codes \subseteq granted
    /\ changes \in Seq(LogRow)
    /\ torn \in BOOLEAN
    /\ part = "rights" => LogKept /\ \A s \in Sessions : RightsWork(sess[s])
    /\ part # "rights" => \A what \in Roles \X Codes : Agrees(what)

LEMMA LogGrows ==
    ASSUME changes \in Seq(LogRow), NEW row \in LogRow, changes' = Append(changes, row),
           seeded' = seeded
    PROVE  /\ changes' \in Seq(LogRow)
           /\ \A what : what # row.what \/ row.act = "ALREADY"
                 => (P!TrailGrants(what)' <=> P!TrailGrants(what))
           /\ row.act = "GRANTED" => P!TrailGrants(row.what)'
           /\ row.act = "REVOKED" => ~P!TrailGrants(row.what)'
<1>1. PICK n \in Nat : n = Len(changes) /\ DOMAIN changes = 1 .. n
  OBVIOUS
<1>2. /\ changes' \in Seq(LogRow) /\ DOMAIN changes' = 1 .. n + 1
      /\ changes'[n + 1] = row
      /\ \A i \in 1 .. n : changes'[i] = changes[i]
  BY <1>1
<1>3. ASSUME NEW what, what # row.what \/ row.act = "ALREADY"
      PROVE  P!TrailGrants(what)' <=> P!TrailGrants(what)
  <2>1. P!RowsOf(what)' = P!RowsOf(what)
    BY <1>1, <1>2, <1>3 DEF P!RowsOf
  <2>2. \A i \in P!RowsOf(what) : i \in 1 .. n /\ changes'[i] = changes[i]
    BY <1>1, <1>2 DEF P!RowsOf
  <2> QED
    BY <2>1, <2>2 DEF P!TrailGrants, P!LastRow, P!RowsOf
<1>4. ASSUME row.act # "ALREADY" PROVE P!LastRow(row.what, n + 1)'
  BY <1>1, <1>2, <1>4 DEF P!LastRow, P!RowsOf
<1>5. ASSUME row.act = "GRANTED" PROVE P!TrailGrants(row.what)'
  BY <1>2, <1>4, <1>5 DEF P!TrailGrants
<1>6. ASSUME row.act = "REVOKED" PROVE ~P!TrailGrants(row.what)'
  <2>1. n + 1 \in P!RowsOf(row.what)'
    BY <1>4, <1>6 DEF P!LastRow
  <2>2. ASSUME NEW i \in DOMAIN changes', P!LastRow(row.what, i)' PROVE i = n + 1
    <3>1. n + 1 <= i /\ i \in 1 .. n + 1
      BY <1>2, <2>1, <2>2 DEF P!LastRow
    <3> QED
      BY <3>1
  <2> QED
    BY <1>2, <1>6, <2>1, <2>2 DEF P!TrailGrants
<1> QED
  BY <1>2, <1>3, <1>5, <1>6

LEMMA SameLog ==
    ASSUME UNCHANGED <<seeded, changes>>
    PROVE  \A what : P!TrailGrants(what)' <=> P!TrailGrants(what)
  BY DEF P!TrailGrants, P!LastRow, P!RowsOf

\* A step of the handler s keeps the invariant if what it does to the log does.
RightsGoal == InTurn /\ RightsInv
LEMMA RightsTurn ==
    ASSUME RightsInv, InTurn, part = "rights", part' = part, NEW s \in Sessions, NEW w, Turns(s, w),
           RightsWork(w)', LogKept',
           granted' \subseteq Roles \X Codes, seeded' = seeded, Executives \X Codes \subseteq granted',
           changes' \in Seq(LogRow), torn' \in BOOLEAN,
           \A t \in Sessions \ {s} : RightsWork(sess[t])'
    PROVE  RightsGoal'
<1>1. InTurn' /\ sess'[s] = w
  BY TurnKeeps
<1>2. \A t \in Sessions : RightsWork(sess[t])'
  BY <1>1
<1> QED
  BY <1>1, <1>2 DEF RightsGoal, RightsInv

LEMMA LogTurn ==
    ASSUME InTurn, NEW s \in Sessions, NEW w, Turns(s, w),
           alone /\ ~torn' /\ w.op = "audit" => Telling(w)',
           alone /\ ~torn' /\ w.op # "audit" => \A what \in Roles \X Codes : Agrees(what)'
    PROVE  LogKept'
<1>1. sess'[s] = w /\ alone' = alone
  BY TurnKeeps DEF Turns
<1>2. ASSUME alone, NEW t \in Sessions \ {s} PROVE sess'[t].op # "audit"
  BY <1>2, TurnKeeps DEF Idle
<1> QED
  BY <1>1, <1>2 DEF LogKept

LEMMA RightsOthers ==
    ASSUME RightsInv, InTurn, part = "rights", NEW s \in Sessions, NEW w, Turns(s, w)
    PROVE  \A t \in Sessions \ {s} : RightsWork(sess[t])'
<1> SUFFICES ASSUME NEW t \in Sessions \ {s} PROVE RightsWork(sess[t])'
  OBVIOUS
<1>1. sess'[t] = sess[t] /\ (alone => sess[t] = Idle) /\ alone' = alone
  BY TurnKeeps DEF Turns
<1>2. PICK v : v = sess[t] /\ v = sess'[t]
  BY <1>1
<1>3. RightsWork(v)
  BY <1>2 DEF RightsInv
<1>4. ASSUME NEW op \in {"toggle", "audit"}, RightsHolds(v, op) PROVE RightsHolds(v, op)'
  <2>1. ~alone
    BY <1>1, <1>2, <1>4 DEF RightsHolds, Idle
  <2> QED
    BY <1>1, <1>4, <2>1 DEF RightsHolds
<1>5. RightsWork(v)'
  BY <1>3, <1>4 DEF RightsWork
<1> QED
  BY <1>2, <1>5

LEMMA RightsKinds ==
    ASSUME NEW w, RightsWork(w)
    PROVE  /\ w.op = "toggle" => RightsHolds(w, "toggle")
           /\ w.op = "audit" => RightsHolds(w, "audit")
           /\ w.op \in {"idle", "toggle", "audit"}
<1>1. ASSUME NEW op, RightsHolds(w, op) PROVE w.op = op
  BY <1>1 DEF RightsHolds
<1> QED
  BY <1>1 DEF RightsWork, Idle

\* The changes that are made to a permission, and the audit row that tells of each.
\* Who changes permissions acts as an executive, and a deputy as the deputy.
LEMMA ActsAsExecutive ==
    ASSUME NEW u \in Actors
    PROVE  /\ P!Personas(u) # {} /\ P!Personas(u) \subseteq RolesOf[u] \cap Executives
           /\ (\E d \in RolesOf[u] : LevelOf[d] = 11) => \A r \in P!Personas(u) : LevelOf[r] = 11
<1>1. PICK e \in Executives : e \in RolesOf[u]
  BY DEF Actors, P!IsExecutive
<1>2. RolesOf[u] \subseteq Roles
  BY RightsAssumption DEF Actors
<1>3. CASE \E d \in RolesOf[u] : LevelOf[d] = 11
  <2>1. P!Personas(u) = {r \in RolesOf[u] : LevelOf[r] = 11}
    BY <1>3 DEF P!Personas
  <2> QED
    BY <1>2, <1>3, <2>1, RightsAssumption
<1>4. CASE \A d \in RolesOf[u] : LevelOf[d] # 11
  <2>1. P!Personas(u) = {r \in RolesOf[u] : \A other \in RolesOf[u] : LevelOf[r] <= LevelOf[other]}
    BY <1>4 DEF P!Personas
  <2>2. LevelOf[e] = 1 /\ \A r \in RolesOf[u] : LevelOf[r] \in Nat \ {0}
    BY <1>1, <1>2, <1>4, RightsAssumption
  <2>3. e \in P!Personas(u)
    BY <1>1, <2>1, <2>2
  <2>4. \A r \in P!Personas(u) : r \in RolesOf[u] /\ LevelOf[r] = 1
    BY <1>1, <2>1, <2>2
  <2> QED
    BY <1>2, <1>4, <2>3, <2>4, RightsAssumption
<1> QED
  BY <1>3, <1>4

LEMMA RightsToggle ==
    ASSUME RightsInv, InTurn, part = "rights", part' = part, NEW s \in Sessions,
           NEW u \in DOMAIN RolesOf, NEW r \in Roles, NEW c \in Codes, NEW grant \in BOOLEAN,
           P!Toggle(s, u, r, c, grant), UNCHANGED rights
    PROVE  RightsGoal'
<1>0. UNCHANGED <<seeded, granted, changes, torn>>
  BY DEF rights
<1>01. (<<r, c>> \in granted) \in BOOLEAN
  BY SMT
<1>1. PICK b \in BOOLEAN : b = (<<r, c>> \in granted)
  BY <1>01, Zenon
<1> DEFINE w == [op |-> "toggle", grant |-> grant, existing |-> b, what |-> <<r, c>>, user |-> u, by |-> P!Personas(u)]
<1>2. Turns(s, w)
  BY <1>1 DEF P!Toggle, P!Begin, P!Go, P!Idle, Turns, Idle
<1>3. u \in Actors
  BY DEF Actors, P!Toggle
<1>4. RightsHolds(w, "toggle")'
  <2>1. grant \/ r \notin Executives
    BY DEF P!Toggle, P!MayToggle
  <2>2. b <=> <<r, c>> \in granted'
    BY <1>0, <1>1
  <2> QED
    BY <1>3, <2>1, <2>2 DEF RightsHolds
<1>5. LogKept'
  <2>1. ASSUME alone, ~torn' PROVE \A what \in Roles \X Codes : Agrees(what)'
    <3>1. \A t \in Sessions : sess[t].op # "audit"
      BY <1>2, <2>1 DEF P!Toggle, P!Begin, P!Idle, Idle
    <3> QED
      BY <1>0, <2>1, <3>1, SameLog DEF RightsInv, LogKept, Agrees
  <2> QED
    BY <1>2, <2>1, LogTurn
<1>6. \A t \in Sessions \ {s} : RightsWork(sess[t])'
  BY <1>2, RightsOthers
<1>7. RightsWork(w)'
  BY <1>4 DEF RightsWork
<1> HIDE DEF w
<1> QED
  BY <1>0, <1>2, <1>5, <1>6, <1>7, RightsTurn DEF RightsInv

LEMMA RightsCommit ==
    ASSUME RightsInv, InTurn, part = "rights", part' = part, NEW s \in Sessions, P!ToggleCommit(s)
    PROVE  RightsGoal'
<1>0. UNCHANGED <<seeded, changes, torn>>
  BY DEF P!ToggleCommit
<1>1. PICK r \in Roles, c \in Codes, grant \in BOOLEAN, existing \in BOOLEAN, who \in Actors :
         /\ sess[s] = [op |-> "toggle", grant |-> grant, existing |-> existing, what |-> <<r, c>>, user |-> who, by |-> P!Personas(who)]
         /\ grant \/ r \notin Executives
         /\ alone => (existing <=> <<r, c>> \in granted)
  <2>1. RightsWork(sess[s]) /\ sess[s].op = "toggle"
    BY DEF RightsInv, P!ToggleCommit
  <2>2. RightsHolds(sess[s], "toggle")
    BY <2>1, RightsKinds
  <2> QED
    BY <2>2, Zenon DEF RightsHolds
<1> DEFINE done == [op |-> "audit", grant |-> grant, existing |-> existing, what |-> <<r, c>>, user |-> who, by |-> P!Personas(who)]
<1>2. ASSUME alone, ~torn PROVE \A what \in Roles \X Codes : Agrees(what)
  <2>1. \A t \in Sessions : sess[t].op # "audit"
    BY <1>1, <1>2 DEF InTurn, Idle
  <2> QED
    BY <1>2, <2>1 DEF RightsInv, LogKept
<1>3. CASE grant /\ ~existing /\ <<r, c>> \in granted
  <2>1. Turns(s, Idle) /\ granted' = granted
    BY <1>1, <1>3 DEF P!ToggleCommit, P!Finish, P!Go, P!Idle, Turns, Idle
  <2>2. LogKept'
    <3>1. ASSUME alone, ~torn' PROVE \A what \in Roles \X Codes : Agrees(what)'
      BY <1>0, <1>2, <2>1, <3>1, SameLog DEF Agrees
    <3> QED
      BY <2>1, <3>1, LogTurn DEF Idle
  <2>3. RightsWork(Idle)'
    BY DEF RightsWork
  <2>4. \A t \in Sessions \ {s} : RightsWork(sess[t])'
    BY <2>1, RightsOthers
  <2> QED
    BY <1>0, <2>1, <2>2, <2>3, <2>4, RightsTurn DEF RightsInv
<1>4. CASE ~(grant /\ ~existing /\ <<r, c>> \in granted)
  <2>1. Turns(s, done)
    BY <1>1, <1>4 DEF P!ToggleCommit, P!Go, Turns, Idle
  <2>2. granted' = CASE grant /\ ~existing -> granted \cup {<<r, c>>}
                     [] ~grant /\ existing -> granted \ {<<r, c>>}
                     [] OTHER -> granted
    BY <1>1, <1>4 DEF P!ToggleCommit
  <2>3. RightsWork(done)'
    BY <1>1 DEF RightsWork, RightsHolds
  <2>4. ASSUME alone, ~torn' PROVE Telling(done)'
    <3>1. \A what \in Roles \X Codes : what # <<r, c>> => (what \in granted' <=> what \in granted)
      BY <2>2
    <3>2. \A what \in Roles \X Codes : what # <<r, c>> => Agrees(what)'
      BY <1>0, <1>2, <2>4, <3>1, SameLog DEF Agrees
    <3>3. CASE grant /\ ~existing
      BY <2>2, <3>2, <3>3 DEF Telling, P!Act
    <3>4. CASE ~grant /\ existing
      BY <2>2, <3>2, <3>4 DEF Telling, P!Act
    <3>5. CASE grant <=> existing
      <4>1. granted' = granted
        BY <2>2, <3>5
      <4>2. Agrees(<<r, c>>)'
        BY <1>0, <1>2, <2>4, <4>1, SameLog DEF Agrees
      <4> QED
        BY <3>2, <3>5, <4>2 DEF Telling, P!Act
    <3> QED
      BY <3>3, <3>4, <3>5
  <2>5. LogKept'
    BY <2>1, <2>4, LogTurn
  <2>6. \A t \in Sessions \ {s} : RightsWork(sess[t])'
    BY <2>1, RightsOthers
  <2>7. granted' \subseteq Roles \X Codes /\ Executives \X Codes \subseteq granted'
    BY <1>1, <2>2 DEF RightsInv
  <2> HIDE DEF done
  <2> QED
    BY <1>0, <2>1, <2>3, <2>5, <2>6, <2>7, RightsTurn DEF RightsInv
<1> QED
  BY <1>3, <1>4

LEMMA RightsAudit ==
    ASSUME RightsInv, InTurn, part = "rights", part' = part, NEW s \in Sessions, P!AuditCommit(s)
    PROVE  RightsGoal'
<1>0. UNCHANGED <<seeded, granted, torn>>
  BY DEF P!AuditCommit
<1>1. RightsHolds(sess[s], "audit") /\ sess[s].op = "audit"
  BY RightsKinds DEF RightsInv, P!AuditCommit
<1>2. PICK r \in Roles, c \in Codes, grant \in BOOLEAN, existing \in BOOLEAN, who \in Actors :
         sess[s] = [op |-> "audit", grant |-> grant, existing |-> existing, what |-> <<r, c>>, user |-> who, by |-> P!Personas(who)]
  BY <1>1, Zenon DEF RightsHolds
<1> DEFINE row == [act |-> P!Act(grant, existing), what |-> <<r, c>>, user |-> who, by |-> P!Personas(who)]
<1>3. P!Act(grant, existing) \in {"GRANTED", "REVOKED", "ALREADY"}
  BY DEF P!Act
<1>4. row \in LogRow
  <2>1. P!Personas(who) \in SUBSET Roles
    BY ActsAsExecutive, RightsAssumption
  <2> QED
    BY <1>3, <2>1 DEF LogRow
<1>5. changes' = Append(changes, row) /\ changes \in Seq(LogRow)
  BY <1>2 DEF P!AuditCommit, RightsInv
<1>6. Turns(s, Idle)
  BY <1>2 DEF P!AuditCommit, P!Finish, P!Go, P!Idle, Turns, Idle
<1>7. /\ changes' \in Seq(LogRow)
      /\ \A what : what # <<r, c>> \/ P!Act(grant, existing) = "ALREADY"
            => (P!TrailGrants(what)' <=> P!TrailGrants(what))
      /\ P!Act(grant, existing) = "GRANTED" => P!TrailGrants(<<r, c>>)'
      /\ P!Act(grant, existing) = "REVOKED" => ~P!TrailGrants(<<r, c>>)'
  <2>1. row.act = P!Act(grant, existing) /\ row.what = <<r, c>>
    OBVIOUS
  <2> HIDE DEF row
  <2> QED
    BY <1>0, <1>4, <1>5, <2>1, LogGrows
<1>8. ASSUME alone, ~torn' PROVE \A what \in Roles \X Codes : Agrees(what)'
  <2>1. Telling(sess[s])
    BY <1>0, <1>1, <1>8 DEF RightsInv, LogKept
  <2>2. \A what \in Roles \X Codes : what # <<r, c>> => Agrees(what)'
    BY <1>0, <1>2, <1>7, <2>1 DEF Telling, Agrees
  <2>3. CASE P!Act(grant, existing) = "GRANTED"
    BY <1>0, <1>2, <1>7, <2>1, <2>2, <2>3 DEF Telling, Agrees
  <2>4. CASE P!Act(grant, existing) = "REVOKED"
    BY <1>0, <1>2, <1>7, <2>1, <2>2, <2>4 DEF Telling, Agrees
  <2>5. CASE P!Act(grant, existing) = "ALREADY"
    BY <1>0, <1>2, <1>7, <2>1, <2>2, <2>5 DEF Telling, Agrees
  <2> QED
    BY <1>3, <2>3, <2>4, <2>5
<1>9. LogKept'
  BY <1>6, <1>8, LogTurn DEF Idle
<1>10. RightsWork(Idle)'
  BY DEF RightsWork
<1>11. \A t \in Sessions \ {s} : RightsWork(sess[t])'
  BY <1>6, RightsOthers
<1> QED
  BY <1>0, <1>6, <1>7, <1>9, <1>10, <1>11, RightsTurn DEF RightsInv

LEMMA RightsCut ==
    ASSUME RightsInv, InTurn, part = "rights", part' = part, NEW s \in Sessions, P!Cut(s)
    PROVE  RightsGoal'
<1>0. UNCHANGED <<seeded, granted, changes>>
  BY DEF P!Cut
<1>1. Turns(s, Idle)
  BY DEF P!Cut, P!Finish, P!Go, P!Idle, Turns, Idle
<1>2. torn' = (torn \/ sess[s].op = "audit") /\ torn \in BOOLEAN
  BY DEF P!Cut, RightsInv
<1>3. torn' \in BOOLEAN
  BY <1>2, Zenon
<1>4. ASSUME alone, ~torn' PROVE \A what \in Roles \X Codes : Agrees(what)'
  <2>1. ~torn /\ sess[s].op # "audit"
    BY <1>2, <1>4, Zenon
  <2>2. \A t \in Sessions : sess[t].op # "audit"
    <3>1. \A t \in Sessions \ {s} : sess[t] = Idle
      BY <1>1, <1>4, TurnKeeps
    <3> QED
      BY <2>1, <3>1 DEF Idle
  <2> QED
    BY <1>0, <1>4, <2>1, <2>2, SameLog DEF RightsInv, LogKept, Agrees
<1>5. LogKept'
  BY <1>1, <1>4, LogTurn DEF Idle
<1>6. RightsWork(Idle)'
  BY DEF RightsWork
<1>7. \A t \in Sessions \ {s} : RightsWork(sess[t])'
  BY <1>1, RightsOthers
<1> QED
  BY <1>0, <1>1, <1>3, <1>5, <1>6, <1>7, RightsTurn DEF RightsInv

LEMMA RightsStep ==
    ASSUME RightsInv, InTurn, part = "rights", part' = part, NEW s \in Sessions, P!Step(s)
    PROVE  RightsGoal'
<1>1. ASSUME NEW u \in P!Users, NEW r \in Roles, NEW c \in Codes, NEW grant \in BOOLEAN,
             P!Toggle(s, u, r, c, grant), UNCHANGED <<seeded, granted, changes, torn>>
      PROVE  RightsGoal'
  BY <1>1, RightsToggle DEF rights, P!Users
<1> QED
  BY <1>1, RightsCommit, RightsAudit, RightsCut DEF P!Step

LEMMA RightsStarts ==
    ASSUME P!Init
    PROVE  RightsInv
<1>1. /\ seeded \in SUBSET (Roles \X Codes) /\ Executives \X Codes \subseteq seeded
      /\ granted = seeded /\ changes = << >> /\ torn = FALSE
      /\ alone \in BOOLEAN /\ sess = [s \in Sessions |-> Idle]
  BY DEF P!Init, P!AllIdle, P!Idle, Idle
<1>2. \A what : Agrees(what)
  BY <1>1 DEF Agrees, P!TrailGrants, P!RowsOf
<1>3. \A s \in Sessions : sess[s] = Idle /\ RightsWork(sess[s]) /\ sess[s].op # "audit"
  BY <1>1 DEF RightsWork, Idle
<1>4. changes \in Seq(LogRow)
  BY <1>1
<1> QED
  BY <1>1, <1>2, <1>3, <1>4 DEF RightsInv, LogKept

LEMMA RightsStays ==
    ASSUME RightsInv, part # "rights", part' = part, UNCHANGED rights
    PROVE  RightsInv'
<1>1. UNCHANGED <<seeded, granted, changes, torn>>
  BY DEF rights
<1>2. \A what : Agrees(what)' <=> Agrees(what)
  BY <1>1, SameLog DEF Agrees
<1> QED
  BY <1>1, <1>2 DEF RightsInv

\* Who has an executive's role has every permission.
LEMMA ExecutivesHold ==
    ASSUME Executives \X Codes \subseteq granted
    PROVE  P!NoLockOut
<1> SUFFICES ASSUME NEW u \in P!Users, P!IsExecutive(u)
             PROVE  (\A c \in Codes : P!MayUse(u, c)) /\ P!ReachesLevel(u, 1)
  BY DEF P!NoLockOut
<1>1. PICK e \in Executives : e \in RolesOf[u]
  BY DEF P!IsExecutive
<1>2. \A c \in Codes : P!MayUse(u, c)
  BY <1>1 DEF P!MayUse, P!PermissionsOf
<1> DEFINE levels == {99} \cup {P!Level(r) : r \in RolesOf[u]}
<1>3. \A l \in levels : l \in Nat \ {0}
  BY RightsAssumption DEF P!Level, P!Users
<1>4. 1 \in levels
  BY <1>1, RightsAssumption DEF P!Level
<1>5. P!MinLevel(u) = P!Min(levels)
  BY DEF P!MinLevel
<1> HIDE DEF levels
<1>6. P!Min(levels) = 1
  <2>1. \A l \in levels : 1 <= l
    BY <1>3
  <2>2. \A x \in levels : (\A y \in levels : x <= y) => x = 1
    BY <1>3, <1>4
  <2> QED
    BY <1>4, <2>1, <2>2 DEF P!Min
<1> QED
  BY <1>2, <1>5, <1>6 DEF P!ReachesLevel

LEMMA RightsShow ==
    ASSUME RightsInv
    PROVE  P!TypeOK /\ P!TrailReplays /\ P!NoLockOut /\ P!PersonaExplicit
<1>1. \A i \in DOMAIN changes : changes[i] \in LogRow
  BY DEF RightsInv
<1>2. P!TypeOK
  BY <1>1 DEF RightsInv, P!TypeOK, P!Users, LogRow, Actors
<1>3. P!NoLockOut
  BY ExecutivesHold DEF RightsInv
<1>4. P!PersonaExplicit
  <2> SUFFICES ASSUME NEW i \in DOMAIN changes
               PROVE  LET roles == RolesOf[changes[i].user] IN
                      /\ changes[i].by # {} /\ changes[i].by \subseteq roles \cap Executives
                      /\ (\E d \in roles : LevelOf[d] = 11) => \A r \in changes[i].by : LevelOf[r] = 11
    BY DEF P!PersonaExplicit
  <2>1. changes[i].user \in Actors /\ changes[i].by = P!Personas(changes[i].user)
    BY <1>1 DEF LogRow
  <2> QED
    BY <2>1, ActsAsExecutive
<1>5. P!TrailReplays
  <2> SUFFICES ASSUME alone, ~torn, \A s \in Sessions : sess[s] = Idle
               PROVE  \A what \in Roles \X Codes : Agrees(what)
    BY DEF P!TrailReplays, P!Idle, Idle, Agrees
  <2>1. \A s \in Sessions : sess[s].op # "audit"
    BY DEF Idle
  <2> QED
    BY <2>1 DEF RightsInv, LogKept
<1> QED
  BY <1>2, <1>3, <1>4, <1>5
-----------------------------------------------------------------------------
\* Tokens.  What a handler that deals in them has read: an old token that is valid,
\* and, alone, one that was not spent before, and is on the blacklist to its last
\* second once it was revoked.
Stamped == T!Tokens
Lapsing(t) == halves > 2 * (T!Exp(t) - 1)
Gone(t) == revoked[t] >= 2 * T!Exp(t) - 1 \/ Lapsing(t)
PairStages == {"load", "revoke", "audit", "answer"}
PairFacts(w, stage, u, old) ==
    /\ w = [op |-> "pair", stage |-> stage, user |-> u, old |-> old]
    /\ old = << >> => stage \in {"audit", "answer"}
    /\ old # << >> => T!Valid(old, RefreshTime)
    /\ stage = "answer" => T!Token(u) \in logged
    /\ alone /\ stage # "load" => active[u]
    /\ alone /\ old # << >> =>
          (old \in spent => Lapsing(old)) /\ (stage \in {"audit", "answer"} => Gone(old))
PairWork(w) ==
    \E stage \in PairStages, u \in Logins, old \in issued \cup {<< >>} : PairFacts(w, stage, u, old)
LogoutWork(w) == \E old \in issued : w = [op |-> "logout", old |-> old]
LeaverWork(w) == \E u \in Logins : w = [op |-> "deactivate", user |-> u]
TokenWork(w)  == w = Idle \/ PairWork(w) \/ LogoutWork(w) \/ LeaverWork(w)

\* The entries of the blacklist are of tokens that were issued, and of none that is
\* held once; what was spent is on it, and what was spent again was spent late.
Listed ==
    /\ revoked \in [Stamped -> Nat]
    /\ \A t \in Stamped : revoked[t] > 0 => t \in issued /\ (t \in held => t \in repeated)
SpentOnce ==
    alone => /\ \A t \in spent : Gone(t)
             /\ \A x \in twice : x[2] > 2 * (T!Exp(x[1]) - 1)
PairsInv ==
    /\ halves \in 0 .. MaxHalves
    /\ active \in [Logins -> BOOLEAN]
    /\ issued \subseteq Stamped /\ logged \subseteq Stamped
    /\ held \subseteq issued /\ spent \subseteq issued /\ repeated \subseteq issued
    /\ twice \subseteq issued \X (0 .. MaxHalves)
    /\ Listed /\ SpentOnce
    /\ issued \subseteq logged
    /\ part = "pairs" => \A s \in Sessions : TokenWork(sess[s])
PairsGoal == InTurn /\ PairsInv
InTime == alone => \A t \in issued' \ issued : active[t[1]]

LEMMA HalfOf ==
    ASSUME NEW x \in Int
    PROVE  x \div 2 \in Int /\ 2 * (x \div 2) >= x - 1 /\ 2 * (x \div 2) <= x
  BY SMT

\* A token is of the second in which it is made.
LEMMA StampedNow ==
    ASSUME PairsInv, NEW u \in Logins
    PROVE  T!Token(u) \in Stamped
  BY DEF PairsInv, Stamped, T!Tokens, T!Times, T!Token

LEMMA ExpiryOf ==
    ASSUME NEW t \in Stamped
    PROVE  T!Exp(t) \in Nat
<1>1. PICK u \in Logins, time \in 0 .. MaxHalves : t = <<u, time \div 2>>
  BY DEF Stamped, T!Tokens, T!Times
<1>2. time \div 2 \in Nat
  BY <1>1, TokensAssumption
<1> QED
  BY <1>1, <1>2, TokensAssumption DEF T!Exp

\* The entry of a token that is revoked lasts to its last whole second.
LEMMA RevokedGives ==
    ASSUME PairsInv, NEW t \in issued
    PROVE  \/ T!Revoked(t) = revoked /\ (T!Valid(t, RefreshTime) => Lapsing(t))
           \/ \E until \in Nat : until >= 2 * T!Exp(t) - 1 /\ T!Revoked(t) = [revoked EXCEPT ![t] = until]
<1>1. T!Exp(t) \in Nat /\ halves \in Nat
  BY ExpiryOf, TokensAssumption DEF PairsInv
<1>2. PICK rest \in Int : rest = T!Remaining(t) /\ 2 * rest >= 2 * T!Exp(t) - halves - 1
  <2>1. 2 * T!Exp(t) - halves \in Int
    BY <1>1
  <2> QED
    BY <1>1, <2>1, HalfOf DEF T!Remaining
<1>3. CASE T!Valid(t, RefreshTime) /\ rest > 0
  <2>1. T!Revoked(t) = [revoked EXCEPT ![t] = halves + 2 * rest]
    BY <1>2, <1>3 DEF T!Revoked
  <2>2. halves + 2 * rest \in Nat /\ halves + 2 * rest >= 2 * T!Exp(t) - 1
    BY <1>1, <1>2, <1>3
  <2> QED
    BY <2>1, <2>2
<1>4. CASE T!Valid(t, RefreshTime) /\ ~(rest > 0)
  <2>1. T!Revoked(t) = revoked
    BY <1>2, <1>4 DEF T!Revoked
  <2>2. Lapsing(t)
    BY <1>1, <1>2, <1>4 DEF Lapsing
  <2> QED
    BY <2>1, <2>2
<1>5. CASE ~T!Valid(t, RefreshTime)
  BY <1>5 DEF T!Revoked
<1> QED
  BY <1>3, <1>4, <1>5

\* What is revoked, by an exchange or a logout, was handed in.
LEMMA RevokedLists ==
    ASSUME PairsInv, NEW t \in issued, revoked' = T!Revoked(t), held' = held \ {t},
           UNCHANGED <<halves, issued, repeated, spent, twice, alone>>
    PROVE  Listed' /\ SpentOnce' /\ (T!Valid(t, RefreshTime) => Gone(t)')
<1>1. /\ revoked \in [Stamped -> Nat] /\ issued \subseteq Stamped /\ t \in Stamped
      /\ \A o \in Stamped : revoked[o] > 0 => o \in issued /\ (o \in held => o \in repeated)
      /\ alone => /\ \A o \in spent : Gone(o)
                  /\ \A x \in twice : x[2] > 2 * (T!Exp(x[1]) - 1)
      /\ spent \subseteq Stamped
  BY DEF PairsInv, Listed, SpentOnce
<1>2. \A o : T!Exp(o)' = T!Exp(o) /\ Lapsing(o)' = Lapsing(o)
  BY DEF T!Exp, Lapsing
<1>3. CASE revoked' = revoked /\ (T!Valid(t, RefreshTime) => Lapsing(t))
  BY <1>1, <1>2, <1>3 DEF Listed, SpentOnce, Gone
<1>4. CASE \E until \in Nat : until >= 2 * T!Exp(t) - 1 /\ revoked' = [revoked EXCEPT ![t] = until]
  <2>1. PICK until \in Nat : until >= 2 * T!Exp(t) - 1 /\ revoked' = [revoked EXCEPT ![t] = until]
    BY <1>4
  <2>2. revoked' \in [Stamped -> Nat] /\ revoked'[t] = until /\ \A o \in Stamped \ {t} : revoked'[o] = revoked[o]
    BY <1>1, <2>1
  <2>3. Gone(t)'
    BY <1>2, <2>1, <2>2 DEF Gone
  <2>4. \A o \in Stamped \ {t} : Gone(o) => Gone(o)'
    BY <1>2, <2>2 DEF Gone
  <2>5. Listed'
    BY <1>1, <2>2 DEF Listed, Stamped
  <2>6. SpentOnce'
    BY <1>1, <1>2, <2>3, <2>4 DEF SpentOnce
  <2> QED
    BY <2>3, <2>5, <2>6
<1> QED
  BY <1>3, <1>4, RevokedGives

LEMMA TokenKinds ==
    ASSUME NEW w, TokenWork(w)
    PROVE  /\ w.op = "pair" => PairWork(w)
           /\ w.op = "logout" => LogoutWork(w)
           /\ w.op = "deactivate" => LeaverWork(w)
<1>1. PairWork(w) => w.op = "pair"
  BY DEF PairWork, PairFacts
<1>2. LogoutWork(w) => w.op = "logout"
  BY DEF LogoutWork
<1>3. LeaverWork(w) => w.op = "deactivate"
  BY DEF LeaverWork
<1> QED
  BY <1>1, <1>2, <1>3 DEF TokenWork, Idle

\* A handler keeps the other handlers' facts if it takes nothing out of the log.
LEMMA TokensOthers ==
    ASSUME PairsInv, InTurn, part = "pairs", NEW s \in Sessions, NEW w, Turns(s, w),
           halves' = halves, issued \subseteq issued', logged \subseteq logged'
    PROVE  \A t \in Sessions \ {s} : TokenWork(sess[t])'
<1> SUFFICES ASSUME NEW t \in Sessions \ {s} PROVE TokenWork(sess[t])'
  OBVIOUS
<1>1. sess'[t] = sess[t] /\ (alone => sess[t] = Idle) /\ alone' = alone
  BY TurnKeeps DEF Turns
<1>2. PICK v : v = sess[t] /\ v = sess'[t]
  BY <1>1
<1>3. TokenWork(v)
  BY <1>2 DEF PairsInv
<1>4. ASSUME v = Idle PROVE TokenWork(v)'
  BY <1>4 DEF TokenWork
<1>5. ASSUME v # Idle PROVE TokenWork(v)'
  <2>1. ~alone /\ ~alone'
    BY <1>1, <1>2, <1>5
  <2>2. PairWork(v) => PairWork(v)'
    BY <2>1 DEF PairWork, PairFacts, T!Valid, T!Token
  <2>3. LogoutWork(v) => LogoutWork(v)'
    BY DEF LogoutWork
  <2>4. LeaverWork(v) => LeaverWork(v)'
    BY DEF LeaverWork
  <2> QED
    BY <1>3, <1>5, <2>2, <2>3, <2>4 DEF TokenWork
<1>6. TokenWork(v)'
  BY <1>4, <1>5
<1> QED
  BY <1>2, <1>6

LEMMA TokensTurn ==
    ASSUME PairsInv, InTurn, part = "pairs", part' = part, NEW s \in Sessions, NEW w, Turns(s, w),
           halves' = halves, issued \subseteq issued', logged \subseteq logged',
           TokenWork(w)',
           active' \in [Logins -> BOOLEAN],
           issued' \subseteq Stamped, logged' \subseteq Stamped,
           held' \subseteq issued', spent' \subseteq issued', repeated' \subseteq issued',
           twice' \subseteq issued' \X (0 .. MaxHalves), Listed', SpentOnce', issued' \subseteq logged'
    PROVE  PairsGoal'
<1>1. InTurn' /\ sess'[s] = w /\ alone' = alone
  BY TurnKeeps DEF Turns
<1>2. \A t \in Sessions \ {s} : TokenWork(sess[t])'
  BY TokensOthers
<1>3. \A t \in Sessions : TokenWork(sess[t])'
  BY <1>1, <1>2
<1> QED
  BY <1>1, <1>3 DEF PairsGoal, PairsInv, Stamped

\* A handler that begins leaves the tables as they are.
LEMMA TokensBegin ==
    ASSUME PairsInv, InTurn, part = "pairs", part' = part, NEW s \in Sessions, NEW w, Turns(s, w),
           UNCHANGED pairs, TokenWork(w)'
    PROVE  PairsGoal' /\ InTime
<1>1. UNCHANGED <<halves, active, revoked, issued, repeated, held, spent, twice, logged>>
  BY DEF pairs
<1> QED
  <2>1. Listed' /\ SpentOnce'
    BY <1>1 DEF PairsInv, Listed, SpentOnce, Gone, Lapsing, T!Exp, Turns, Stamped
  <2> QED
    BY <1>1, <2>1, TokensTurn DEF PairsInv, InTime

LEMMA TokensRequest ==
    ASSUME PairsInv, InTurn, part = "pairs", part' = part, NEW s \in Sessions, UNCHANGED pairs,
           \/ \E u \in Logins : T!Login(s, u) \/ T!Deactivate(s, u) \/ \E t \in issued : T!Logout(s, u, t)
           \/ \E t \in issued : T!Refresh(s, t)
           \/ T!Abort(s)
    PROVE  PairsGoal' /\ InTime
<1>1. UNCHANGED <<halves, active, revoked, issued, repeated, held, spent, twice, logged>>
  BY DEF pairs
<1>2. ASSUME NEW w, T!Begin(s, w) PROVE Turns(s, w) /\ alone' = alone
  BY <1>2 DEF T!Begin, T!Go, T!Idle, Turns, Idle
<1>3. ASSUME NEW u \in Logins, T!Login(s, u) PROVE PairsGoal' /\ InTime
  <2> DEFINE w == [op |-> "pair", stage |-> "audit", user |-> u, old |-> << >>]
  <2>1. Turns(s, w) /\ active[u] /\ alone' = alone
    BY <1>2, <1>3 DEF T!Login
  <2>2. PairWork(w)'
    BY <1>1, <2>1 DEF PairWork, PairFacts, PairStages
  <2>3. TokenWork(w)'
    BY <2>2 DEF TokenWork
  <2> HIDE DEF w
  <2> QED
    BY <2>1, <2>3, TokensBegin
<1>4. ASSUME NEW u \in Logins, T!Deactivate(s, u) PROVE PairsGoal' /\ InTime
  <2> DEFINE w == [op |-> "deactivate", user |-> u]
  <2>1. Turns(s, w)
    BY <1>2, <1>4 DEF T!Deactivate
  <2>2. TokenWork(w)'
    BY DEF TokenWork, LeaverWork
  <2> HIDE DEF w
  <2> QED
    BY <2>1, <2>2, TokensBegin
<1>5. ASSUME NEW u \in Logins, NEW t \in issued, T!Logout(s, u, t) PROVE PairsGoal' /\ InTime
  <2> DEFINE w == [op |-> "logout", old |-> t]
  <2>1. Turns(s, w)
    BY <1>2, <1>5 DEF T!Logout
  <2>2. TokenWork(w)'
    BY <1>1 DEF TokenWork, LogoutWork
  <2> HIDE DEF w
  <2> QED
    BY <2>1, <2>2, TokensBegin
<1>6. ASSUME NEW t \in issued, T!Refresh(s, t) PROVE PairsGoal' /\ InTime
  <2> DEFINE w == [op |-> "pair", stage |-> "load", user |-> t[1], old |-> t]
  <2>1. Turns(s, w) /\ T!Accepted(t) /\ alone' = alone
    BY <1>2, <1>6 DEF T!Refresh
  <2>2. t[1] \in Logins /\ t # << >>
    BY DEF PairsInv, Stamped, T!Tokens
  <2>3. alone /\ t \in spent => Lapsing(t)
    <3>1. t \in Stamped /\ T!Exp(t) \in Nat /\ halves \in Nat /\ revoked[t] \in Nat /\ revoked[t] <= halves
      BY <2>1, ExpiryOf, TokensAssumption DEF PairsInv, Listed, T!Accepted, T!OnBlacklist
    <3> QED
      BY <3>1 DEF PairsInv, SpentOnce, Gone, Lapsing
  <2>4. PairFacts(w, "load", t[1], t)'
    BY <1>1, <2>1, <2>2, <2>3 DEF PairFacts, T!Accepted, T!Valid, Lapsing, T!Exp
  <2>5. PairWork(w)'
    BY <1>1, <2>2, <2>4 DEF PairWork, PairStages
  <2>6. TokenWork(w)'
    BY <2>5 DEF TokenWork
  <2> HIDE DEF w
  <2> QED
    BY <2>1, <2>6, TokensBegin
<1>7. ASSUME T!Abort(s) PROVE PairsGoal' /\ InTime
  <2>1. Turns(s, Idle)
    BY <1>7 DEF T!Abort, T!Finish, T!Go, T!Idle, Turns, Idle
  <2>2. TokenWork(Idle)'
    BY DEF TokenWork
  <2> QED
    BY <2>1, <2>2, TokensBegin
<1> QED
  BY <1>3, <1>4, <1>5, <1>6, <1>7

\* What a handler of a pair has read, by its stage.
LEMMA PairAt ==
    ASSUME PairsInv, part = "pairs", NEW s \in Sessions, NEW stage,
           sess[s].op = "pair", sess[s].stage = stage
    PROVE  \E u \in Logins, old \in issued \cup {<< >>} : PairFacts(sess[s], stage, u, old)
<1>1. PairWork(sess[s])
  BY TokenKinds DEF PairsInv
<1>2. PICK st \in PairStages, u \in Logins, old \in issued \cup {<< >>} : PairFacts(sess[s], st, u, old)
  BY <1>1 DEF PairWork
<1>3. st = stage
  BY <1>2 DEF PairFacts
<1> QED
  BY <1>2, <1>3

LEMMA TokensLoad ==
    ASSUME PairsInv, InTurn, part = "pairs", part' = part, NEW s \in Sessions, T!LoadUser(s)
    PROVE  PairsGoal' /\ InTime
<1>1. UNCHANGED pairs
  BY DEF T!LoadUser, T!tokenTables, T!tokenGhosts, pairs
<1>2. UNCHANGED <<halves, active, revoked, issued, repeated, held, spent, twice, logged>>
  BY <1>1 DEF pairs
<1>01. sess[s].op = "pair" /\ sess[s].stage = "load"
  BY DEF T!LoadUser
<1>02. PICK u \in Logins, old \in issued \cup {<< >>} : PairFacts(sess[s], "load", u, old)
  BY <1>01, PairAt
<1>3. /\ sess[s] = [op |-> "pair", stage |-> "load", user |-> u, old |-> old]
      /\ old # << >> /\ T!Valid(old, RefreshTime) /\ (alone /\ old \in spent => Lapsing(old))
  BY <1>02 DEF PairFacts
<1>4. CASE active[u]
  <2> DEFINE w == [op |-> "pair", stage |-> "revoke", user |-> u, old |-> old]
  <2>1. Turns(s, w) /\ alone' = alone
    BY <1>3, <1>4 DEF T!LoadUser, T!Go, Turns, Idle
  <2>2. PairWork(w)'
    BY <1>2, <1>3, <1>4, <2>1 DEF PairWork, PairFacts, PairStages, T!Valid, Lapsing, T!Exp
  <2>3. TokenWork(w)'
    BY <2>2 DEF TokenWork
  <2> HIDE DEF w
  <2> QED
    BY <1>1, <2>1, <2>3, TokensBegin
<1>5. CASE ~active[u]
  <2>1. Turns(s, Idle)
    BY <1>3, <1>5 DEF T!LoadUser, T!Finish, T!Go, T!Idle, Turns, Idle
  <2>2. TokenWork(Idle)'
    BY DEF TokenWork
  <2> QED
    BY <1>1, <2>1, <2>2, TokensBegin
<1> QED
  BY <1>4, <1>5

LEMMA TokensRevoke ==
    ASSUME PairsInv, InTurn, part = "pairs", part' = part, NEW s \in Sessions, T!RevokeOld(s)
    PROVE  PairsGoal' /\ InTime
<1>01. sess[s].op = "pair" /\ sess[s].stage = "revoke"
  BY DEF T!RevokeOld
<1>02. PICK u \in Logins, old \in issued \cup {<< >>} : PairFacts(sess[s], "revoke", u, old)
  BY <1>01, PairAt
<1>1. /\ sess[s] = [op |-> "pair", stage |-> "revoke", user |-> u, old |-> old]
      /\ old # << >> /\ T!Valid(old, RefreshTime) /\ (alone => active[u])
      /\ alone /\ old \in spent => Lapsing(old)
  BY <1>02 DEF PairFacts
<1>2. /\ revoked' = T!Revoked(old) /\ held' = held \ {old}
      /\ UNCHANGED <<halves, active, logged, issued, repeated, spent, twice>>
  BY <1>1 DEF T!RevokeOld
<1> DEFINE w == [op |-> "pair", stage |-> "audit", user |-> u, old |-> old]
<1>3. Turns(s, w) /\ alone' = alone
  <2>1. [sess[s] EXCEPT !.stage = "audit"] = w
    BY <1>1
  <2>2. T!Go(s, w) /\ sess[s] # Idle
    BY <2>1 DEF T!RevokeOld, Idle
  <2> QED
    BY <2>2 DEF T!Go, Turns
<1>4. Listed' /\ SpentOnce' /\ Gone(old)'
  BY <1>1, <1>2, <1>3, RevokedLists
<1>5. PairFacts(w, "audit", u, old)'
  BY <1>1, <1>2, <1>3, <1>4 DEF PairFacts, T!Valid, Lapsing, T!Exp
<1>6. TokenWork(w)'
  BY <1>1, <1>2, <1>5 DEF TokenWork, PairWork, PairStages
<1>7. old \in issued
  BY <1>1
<1> HIDE DEF w
<1> QED
  BY <1>2, <1>3, <1>4, <1>6, <1>7, TokensTurn DEF PairsInv, InTime

LEMMA TokensAudit ==
    ASSUME PairsInv, InTurn, part = "pairs", part' = part, NEW s \in Sessions, T!AuditPair(s)
    PROVE  PairsGoal' /\ InTime
<1>01. sess[s].op = "pair" /\ sess[s].stage = "audit"
  BY DEF T!AuditPair
<1>02. PICK u \in Logins, old \in issued \cup {<< >>} : PairFacts(sess[s], "audit", u, old)
  BY <1>01, PairAt
<1>1. /\ sess[s] = [op |-> "pair", stage |-> "audit", user |-> u, old |-> old]
      /\ old # << >> => T!Valid(old, RefreshTime)
      /\ alone => active[u]
      /\ alone /\ old # << >> => (old \in spent => Lapsing(old)) /\ Gone(old)
  BY <1>02 DEF PairFacts
<1>2. logged' = logged \cup {T!Token(u)} /\ UNCHANGED <<halves, active, revoked, issued, repeated, held, spent, twice>>
  BY <1>1 DEF T!AuditPair, T!tokenGhosts
<1> DEFINE w == [op |-> "pair", stage |-> "answer", user |-> u, old |-> old]
<1>3. Turns(s, w) /\ alone' = alone
  <2>1. [sess[s] EXCEPT !.stage = "answer"] = w
    BY <1>1
  <2>2. T!Go(s, w) /\ sess[s] # Idle
    BY <2>1 DEF T!AuditPair, Idle
  <2> QED
    BY <2>2 DEF T!Go, Turns
<1>4. PairWork(w)'
  BY <1>1, <1>2, <1>3 DEF PairWork, PairFacts, PairStages, T!Valid, T!Token, Lapsing, Gone, T!Exp
<1>5. TokenWork(w)'
  BY <1>4 DEF TokenWork
<1>6. logged' \subseteq Stamped
  BY <1>1, <1>2, StampedNow DEF PairsInv
<1>7. Listed' /\ SpentOnce'
  BY <1>2, <1>3 DEF PairsInv, Listed, SpentOnce, Gone, Lapsing, T!Exp, Stamped
<1> HIDE DEF w
<1> QED
  BY <1>2, <1>3, <1>5, <1>6, <1>7, TokensTurn DEF PairsInv, InTime

LEMMA TokensHandOut ==
    ASSUME PairsInv, InTurn, part = "pairs", part' = part, NEW s \in Sessions, T!HandOut(s)
    PROVE  PairsGoal' /\ InTime
<1>01. sess[s].op = "pair" /\ sess[s].stage = "answer"
  BY DEF T!HandOut
<1>02. PICK u \in Logins, old \in issued \cup {<< >>} : PairFacts(sess[s], "answer", u, old)
  BY <1>01, PairAt
<1>1. /\ sess[s] = [op |-> "pair", stage |-> "answer", user |-> u, old |-> old]
      /\ T!Token(u) \in logged
      /\ alone => active[u]
      /\ alone /\ old # << >> => (old \in spent => Lapsing(old)) /\ Gone(old)
  BY <1>02 DEF PairFacts
<1>2. PICK t : t = T!Token(u)
  OBVIOUS
<1>20. t[1] = u
  BY <1>2 DEF T!Token
<1>3. PICK olds : olds = {old} \ {<< >>}
  OBVIOUS
<1>4. /\ issued' = issued \cup {t} /\ held' = held \cup {t}
      /\ repeated' = repeated \cup (issued \cap {t})
      /\ spent' = spent \cup olds /\ twice' = twice \cup ((spent \cap olds) \X {halves})
      /\ UNCHANGED <<halves, active, revoked, logged>>
  BY <1>1, <1>2, <1>3 DEF T!HandOut, T!tokenTables
<1>5. Turns(s, Idle) /\ alone' = alone
  BY <1>1 DEF T!HandOut, T!Finish, T!Go, T!Idle, Turns, Idle
<1>6. TokenWork(Idle)'
  BY DEF TokenWork
<1>7. t \in logged /\ olds \subseteq issued /\ (alone => \A o \in olds : Gone(o) /\ (o \in spent => Lapsing(o)))
  BY <1>1, <1>2, <1>3
<1>8. /\ issued' \subseteq Stamped /\ issued' \subseteq logged'
      /\ held' \subseteq issued' /\ spent' \subseteq issued' /\ repeated' \subseteq issued'
      /\ twice' \subseteq issued' \X (0 .. MaxHalves)
  BY <1>4, <1>7 DEF PairsInv
<1>10. Listed'
  BY <1>4 DEF PairsInv, Listed, Stamped
<1>11. SpentOnce'
  <2>1. \A o : Gone(o)' = Gone(o)
    BY <1>4 DEF Gone, Lapsing, T!Exp
  <2>2. \A x : T!Exp(x)' = T!Exp(x)
    BY DEF T!Exp
  <2>3. ASSUME alone, NEW x \in (spent \cap olds) \X {halves} PROVE x[2] > 2 * (T!Exp(x[1]) - 1)
    BY <1>7, <2>3 DEF Lapsing
  <2> QED
    BY <1>4, <1>5, <1>7, <2>1, <2>2, <2>3 DEF PairsInv, SpentOnce
<1>9. InTime
  BY <1>1, <1>20, <1>4 DEF InTime
<1> QED
  BY <1>4, <1>5, <1>6, <1>8, <1>9, <1>10, <1>11, TokensTurn DEF PairsInv

LEMMA TokensLogout ==
    ASSUME PairsInv, InTurn, part = "pairs", part' = part, NEW s \in Sessions, T!LogoutCommit(s)
    PROVE  PairsGoal' /\ InTime
<1>1. PICK old \in issued : sess[s] = [op |-> "logout", old |-> old]
  BY TokenKinds DEF PairsInv, T!LogoutCommit, LogoutWork
<1>2. /\ revoked' = T!Revoked(old) /\ held' = held \ {old}
      /\ UNCHANGED <<halves, active, logged, issued, repeated, spent, twice>>
  BY <1>1 DEF T!LogoutCommit
<1>3. Turns(s, Idle) /\ alone' = alone
  BY <1>1 DEF T!LogoutCommit, T!Finish, T!Go, T!Idle, Turns, Idle
<1>4. TokenWork(Idle)'
  BY DEF TokenWork
<1>5. Listed' /\ SpentOnce'
  BY <1>1, <1>2, <1>3, RevokedLists
<1> QED
  BY <1>2, <1>3, <1>4, <1>5, TokensTurn DEF PairsInv, InTime

LEMMA TokensLeaver ==
    ASSUME PairsInv, InTurn, part = "pairs", part' = part, NEW s \in Sessions, T!DeactivateCommit(s)
    PROVE  PairsGoal' /\ InTime
<1>1. PICK u \in Logins : sess[s] = [op |-> "deactivate", user |-> u]
  BY TokenKinds DEF PairsInv, T!DeactivateCommit, LeaverWork
<1>2. /\ active' \in [Logins -> BOOLEAN]
      /\ UNCHANGED <<halves, revoked, logged, issued, repeated, held, spent, twice>>
  BY <1>1 DEF T!DeactivateCommit, T!tokenGhosts, PairsInv
<1>3. Turns(s, Idle) /\ alone' = alone
  BY <1>1 DEF T!DeactivateCommit, T!Finish, T!Go, T!Idle, Turns, Idle
<1>4. TokenWork(Idle)'
  BY DEF TokenWork
<1>5. Listed' /\ SpentOnce'
  BY <1>2, <1>3 DEF PairsInv, Listed, SpentOnce, Gone, Lapsing, T!Exp, Stamped
<1> QED
  BY <1>2, <1>3, <1>4, <1>5, TokensTurn DEF PairsInv, InTime

LEMMA TokensTick ==
    ASSUME PairsInv, InTurn, part = "pairs", part' = part, T!Tick
    PROVE  PairsGoal' /\ InTime
<1>1. /\ halves' = halves + 1 /\ halves < MaxHalves /\ \A s \in Sessions : sess[s] = Idle
      /\ UNCHANGED <<active, revoked, issued, repeated, held, spent, twice, logged, alone, sess>>
  BY DEF T!Tick, T!Idle, Idle, T!tokenTables, T!tokenGhosts
<1>2. halves' \in 0 .. MaxHalves
  BY <1>1, TokensAssumption DEF PairsInv
<1>3. \A s \in Sessions : TokenWork(sess[s])'
  BY <1>1 DEF TokenWork
<1>4. InTurn'
  BY <1>1 DEF InTurn
<1>5. ASSUME NEW t \in Stamped PROVE Gone(t) => Gone(t)'
  <2>1. T!Exp(t) \in Nat /\ halves \in Nat
    BY ExpiryOf, TokensAssumption DEF PairsInv
  <2> QED
    BY <1>1, <2>1 DEF Gone, Lapsing, T!Exp
<1>6. Listed' /\ SpentOnce'
  BY <1>1, <1>5 DEF PairsInv, Listed, SpentOnce, T!Exp, Stamped
<1> QED
  BY <1>1, <1>2, <1>3, <1>4, <1>6 DEF PairsGoal, PairsInv, InTime, Stamped

LEMMA TokensStep ==
    ASSUME PairsInv, InTurn, part = "pairs", part' = part, T!Next
    PROVE  PairsGoal' /\ InTime
<1>1. ASSUME UNCHANGED <<halves, T!tokenTables, T!tokenGhosts>> PROVE UNCHANGED pairs
  BY <1>1 DEF T!tokenTables, T!tokenGhosts, pairs
<1>2. ASSUME NEW s \in Sessions, T!Step(s) PROVE PairsGoal' /\ InTime
  BY <1>1, <1>2, TokensRequest, TokensLoad, TokensRevoke, TokensAudit, TokensHandOut, TokensLogout, TokensLeaver
     DEF T!Step
<1> QED
  BY <1>2, TokensTick DEF T!Next

LEMMA TokensStart ==
    ASSUME T!Init
    PROVE  PairsInv
<1>1. \A s \in Sessions : TokenWork(sess[s])
  BY DEF T!Init, T!AllIdle, T!Idle, Idle, TokenWork
<1>2. Listed /\ SpentOnce
  BY DEF T!Init, Listed, SpentOnce, Stamped
<1> QED
  BY <1>1, <1>2, TokensAssumption DEF T!Init, PairsInv

LEMMA TokensStay ==
    ASSUME PairsInv, part # "pairs", part' = part, alone' = alone, UNCHANGED pairs
    PROVE  PairsInv' /\ InTime
<1>1. UNCHANGED <<halves, active, revoked, issued, repeated, held, spent, twice, logged>>
  BY DEF pairs
<1>2. Listed' /\ SpentOnce'
  BY <1>1 DEF PairsInv, Listed, SpentOnce, Gone, Lapsing, T!Exp, Stamped
<1> QED
  BY <1>1, <1>2 DEF PairsInv, Stamped, InTime

LEMMA TokensShow ==
    ASSUME PairsInv
    PROVE  T!TypeOK /\ T!ExchangedOnce /\ T!HeldPairsWork /\ T!PairsLogged
<1>1. \A t \in held \ repeated : ~T!OnBlacklist(t)
  <2>1. halves \in Nat /\ held \subseteq Stamped
    BY TokensAssumption DEF PairsInv
  <2> QED
    BY <2>1 DEF PairsInv, Listed, T!OnBlacklist
<1>2. T!HeldPairsWork
  BY <1>1 DEF T!HeldPairsWork, T!Accepted
<1>3. T!TypeOK
  <2>1. \A x \in {issued, repeated, held, spent, logged} : x \subseteq T!Tokens
    BY DEF PairsInv, Stamped
  <2>2. UNION {issued, repeated, held, spent, logged} \subseteq T!Tokens
    BY <2>1
  <2>3. twice \subseteq T!Tokens \X T!Times
    BY DEF PairsInv, Stamped, T!Times
  <2> QED
    BY <2>2, <2>3 DEF PairsInv, Listed, Stamped, T!TypeOK, T!Times
<1> QED
  BY <1>2, <1>3 DEF PairsInv, SpentOnce, T!ExchangedOnce, T!PairsLogged
-----------------------------------------------------------------------------
\* Accounts.  A row and the count of misses belong together: what five misses
\* since the count last started anew have done to the row.
Settled(a, m) ==
    /\ a.failed <= 5
    /\ IF a.locked THEN IF a.until > now THEN m >= 5 ELSE m = 0
                   ELSE m = a.failed /\ a.failed < 5
\* The misses once the handler's first commit is done.
After(w) ==
    CASE w.deed = "missed" -> misses[w.key] + 1
      [] w.deed \in {"USER_UNLOCKED", "PASSWORD_RESET_SUCCESS"} -> 0
      [] OTHER -> misses[w.key]
\* Alone, a handler holds the row as it is.  A login is between the reset of the
\* column and its answer, which ends the count, Midway.
Midway(w, u) == w.op = "account" /\ w.key = u /\ w.deed = "LOGIN_SUCCESS" /\ w.stage \in {"audit", "answer"}
Login(w) ==
    /\ misses[w.key] < 5 /\ Settled(w.new, 0)
    /\ IF w.stage = "store" THEN Settled(accounts[w.key], misses[w.key]) ELSE w.new = accounts[w.key]
Other(w) ==
    /\ Settled(accounts[w.key], misses[w.key])
    /\ Settled(w.new, IF w.stage = "store" THEN After(w) ELSE misses[w.key])
Holds(w) ==
    /\ w.seen = accounts[w.key]
    /\ IF w.deed = "LOGIN_SUCCESS" THEN Login(w) ELSE Other(w)
    /\ w.stage = "store" /\ w.deed = "PASSWORD_RESET_SUCCESS" => resets[w.reset] = A!Used /\ resetsDone[w.reset] = 0

Work == [op: {"account"}, stage: {"store", "audit", "answer", "issue", "last"}, key: Logins,
         seen: A!Account, new: A!Account, deed: A!Deeds \cup {"none", "missed"}, reset: Resets \cup {"none"}]
LoginRow(u) == [deed |-> "LOGIN_SUCCESS", user |-> u, at |-> now]
AccountWork(w) ==
    /\ w \in Work
    /\ w.stage = "answer" => w.deed = "LOGIN_SUCCESS" /\ LoginRow(w.key) \in trail
    /\ w.stage = "issue" => w.deed = "PASSWORD_RESET_TOKEN_ISSUED" /\ w.reset \in Resets
    /\ w.stage = "last" => w.deed = "none"
    /\ w.deed = "PASSWORD_RESET_SUCCESS" => w.reset \in Resets
    /\ alone => Holds(w)
ConsumeWork(w) ==
    \E r \in Resets, u \in Logins, p \in Passwords :
        /\ w = [op |-> "consume", reset |-> r, user |-> u, password |-> p]
        /\ alone => resets[r] # A!Used
LockWork(w) == w = Idle \/ ConsumeWork(w) \/ AccountWork(w)

ResetRow == \E row \in trail : row.deed = "PASSWORD_RESET_SUCCESS"
AtReset(w) == w.op = "account" /\ w.stage = "audit" /\ w.deed = "PASSWORD_RESET_SUCCESS"
ResetTold == (\E r \in Resets : resetsDone[r] > 0) => ResetRow
AccountTypes ==
    /\ now \in 0 .. MaxTime
    /\ accounts \in [Logins -> A!Account]
    /\ \A r \in Resets : resets[r] \in {A!None, A!Used}
                         \/ (resets[r].user \in Logins /\ resets[r].until \in 0 .. MaxTime + ResetTime)
    /\ DOMAIN resets = Resets
    /\ trail \subseteq [deed: A!Deeds, user: Logins, at: 0 .. MaxTime]
    /\ misses \in [Logins -> Nat]
    /\ resetsDone \in [Resets -> Nat]
    /\ cut \in BOOLEAN
    /\ \A e \in entries : [deed |-> "LOGIN_SUCCESS", user |-> e[1], at |-> e[2]] \in trail
ResetsOnce == \A r \in Resets : resetsDone[r] <= 1 /\ (resets[r] # A!Used => resetsDone[r] = 0)
LockInv ==
    /\ AccountTypes
    /\ alone => ResetsOnce
    /\ part = "lock" =>
        /\ \A s \in Sessions : LockWork(sess[s])
        /\ ~cut => ResetTold \/ \E s \in Sessions : AtReset(sess[s])
        /\ alone => \A u \in Logins : Settled(accounts[u], misses[u]) \/ \E s \in Sessions : Midway(sess[s], u)
    /\ part # "lock" =>
        /\ ~cut => ResetTold
        /\ \A u \in Logins : Settled(accounts[u], misses[u])
LockGoal == InTurn /\ LockInv
Shut == alone => \A e \in entries' \ entries : misses[e[1]] < 5

LEMMA LockKinds ==
    ASSUME NEW w, LockWork(w)
    PROVE  /\ w.op = "account" => AccountWork(w)
           /\ w.op = "consume" => ConsumeWork(w)
<1>1. ConsumeWork(w) => w.op = "consume"
  BY DEF ConsumeWork
<1>2. AccountWork(w) => w.op = "account"
  BY DEF AccountWork, Work
<1> QED
  BY <1>1, <1>2 DEF LockWork, Idle

LEMMA AccountMerge ==
    ASSUME NEW row \in A!Account, NEW q \in A!Account, NEW n \in A!Account
    PROVE  /\ A!Merge(row, q, n) \in A!Account
           /\ row = q => A!Merge(row, q, n) = n
<1> DEFINE m == A!Merge(row, q, n)
<1>1. /\ DOMAIN row = {"active", "locked", "failed", "until", "password"}
      /\ DOMAIN n = DOMAIN row
  BY DEF A!Account
<1>2. m = [active   |-> IF n.active = q.active THEN row.active ELSE n.active,
           locked   |-> IF n.locked = q.locked THEN row.locked ELSE n.locked,
           failed   |-> IF n.failed = q.failed THEN row.failed ELSE n.failed,
           until    |-> IF n.until = q.until THEN row.until ELSE n.until,
           password |-> IF n.password = q.password THEN row.password ELSE n.password]
  BY <1>1 DEF A!Merge
<1> HIDE DEF m
<1>3. m \in A!Account
  BY <1>2 DEF A!Account
<1>4. row = q => m = n
  BY <1>1, <1>2 DEF A!Account
<1> QED
  BY <1>3, <1>4 DEF m

\* What a handler stores is an account, and settled if what it loaded was.
LEMMA AccountsSettle ==
    ASSUME AccountTypes, NEW a \in A!Account, NEW m \in Nat, Settled(a, m)
    PROVE  /\ ~A!Locked(a) => m < 5 /\ Settled(A!SeenAtLogin(a), m) /\ Settled(A!Counted(A!SeenAtLogin(a)), 0)
                              /\ Settled(A!Missed(A!SeenAtLogin(a)), m + 1)
           /\ Settled(A!Open(a), 0)
           /\ \A p \in Passwords : /\ Settled([a EXCEPT !.password = p], m)
                                   /\ Settled([A!Open(a) EXCEPT !.password = p], 0)
           /\ Settled([a EXCEPT !.active = FALSE], m)
<1>1. now \in 0 .. MaxTime /\ LockTime \in Nat \ {0} /\ MaxTime \in Nat
  BY AccountsAssumption DEF AccountTypes
<1>2. ASSUME ~A!Locked(a)
      PROVE  m < 5 /\ Settled(A!SeenAtLogin(a), m) /\ Settled(A!Counted(A!SeenAtLogin(a)), 0)
  BY <1>1, <1>2 DEF Settled, A!Account, A!Locked, A!SeenAtLogin, A!Counted, A!Open
<1>3. ASSUME ~A!Locked(a) PROVE Settled(A!Missed(A!SeenAtLogin(a)), m + 1)
  <2>1. CASE a.locked
    BY <1>1, <1>3, <2>1 DEF Settled, A!Account, A!Locked, A!SeenAtLogin, A!Missed, A!Open
  <2>2. CASE ~a.locked
    BY <1>1, <1>3, <2>2 DEF Settled, A!Account, A!Locked, A!SeenAtLogin, A!Missed
  <2> QED
    BY <2>1, <2>2
<1>4. Settled(A!Open(a), 0)
  BY DEF Settled, A!Account, A!Open
<1>5. \A p \in Passwords : Settled([a EXCEPT !.password = p], m) /\ Settled([A!Open(a) EXCEPT !.password = p], 0)
  BY <1>1 DEF Settled, A!Account, A!Open
<1>6. Settled([a EXCEPT !.active = FALSE], m)
  BY <1>1 DEF Settled, A!Account
<1> QED
  BY <1>2, <1>3, <1>4, <1>5, <1>6

LEMMA AccountsTyped ==
    ASSUME AccountTypes, NEW a \in A!Account
    PROVE  /\ A!SeenAtLogin(a) \in A!Account
           /\ A!Counted(A!SeenAtLogin(a)) \in A!Account
           /\ A!Missed(A!SeenAtLogin(a)) \in A!Account
           /\ A!Open(a) \in A!Account
           /\ \A p \in Passwords : /\ [a EXCEPT !.password = p] \in A!Account
                                   /\ [A!Open(a) EXCEPT !.password = p] \in A!Account
           /\ [a EXCEPT !.active = FALSE] \in A!Account
<1>0. now \in 0 .. MaxTime /\ LockTime \in Nat \ {0} /\ MaxTime \in Nat
  BY AccountsAssumption DEF AccountTypes
<1>1. 0 \in 0 .. MaxTime + LockTime /\ now + LockTime \in 0 .. MaxTime + LockTime
  BY <1>0
<1>2. A!Open(a) \in A!Account
  BY <1>1 DEF A!Account, A!Open
<1>3. ASSUME NEW b \in A!Account
      PROVE  /\ A!Counted(b) \in A!Account /\ A!Missed(b) \in A!Account
             /\ \A p \in Passwords : [b EXCEPT !.password = p] \in A!Account
             /\ [b EXCEPT !.active = FALSE] \in A!Account
  <2>1. A!Missed(b) \in A!Account
    <3>1. b.failed + 1 \in Nat
      BY DEF A!Account
    <3>2. [b EXCEPT !.failed = @ + 1] \in A!Account
      BY <3>1 DEF A!Account
    <3>3. [b EXCEPT !.failed = @ + 1, !.locked = TRUE, !.until = now + LockTime] \in A!Account
      BY <1>1, <3>1 DEF A!Account
    <3> QED
      BY <3>2, <3>3 DEF A!Missed
  <2>2. A!Counted(b) \in A!Account
    BY DEF A!Account, A!Counted
  <2> QED
    BY <2>1, <2>2 DEF A!Account
<1>4. A!SeenAtLogin(a) \in A!Account
  BY <1>2 DEF A!SeenAtLogin
<1> QED
  BY <1>2, <1>3, <1>4

LEMMA LockOthers ==
    ASSUME LockInv, InTurn, part = "lock", NEW s \in Sessions, NEW w, Turns(s, w),
           now' = now, trail \subseteq trail'
    PROVE  \A t \in Sessions \ {s} : LockWork(sess[t])' /\ (alone => ~AtReset(sess[t]))
<1> SUFFICES ASSUME NEW t \in Sessions \ {s} PROVE LockWork(sess[t])' /\ (alone => ~AtReset(sess[t]))
  OBVIOUS
<1>1. sess'[t] = sess[t] /\ (alone => sess[t] = Idle) /\ alone' = alone
  BY TurnKeeps DEF Turns
<1>2. PICK v : v = sess[t] /\ v = sess'[t]
  BY <1>1
<1>3. LockWork(v)
  BY <1>2 DEF LockInv
<1>4. ASSUME v = Idle PROVE LockWork(v)'
  BY <1>4 DEF LockWork
<1>5. ASSUME v # Idle PROVE LockWork(v)'
  <2>1. ~alone /\ ~alone'
    BY <1>1, <1>2, <1>5
  <2>2. ConsumeWork(v) => ConsumeWork(v)'
    BY <2>1 DEF ConsumeWork
  <2>3. AccountWork(v) => AccountWork(v)'
    BY <2>1 DEF AccountWork, LoginRow, Work
  <2> QED
    BY <1>3, <1>5, <2>2, <2>3 DEF LockWork
<1> QED
  BY <1>1, <1>2, <1>4, <1>5 DEF AtReset, Idle

\* A step of the handler s keeps the invariant if the tables and what s has read do.
LEMMA LockTurn ==
    ASSUME LockInv, InTurn, part = "lock", part' = part, NEW s \in Sessions, NEW w, Turns(s, w),
           now' = now, trail \subseteq trail', LockWork(w)', AccountTypes',
           alone => ResetsOnce',
           ~cut' => ResetTold' \/ AtReset(w) \/ \E t \in Sessions \ {s} : AtReset(sess[t]),
           alone => \A u \in Logins : Settled(accounts[u], misses[u])' \/ Midway(w, u)
    PROVE  LockGoal'
<1>1. InTurn' /\ sess'[s] = w /\ alone' = alone /\ \A t \in Sessions \ {s} : sess'[t] = sess[t]
  BY TurnKeeps DEF Turns
<1>2. \A t \in Sessions : LockWork(sess[t])'
  BY <1>1, LockOthers
<1>3. ~cut' => ResetTold' \/ \E t \in Sessions : AtReset(sess'[t])
  BY <1>1
<1>4. alone' => \A u \in Logins : Settled(accounts[u], misses[u])' \/ \E t \in Sessions : Midway(sess'[t], u)
  BY <1>1
<1> QED
  BY <1>1, <1>2, <1>3, <1>4 DEF LockGoal, LockInv, AtReset, Midway

LEMMA LockSame ==
    ASSUME UNCHANGED lock
    PROVE  /\ UNCHANGED <<now, accounts, resets, trail, entries, misses, resetsDone, cut>>
           /\ AccountTypes => AccountTypes'
           /\ ResetsOnce => ResetsOnce'
           /\ ResetTold => ResetTold'
           /\ \A a, m : Settled(a, m) => Settled(a, m)'
           /\ \A w : Holds(w) => Holds(w)'
<1>1. UNCHANGED <<now, accounts, resets, trail, entries, misses, resetsDone, cut>>
  BY DEF lock
<1>2. AccountTypes => AccountTypes'
  BY <1>1 DEF AccountTypes
<1>3. \A a, m : Settled(a, m) => Settled(a, m)'
  BY <1>1 DEF Settled
<1>4. \A w : Holds(w) => Holds(w)'
  BY <1>1, <1>3 DEF Holds, Login, Other, After
<1> QED
  BY <1>1, <1>2, <1>3, <1>4 DEF ResetsOnce, ResetTold, ResetRow

\* Whom nobody is logging in is settled; alone, that is everybody but the user of
\* the handler at work.
LEMMA LockSettled ==
    ASSUME LockInv, InTurn, part = "lock", alone, NEW s \in Sessions, NEW u \in Logins,
           ~Midway(sess[s], u),
           sess[s] # Idle \/ \A t \in Sessions : sess[t] = Idle
    PROVE  Settled(accounts[u], misses[u])
<1>1. \A t \in Sessions \ {s} : sess[t] = Idle
  BY DEF InTurn
<1>2. \A t \in Sessions : ~Midway(sess[t], u)
  BY <1>1 DEF Midway, Idle
<1> QED
  BY <1>2 DEF LockInv

\* A handler that begins.
LEMMA LockBegin ==
    ASSUME LockInv, InTurn, part = "lock", part' = part, NEW s \in Sessions, NEW w, A!Begin(s, w),
           UNCHANGED lock, LockWork(w)'
    PROVE  LockGoal' /\ Shut
<1>1. Turns(s, w) /\ sess[s] = Idle
  BY DEF A!Begin, A!Go, A!Idle, Turns, Idle
<1>2. alone => \A u \in Logins : Settled(accounts[u], misses[u])'
  <2> SUFFICES ASSUME alone, NEW u \in Logins PROVE Settled(accounts[u], misses[u])'
    BY LockSame
  <2>1. Settled(accounts[u], misses[u])
    BY <1>1, LockSettled DEF Midway, Idle, Turns
  <2>2. PICK a, m : a = accounts[u] /\ m = misses[u] /\ a = accounts'[u] /\ m = misses'[u]
    BY LockSame
  <2>3. Settled(a, m)'
    BY <2>1, <2>2, LockSame
  <2> QED
    BY <2>2, <2>3
<1>3. ~cut' => ResetTold' \/ AtReset(w) \/ \E t \in Sessions \ {s} : AtReset(sess[t])
  BY <1>1, LockSame DEF LockInv, AtReset, Idle
<1>4. AccountTypes' /\ (alone => ResetsOnce') /\ now' = now /\ trail \subseteq trail'
  BY LockSame DEF LockInv
<1>5. Shut
  BY LockSame DEF Shut
<1> QED
  BY <1>1, <1>2, <1>3, <1>4, <1>5, LockTurn

\* A handler that begins with a row it has loaded, and what it will make of it.
Makes(stage, deed, new, m) ==
    CASE deed = "LOGIN_SUCCESS" -> m < 5 /\ Settled(new, 0)
      [] stage = "store" /\ deed = "missed" -> Settled(new, m + 1)
      [] stage = "store" /\ deed = "USER_UNLOCKED" -> Settled(new, 0)
      [] OTHER -> Settled(new, m)
LEMMA LockLoad ==
    ASSUME LockInv, InTurn, part = "lock", part' = part, NEW s \in Sessions, UNCHANGED lock,
           NEW u \in Logins, NEW stage \in {"store", "audit", "issue", "last"}, NEW new \in A!Account,
           NEW deed \in A!Deeds \cup {"none", "missed"}, NEW reset \in Resets \cup {"none"},
           A!Begin(s, [op |-> "account", stage |-> stage, key |-> u, seen |-> accounts[u], new |-> new,
                       deed |-> deed, reset |-> reset]),
           stage = "issue" => deed = "PASSWORD_RESET_TOKEN_ISSUED" /\ reset \in Resets,
           stage = "last" => deed = "none",
           deed # "PASSWORD_RESET_SUCCESS",
           deed = "LOGIN_SUCCESS" => stage = "store",
           Settled(accounts[u], misses[u]) => Makes(stage, deed, new, misses[u])
    PROVE  LockGoal' /\ Shut
<1>1. PICK seen : seen = accounts[u]
  OBVIOUS
<1>2. seen \in A!Account
  BY <1>1 DEF LockInv, AccountTypes
<1>3. PICK w : w = [op |-> "account", stage |-> stage, key |-> u, seen |-> seen, new |-> new,
                    deed |-> deed, reset |-> reset]
  OBVIOUS
<1>4. /\ w.op = "account" /\ w.stage = stage /\ w.key = u /\ w.seen = seen /\ w.new = new
      /\ w.deed = deed /\ w.reset = reset /\ w \in Work
  BY <1>2, <1>3 DEF Work
<1>5. A!Begin(s, w)
  BY <1>1, <1>3
<1>6. ASSUME alone PROVE Holds(w)
  <2>0. sess[s] = Idle /\ \A t \in Sessions : sess[t] = Idle
    BY <1>5, <1>6 DEF A!Begin, A!Idle, Idle
  <2>00. sess[s].op = "idle"
    BY <2>0 DEF Idle
  <2>01. ~Midway(sess[s], u)
    BY <2>00 DEF Midway
  <2>1. Settled(accounts[u], misses[u])
    BY <1>6, <2>0, <2>01, LockSettled
  <2>2. CASE deed = "LOGIN_SUCCESS"
    BY <1>1, <1>4, <2>1, <2>2 DEF Holds, Login, Makes
  <2>3. CASE deed # "LOGIN_SUCCESS"
    <3>1. Settled(new, IF stage = "store" THEN After(w) ELSE misses[u])
      BY <1>4, <2>1, <2>3 DEF After, Makes
    <3> QED
      BY <1>1, <1>4, <2>1, <2>3, <3>1 DEF Holds, Other
  <2> QED
    BY <2>2, <2>3
<1>7. AccountWork(w)
  BY <1>4, <1>6 DEF AccountWork
<1>8. alone' = alone
  BY <1>5 DEF A!Begin, A!Go
<1>9. AccountWork(w)'
  BY <1>4, <1>7, <1>8, LockSame DEF AccountWork, Work
<1> QED
  BY <1>5, <1>9, LockBegin DEF LockWork

LEMMA Tagged ==
    ASSUME NEW op, NEW stage, NEW key, NEW seen, NEW new, NEW deed, NEW none, NEW reset
    PROVE  [[op |-> op, stage |-> stage, key |-> key, seen |-> seen, new |-> new, deed |-> deed, reset |-> none]
               EXCEPT !.reset = reset] =
           [op |-> op, stage |-> stage, key |-> key, seen |-> seen, new |-> new, deed |-> deed, reset |-> reset]
  OBVIOUS

LEMMA LockRequest ==
    ASSUME LockInv, InTurn, part = "lock", part' = part, NEW s \in Sessions, UNCHANGED lock, A!Request(s)
    PROVE  LockGoal' /\ Shut
<1>1. \A u \in Logins : accounts[u] \in A!Account /\ misses[u] \in Nat
  BY DEF LockInv, AccountTypes
<1>2. AccountTypes
  BY DEF LockInv
<1>3. ASSUME NEW u \in Logins, A!LoginRefused(s, u) PROVE LockGoal' /\ Shut
  <2>1. PICK new : new = accounts[u]
    OBVIOUS
  <2>2. A!Begin(s, A!Work("audit", u, new, "none"))
    BY <1>3, <2>1 DEF A!LoginRefused
  <2>3. new \in A!Account
    BY <1>1, <2>1
  <2>4. Settled(accounts[u], misses[u]) => Makes("audit", "none", new, misses[u])
    BY <2>1 DEF Makes
  <2>5. A!Begin(s, [op |-> "account", stage |-> "audit", key |-> u, seen |-> accounts[u], new |-> new,
                    deed |-> "none", reset |-> "none"])
    BY <2>2 DEF A!Work
  <2>6. "none" \in A!Deeds \cup {"none", "missed"} /\ "none" \in Resets \cup {"none"}
    BY DEF A!Deeds
  <2> QED
    BY <2>3, <2>4, <2>5, <2>6, LockLoad
<1>4. ASSUME NEW u \in Logins, A!LoginWrong(s, u) PROVE LockGoal' /\ Shut
  <2>1. PICK new : new = A!Missed(A!SeenAtLogin(accounts[u]))
    OBVIOUS
  <2>2. A!Begin(s, A!Work("store", u, new, "missed")) /\ ~A!Locked(accounts[u])
    BY <1>4, <2>1 DEF A!LoginWrong
  <2>3. new \in A!Account /\ (Settled(accounts[u], misses[u]) => Settled(new, misses[u] + 1))
    BY <1>1, <1>2, <2>1, <2>2, AccountsSettle, AccountsTyped
  <2>4. Settled(accounts[u], misses[u]) => Makes("store", "missed", new, misses[u])
    BY <2>3 DEF Makes
  <2>5. A!Begin(s, [op |-> "account", stage |-> "store", key |-> u, seen |-> accounts[u], new |-> new,
                    deed |-> "missed", reset |-> "none"])
    BY <2>2 DEF A!Work
  <2>6. "missed" \in A!Deeds \cup {"none", "missed"} /\ "none" \in Resets \cup {"none"}
    BY DEF A!Deeds
  <2> QED
    BY <2>3, <2>4, <2>5, <2>6, LockLoad
<1>5. ASSUME NEW u \in Logins, A!LoginEarly(s, u) PROVE LockGoal' /\ Shut
  <2>1. PICK new : new = A!SeenAtLogin(accounts[u])
    OBVIOUS
  <2>2. A!Begin(s, A!Work("audit", u, new, "none")) /\ ~A!Locked(accounts[u])
    BY <1>5, <2>1 DEF A!LoginEarly
  <2>3. new \in A!Account /\ (Settled(accounts[u], misses[u]) => Settled(new, misses[u]))
    BY <1>1, <1>2, <2>1, <2>2, AccountsSettle, AccountsTyped
  <2>4. Settled(accounts[u], misses[u]) => Makes("audit", "none", new, misses[u])
    BY <2>3 DEF Makes
  <2>5. A!Begin(s, [op |-> "account", stage |-> "audit", key |-> u, seen |-> accounts[u], new |-> new,
                    deed |-> "none", reset |-> "none"])
    BY <2>2 DEF A!Work
  <2>6. "none" \in A!Deeds \cup {"none", "missed"} /\ "none" \in Resets \cup {"none"}
    BY DEF A!Deeds
  <2> QED
    BY <2>3, <2>4, <2>5, <2>6, LockLoad
<1>6. ASSUME NEW u \in Logins, A!LoginRight(s, u) PROVE LockGoal' /\ Shut
  <2>1. PICK new : new = A!Counted(A!SeenAtLogin(accounts[u]))
    OBVIOUS
  <2>2. A!Begin(s, A!Work("store", u, new, "LOGIN_SUCCESS")) /\ ~A!Locked(accounts[u])
    BY <1>6, <2>1 DEF A!LoginRight
  <2>3. new \in A!Account /\ (Settled(accounts[u], misses[u]) => misses[u] < 5 /\ Settled(new, 0))
    BY <1>1, <1>2, <2>1, <2>2, AccountsSettle, AccountsTyped
  <2>4. Settled(accounts[u], misses[u]) => Makes("store", "LOGIN_SUCCESS", new, misses[u])
    BY <2>3 DEF Makes
  <2>5. A!Begin(s, [op |-> "account", stage |-> "store", key |-> u, seen |-> accounts[u], new |-> new,
                    deed |-> "LOGIN_SUCCESS", reset |-> "none"])
    BY <2>2 DEF A!Work
  <2>6. "LOGIN_SUCCESS" \in A!Deeds \cup {"none", "missed"} /\ "none" \in Resets \cup {"none"}
    BY DEF A!Deeds
  <2> QED
    BY <2>3, <2>4, <2>5, <2>6, LockLoad
<1>7. ASSUME NEW u \in Logins, A!UnlockUser(s, u) PROVE LockGoal' /\ Shut
  <2>1. PICK new : new = A!Open(accounts[u])
    OBVIOUS
  <2>2. A!Begin(s, A!Work("store", u, new, "USER_UNLOCKED"))
    BY <1>7, <2>1 DEF A!UnlockUser
  <2>3. new \in A!Account /\ (Settled(accounts[u], misses[u]) => Settled(new, 0))
    BY <1>1, <1>2, <2>1, AccountsSettle, AccountsTyped
  <2>4. Settled(accounts[u], misses[u]) => Makes("store", "USER_UNLOCKED", new, misses[u])
    BY <2>3 DEF Makes
  <2>5. A!Begin(s, [op |-> "account", stage |-> "store", key |-> u, seen |-> accounts[u], new |-> new,
                    deed |-> "USER_UNLOCKED", reset |-> "none"])
    BY <2>2 DEF A!Work
  <2>6. "USER_UNLOCKED" \in A!Deeds \cup {"none", "missed"} /\ "none" \in Resets \cup {"none"}
    BY DEF A!Deeds
  <2> QED
    BY <2>3, <2>4, <2>5, <2>6, LockLoad
<1>8. ASSUME NEW u \in Logins, A!Deactivate(s, u) PROVE LockGoal' /\ Shut
  <2>1. PICK new : new = [accounts[u] EXCEPT !.active = FALSE]
    OBVIOUS
  <2>2. A!Begin(s, A!Work("last", u, new, "none"))
    BY <1>8, <2>1 DEF A!Deactivate
  <2>3. new \in A!Account /\ (Settled(accounts[u], misses[u]) => Settled(new, misses[u]))
    BY <1>1, <1>2, <2>1, AccountsSettle, AccountsTyped
  <2>4. Settled(accounts[u], misses[u]) => Makes("last", "none", new, misses[u])
    BY <2>3 DEF Makes
  <2>5. A!Begin(s, [op |-> "account", stage |-> "last", key |-> u, seen |-> accounts[u], new |-> new,
                    deed |-> "none", reset |-> "none"])
    BY <2>2 DEF A!Work
  <2>6. "none" \in A!Deeds \cup {"none", "missed"} /\ "none" \in Resets \cup {"none"}
    BY DEF A!Deeds
  <2> QED
    BY <2>3, <2>4, <2>5, <2>6, LockLoad
<1>9. ASSUME NEW u \in Logins, NEW r \in Resets, A!ForgotPassword(s, u, r) PROVE LockGoal' /\ Shut
  <2>1. PICK new : new = accounts[u]
    OBVIOUS
  <2>2. A!Begin(s, [A!Work("issue", u, new, "PASSWORD_RESET_TOKEN_ISSUED") EXCEPT !.reset = r])
    BY <1>9, <2>1 DEF A!ForgotPassword
  <2>3. A!Begin(s, [op |-> "account", stage |-> "issue", key |-> u, seen |-> accounts[u], new |-> new,
                    deed |-> "PASSWORD_RESET_TOKEN_ISSUED", reset |-> r])
    <3>1. [A!Work("issue", u, new, "PASSWORD_RESET_TOKEN_ISSUED") EXCEPT !.reset = r] =
          [op |-> "account", stage |-> "issue", key |-> u, seen |-> accounts[u], new |-> new,
           deed |-> "PASSWORD_RESET_TOKEN_ISSUED", reset |-> r]
      BY Tagged DEF A!Work
    <3> QED
      BY <2>2, <3>1
  <2>4. new \in A!Account
    BY <1>1, <2>1
  <2>5. Settled(accounts[u], misses[u]) => Makes("issue", "PASSWORD_RESET_TOKEN_ISSUED", new, misses[u])
    BY <2>1 DEF Makes
  <2>6. "PASSWORD_RESET_TOKEN_ISSUED" \in A!Deeds \cup {"none", "missed"} /\ r \in Resets \cup {"none"}
    BY DEF A!Deeds
  <2> QED
    BY <2>3, <2>4, <2>5, <2>6, LockLoad
<1>10. ASSUME NEW u \in Logins, NEW p \in Passwords, A!ChangePassword(s, u, p) PROVE LockGoal' /\ Shut
  <2>1. PICK new : new = [accounts[u] EXCEPT !.password = p]
    OBVIOUS
  <2>2. A!Begin(s, A!Work("store", u, new, "PASSWORD_CHANGE_SUCCESS"))
    BY <1>10, <2>1 DEF A!ChangePassword
  <2>3. new \in A!Account /\ (Settled(accounts[u], misses[u]) => Settled(new, misses[u]))
    BY <1>1, <1>2, <2>1, AccountsSettle, AccountsTyped
  <2>4. Settled(accounts[u], misses[u]) => Makes("store", "PASSWORD_CHANGE_SUCCESS", new, misses[u])
    BY <2>3 DEF Makes
  <2>5. A!Begin(s, [op |-> "account", stage |-> "store", key |-> u, seen |-> accounts[u], new |-> new,
                    deed |-> "PASSWORD_CHANGE_SUCCESS", reset |-> "none"])
    BY <2>2 DEF A!Work
  <2>6. "PASSWORD_CHANGE_SUCCESS" \in A!Deeds \cup {"none", "missed"} /\ "none" \in Resets \cup {"none"}
    BY DEF A!Deeds
  <2> QED
    BY <2>3, <2>4, <2>5, <2>6, LockLoad
<1>11. ASSUME NEW r \in Resets, NEW p \in Passwords, A!ResetPassword(s, r, p) PROVE LockGoal' /\ Shut
  <2>1. PICK w : w = [op |-> "consume", reset |-> r, user |-> resets[r].user, password |-> p]
    OBVIOUS
  <2>2. A!Begin(s, w) /\ resets[r] \notin {A!None, A!Used}
    BY <1>11, <2>1 DEF A!ResetPassword, A!MayConsume
  <2>3. resets[r].user \in Logins /\ resets'[r] = resets[r]
    BY <2>2, LockSame DEF LockInv, AccountTypes
  <2>4. ConsumeWork(w)'
    BY <2>1, <2>2, <2>3 DEF ConsumeWork
  <2> QED
    BY <2>2, <2>4, LockBegin DEF LockWork
<1> QED
  BY <1>3, <1>4, <1>5, <1>6, <1>7, <1>8, <1>9, <1>10, <1>11 DEF A!Request

\* What the handler at work knows, and that it is not the one that owes a reset's row.
LEMMA LockAt ==
    ASSUME LockInv, InTurn, part = "lock", NEW s \in Sessions, sess[s].op = "account"
    PROVE  /\ AccountWork(sess[s]) /\ sess[s] # Idle /\ sess[s].key \in Logins
           /\ accounts[sess[s].key] \in A!Account
           /\ sess[s].seen \in A!Account /\ sess[s].new \in A!Account
           /\ alone => Holds(sess[s])
           /\ ~cut => ResetTold \/ AtReset(sess[s]) \/ \E t \in Sessions \ {s} : AtReset(sess[t])
<1>1. AccountWork(sess[s])
  BY LockKinds DEF LockInv
<1>2. sess[s] \in Work
  BY <1>1 DEF AccountWork
<1>3. sess[s].key \in Logins /\ sess[s].seen \in A!Account /\ sess[s].new \in A!Account
  BY <1>2 DEF Work
<1> QED
  BY <1>1, <1>3 DEF LockInv, AccountTypes, AccountWork, Idle

\* The second stage of a handler: the record changes its stage, and perhaps what it has seen.
LEMMA LaterStage ==
    ASSUME NEW w \in Work, NEW stage \in {"store", "audit", "answer", "issue", "last"}
    PROVE  \E v \in Work :
              /\ v = [w EXCEPT !.stage = stage]
              /\ v.stage = stage /\ v.key = w.key /\ v.seen = w.seen /\ v.new = w.new /\ v.deed = w.deed
              /\ v.reset = w.reset /\ v.op = "account"
<1> DEFINE v == [op |-> "account", stage |-> stage, key |-> w.key, seen |-> w.seen, new |-> w.new,
                deed |-> w.deed, reset |-> w.reset]
<1>1. v = [w EXCEPT !.stage = stage]
  BY DEF Work
<1>2. v \in Work
  BY DEF Work
<1>3. /\ v.stage = stage /\ v.key = w.key /\ v.seen = w.seen /\ v.new = w.new /\ v.deed = w.deed
      /\ v.reset = w.reset /\ v.op = "account"
  OBVIOUS
<1> HIDE DEF v
<1> QED
  BY <1>1, <1>2, <1>3

Carries(v, w, stage, a) ==
    /\ v.op = "account" /\ v.stage = stage /\ v.key = w.key /\ v.seen = a
    /\ v.new = w.new /\ v.deed = w.deed /\ v.reset = w.reset
Onward(w, stage, a) == [w EXCEPT !.stage = stage, !.seen = a]
LEMMA NextStage ==
    ASSUME NEW w \in Work, NEW stage \in {"store", "audit", "answer", "issue", "last"}, NEW a \in A!Account
    PROVE  Onward(w, stage, a) \in Work /\ Carries(Onward(w, stage, a), w, stage, a)
<1>01. ASSUME NEW q \in Work
       PROVE  [op |-> "account", stage |-> q.stage, key |-> q.key, seen |-> a, new |-> q.new,
               deed |-> q.deed, reset |-> q.reset] = [q EXCEPT !.seen = a]
  BY DEF Work
<1> DEFINE q == [op |-> "account", stage |-> stage, key |-> w.key, seen |-> w.seen, new |-> w.new,
                deed |-> w.deed, reset |-> w.reset]
<1>0. q = [w EXCEPT !.stage = stage] /\ q \in Work
  BY DEF Work
<1>1. /\ q = [w EXCEPT !.stage = stage] /\ q \in Work
      /\ q.stage = stage /\ q.key = w.key /\ q.new = w.new /\ q.deed = w.deed /\ q.reset = w.reset
  BY <1>0
<1> HIDE DEF q
<1>2. \A x : [x EXCEPT !.stage = stage, !.seen = a] = [[x EXCEPT !.stage = stage] EXCEPT !.seen = a]
  BY SMT
<1> DEFINE v == [op |-> "account", stage |-> q.stage, key |-> q.key, seen |-> a, new |-> q.new,
                deed |-> q.deed, reset |-> q.reset]
<1>3. v = [q EXCEPT !.seen = a]
  BY <1>01, <1>1
<1>4. v \in Work
  BY <1>1 DEF Work
<1>5. Carries(v, q, q.stage, a)
  BY DEF Carries
<1> HIDE DEF v
<1>6. v = Onward(w, stage, a)
  BY <1>1, <1>2, <1>3 DEF Onward
<1> QED
  BY <1>1, <1>4, <1>5, <1>6 DEF Carries

LEMMA LockIssue ==
    ASSUME LockInv, InTurn, part = "lock", part' = part, NEW s \in Sessions, A!IssueReset(s)
    PROVE  LockGoal' /\ Shut
<1>1. PICK h : h = sess[s]
  OBVIOUS
<1>2. /\ h.op = "account" /\ h.stage = "issue" /\ resets[h.reset] = A!None
      /\ resets' = [resets EXCEPT ![h.reset] = [user |-> h.key, until |-> now + ResetTime]]
      /\ UNCHANGED <<now, accounts, trail, entries, misses, resetsDone, cut>>
  BY <1>1 DEF A!IssueReset, A!accountGhosts
<1>3. /\ AccountWork(h) /\ h # Idle /\ (alone => Holds(h)) /\ h.key \in Logins
      /\ ~cut => ResetTold \/ AtReset(h) \/ \E t \in Sessions \ {s} : AtReset(sess[t])
  BY <1>1, <1>2, LockAt
<1>4. h \in Work /\ h.deed = "PASSWORD_RESET_TOKEN_ISSUED" /\ h.reset \in Resets
  BY <1>2, <1>3 DEF AccountWork
<1>5. PICK w \in Work :
         /\ w = [h EXCEPT !.stage = "audit"]
         /\ w.stage = "audit" /\ w.key = h.key /\ w.seen = h.seen /\ w.new = h.new /\ w.deed = h.deed
         /\ w.reset = h.reset /\ w.op = "account"
  BY <1>4, LaterStage
<1>6. Turns(s, w)
  BY <1>1, <1>3, <1>5 DEF A!IssueReset, A!Go, Turns
<1>7. AccountTypes'
  <2>1. now + ResetTime \in 0 .. MaxTime + ResetTime
    BY AccountsAssumption DEF LockInv, AccountTypes
  <2>2. \A r \in Resets : resets'[r] \in {A!None, A!Used}
                          \/ (resets'[r].user \in Logins /\ resets'[r].until \in 0 .. MaxTime + ResetTime)
    BY <1>2, <1>3, <2>1 DEF LockInv, AccountTypes
  <2> QED
    BY <1>2, <2>2 DEF LockInv, AccountTypes
<1>8. alone => ResetsOnce'
  <2>1. A!None # A!Used
    BY DEF A!None, A!Used
  <2>2. alone => resetsDone[h.reset] = 0
    BY <1>2, <1>4, <2>1 DEF LockInv, ResetsOnce
  <2> QED
    BY <1>2, <2>2 DEF LockInv, ResetsOnce, AccountTypes
<1>9. LockWork(w)'
  <2>1. ASSUME alone PROVE Holds(w)'
    <3>1. Settled(accounts[h.key], misses[h.key]) /\ Settled(h.new, misses[h.key]) /\ h.seen = accounts[h.key]
      BY <1>2, <1>3, <1>4, <2>1 DEF Holds, Other
    <3> QED
      BY <1>2, <1>4, <1>5, <3>1 DEF Holds, Other, Settled
  <2>2. alone' = alone
    BY <1>6 DEF Turns
  <2>3. AccountWork(w)'
    BY <1>4, <1>5, <2>1, <2>2 DEF AccountWork, Work
  <2> QED
    BY <2>3 DEF LockWork
<1>10. alone => \A u \in Logins : Settled(accounts[u], misses[u])'
  <2>1. alone => \A u \in Logins : Settled(accounts[u], misses[u])
    BY <1>1, <1>2, <1>3, LockSettled DEF Midway
  <2> QED
    BY <1>2, <2>1 DEF Settled
<1>11. ~cut' => ResetTold' \/ AtReset(w) \/ \E t \in Sessions \ {s} : AtReset(sess[t])
  BY <1>2, <1>3 DEF AtReset, ResetTold, ResetRow
<1>12. Shut
  BY <1>2 DEF Shut
<1> QED
  BY <1>2, <1>6, <1>7, <1>8, <1>9, <1>10, <1>11, <1>12, LockTurn

LEMMA LockConsume ==
    ASSUME LockInv, InTurn, part = "lock", part' = part, NEW s \in Sessions, A!ConsumeReset(s)
    PROVE  LockGoal' /\ Shut
<1>1. ConsumeWork(sess[s])
  BY LockKinds DEF LockInv, A!ConsumeReset
<1>2. PICK r \in Resets, u \in Logins, p \in Passwords :
         /\ sess[s] = [op |-> "consume", reset |-> r, user |-> u, password |-> p]
         /\ alone => resets[r] # A!Used
  BY <1>1 DEF ConsumeWork
<1>3. PICK a : a = accounts[u] /\ a \in A!Account
  BY DEF LockInv, AccountTypes
<1>4. PICK new \in A!Account : new = [A!Open(a) EXCEPT !.password = p]
  BY <1>3, AccountsTyped DEF LockInv
<1> DEFINE w == [op |-> "account", stage |-> "store", key |-> u, seen |-> a, new |-> new,
                deed |-> "PASSWORD_RESET_SUCCESS", reset |-> r]
<1>5. /\ resets' = [resets EXCEPT ![r] = A!Used]
      /\ UNCHANGED <<now, accounts, trail, entries, misses, resetsDone, cut>>
  BY <1>2 DEF A!ConsumeReset, A!Consumed, A!accountGhosts
<1>6. A!Go(s, w)
  <2>1. A!Go(s, [A!Work("store", u, new, "PASSWORD_RESET_SUCCESS") EXCEPT !.reset = r])
    BY <1>2, <1>3, <1>4 DEF A!ConsumeReset
  <2>2. [A!Work("store", u, new, "PASSWORD_RESET_SUCCESS") EXCEPT !.reset = r] =
        [op |-> "account", stage |-> "store", key |-> u, seen |-> accounts[u], new |-> new,
         deed |-> "PASSWORD_RESET_SUCCESS", reset |-> r]
    BY Tagged DEF A!Work
  <2> QED
    BY <1>3, <2>1, <2>2
<1>7. Turns(s, w) /\ alone' = alone
  BY <1>2, <1>6 DEF A!Go, Turns, Idle
<1>8. /\ w.op = "account" /\ w.stage = "store" /\ w.key = u /\ w.seen = a /\ w.new = new
      /\ w.deed = "PASSWORD_RESET_SUCCESS" /\ w.reset = r
  OBVIOUS
<1>9. w \in Work
  BY <1>3 DEF Work, A!Deeds
<1> HIDE DEF w
<1>10. AccountTypes'
  BY <1>5 DEF LockInv, AccountTypes
<1>11. alone => ResetsOnce'
  BY <1>5 DEF LockInv, ResetsOnce, AccountTypes
<1>12. alone => \A x \in Logins : Settled(accounts[x], misses[x])
  <2>1. sess[s].op = "consume" /\ sess[s] # Idle
    BY <1>2 DEF Idle
  <2> QED
    BY <2>1, LockSettled DEF Midway
<1>13. alone => \A x \in Logins : Settled(accounts[x], misses[x])'
  BY <1>5, <1>12 DEF Settled
<1>14. ASSUME alone PROVE Holds(w)'
  <2>1. Settled(new, 0)
    BY <1>3, <1>4, <1>12, <1>14, AccountsSettle DEF LockInv, AccountTypes
  <2>2. Settled(new, 0)' /\ Settled(accounts[u], misses[u])'
    BY <1>5, <1>13, <1>14, <2>1 DEF Settled
  <2>3. After(w)' = 0
    BY <1>8 DEF After
  <2>4. resets'[r] = A!Used /\ resetsDone'[r] = 0
    BY <1>2, <1>5, <1>14 DEF LockInv, ResetsOnce, AccountTypes
  <2> QED
    BY <1>3, <1>5, <1>8, <2>2, <2>3, <2>4 DEF Holds, Other, A!Used
<1>15. LockWork(w)'
  <2>1. AccountWork(w)'
    BY <1>7, <1>8, <1>9, <1>14 DEF AccountWork, Work
  <2> QED
    BY <2>1 DEF LockWork
<1>16. ~cut' => ResetTold' \/ AtReset(w) \/ \E t \in Sessions \ {s} : AtReset(sess[t])
  <2>1. ~AtReset(sess[s])
    BY <1>2 DEF AtReset
  <2> QED
    BY <1>5, <2>1 DEF LockInv, ResetTold, ResetRow
<1>17. Shut
  BY <1>5 DEF Shut
<1> QED
  BY <1>5, <1>7, <1>10, <1>11, <1>13, <1>15, <1>16, <1>17, LockTurn

\* The first commit of a handler.
LEMMA LockStore ==
    ASSUME LockInv, InTurn, part = "lock", part' = part, NEW s \in Sessions, A!Store(s)
    PROVE  LockGoal' /\ Shut
<1>1. PICK h : h = sess[s]
  OBVIOUS
<1>2. h.op = "account" /\ h.stage \in {"store", "last"}
  BY <1>1 DEF A!Store, A!At
<1>3. /\ AccountWork(h) /\ h # Idle /\ h.key \in Logins /\ accounts[h.key] \in A!Account
      /\ h.seen \in A!Account /\ h.new \in A!Account /\ (alone => Holds(h))
      /\ ~cut => ResetTold \/ AtReset(h) \/ \E t \in Sessions \ {s} : AtReset(sess[t])
  BY <1>1, <1>2, LockAt
<1>4. h \in Work /\ (h.stage = "last" => h.deed = "none") /\ (h.deed = "PASSWORD_RESET_SUCCESS" => h.reset \in Resets)
  BY <1>3 DEF AccountWork
<1>5. PICK k \in Logins : k = h.key
  BY <1>3
<1>6. PICK row \in A!Account : row = A!Merge(accounts[k], h.seen, h.new) /\ (accounts[k] = h.seen => row = h.new)
  BY <1>3, <1>5, AccountMerge
<1>7. PICK m \in Nat : m = After(h)
  BY <1>3 DEF After, LockInv, AccountTypes
<1>8. /\ accounts' = [accounts EXCEPT ![k] = row]
      /\ UNCHANGED <<now, resets, trail, entries, cut>>
      /\ resetsDone' = IF h.deed = "PASSWORD_RESET_SUCCESS" THEN [resetsDone EXCEPT ![h.reset] = @ + 1] ELSE resetsDone
      /\ misses' = [misses EXCEPT ![k] = m]
  <2>1. misses \in [Logins -> Nat]
    BY DEF LockInv, AccountTypes
  <2>2. misses' = CASE h.deed = "missed" -> [misses EXCEPT ![k] = @ + 1]
                    [] h.deed \in {"USER_UNLOCKED", "PASSWORD_RESET_SUCCESS"} -> [misses EXCEPT ![k] = 0]
                    [] OTHER -> misses
    BY <1>1, <1>5 DEF A!Store, A!CountAnew
  <2>3. misses' = [misses EXCEPT ![k] = m]
    <3>1. CASE h.deed = "missed"
      BY <1>5, <1>7, <2>1, <2>2, <3>1 DEF After
    <3>2. CASE h.deed \in {"USER_UNLOCKED", "PASSWORD_RESET_SUCCESS"}
      BY <1>5, <1>7, <2>1, <2>2, <3>2 DEF After
    <3>3. CASE h.deed \notin {"missed", "USER_UNLOCKED", "PASSWORD_RESET_SUCCESS"}
      BY <1>5, <1>7, <2>1, <2>2, <3>3 DEF After
    <3> QED
      BY <3>1, <3>2, <3>3
  <2>4. accounts' = [accounts EXCEPT ![k] = row]
    BY <1>1, <1>5, <1>6 DEF A!Store, A!Stored
  <2> QED
    BY <1>1, <2>3, <2>4 DEF A!Store
<1>09. PICK b \in A!Account : b = h.new
  BY <1>3
<1>90. PICK v : v = Onward(h, "audit", b)
  OBVIOUS
<1>91. v = [h EXCEPT !.stage = "audit", !.seen = h.new]
  BY <1>09, <1>90 DEF Onward
<1>92. v \in Work /\ Carries(v, h, "audit", b)
  BY <1>4, <1>09, <1>90, NextStage
<1>9. /\ v = [h EXCEPT !.stage = "audit", !.seen = h.new] /\ v \in Work
      /\ v.stage = "audit" /\ v.key = k /\ v.seen = h.new /\ v.new = h.new /\ v.deed = h.deed
      /\ v.reset = h.reset /\ v.op = "account"
  BY <1>5, <1>09, <1>91, <1>92 DEF Carries
<1>10. PICK w : w = IF h.stage = "last" THEN Idle ELSE v
  OBVIOUS
<1>11. Turns(s, w) /\ alone' = alone
  BY <1>1, <1>2, <1>3, <1>9, <1>10 DEF A!Store, A!At, A!AfterStore, A!Finish, A!Go, A!Idle, Idle, Turns
<1>12. AccountTypes'
  BY <1>4, <1>8 DEF LockInv, AccountTypes
<1>13. alone => ResetsOnce'
  BY <1>2, <1>3, <1>4, <1>8 DEF LockInv, ResetsOnce, AccountTypes, Holds
<1>14. ASSUME alone
       PROVE  /\ row = h.new /\ accounts'[k] = h.new /\ misses'[k] = m
              /\ IF h.deed = "LOGIN_SUCCESS" THEN m < 5 /\ Settled(h.new, 0) ELSE Settled(h.new, m)
  <2>1. row = h.new /\ accounts'[k] = h.new /\ misses'[k] = m
    BY <1>3, <1>5, <1>6, <1>8, <1>14 DEF LockInv, AccountTypes, Holds
  <2>2. CASE h.deed = "LOGIN_SUCCESS"
    BY <1>3, <1>5, <1>7, <1>14, <2>1, <2>2 DEF Holds, Login, After
  <2>3. CASE h.deed # "LOGIN_SUCCESS"
    <3>1. h.stage = "last" => misses[k] = m
      BY <1>4, <1>5, <1>7 DEF After
    <3> QED
      BY <1>2, <1>3, <1>5, <1>7, <1>14, <2>1, <2>3, <3>1 DEF Holds, Other
  <2> QED
    BY <2>1, <2>2, <2>3
<1>15. ASSUME alone PROVE Holds(v)'
  <2>1. /\ v.seen = accounts'[v.key] /\ v.new = accounts'[v.key] /\ misses'[v.key] = m /\ v.stage = "audit"
        /\ v.deed = h.deed /\ v.new = h.new
    BY <1>9, <1>14, <1>15
  <2>2. CASE h.deed = "LOGIN_SUCCESS"
    <3>1. m < 5 /\ Settled(v.new, 0)'
      BY <1>8, <1>14, <1>15, <2>1, <2>2 DEF Settled
    <3> QED
      BY <2>1, <2>2, <3>1 DEF Holds, Login
  <2>3. CASE h.deed # "LOGIN_SUCCESS"
    <3>1. Settled(v.new, m)'
      BY <1>8, <1>14, <1>15, <2>1, <2>3 DEF Settled
    <3>2. Other(v)'
      BY <2>1, <3>1 DEF Other
    <3> QED
      BY <2>1, <2>3, <3>2 DEF Holds
  <2> QED
    BY <2>2, <2>3
<1>16. LockWork(w)'
  <2>1. h.stage = "store" => AccountWork(v)'
    BY <1>4, <1>9, <1>11, <1>15 DEF AccountWork, Work
  <2> QED
    BY <1>2, <1>10, <2>1 DEF LockWork
<1>17. alone => \A u \in Logins : Settled(accounts[u], misses[u])' \/ Midway(w, u)
  <2> SUFFICES ASSUME alone, NEW u \in Logins PROVE Settled(accounts[u], misses[u])' \/ Midway(w, u)
    OBVIOUS
  <2>1. CASE u # k
    <3>1. Settled(accounts[u], misses[u])
      BY <1>1, <1>3, <1>5, <2>1, LockSettled DEF Midway
    <3>2. accounts'[u] = accounts[u] /\ misses'[u] = misses[u]
      BY <1>8, <2>1 DEF LockInv, AccountTypes
    <3> QED
      BY <1>8, <3>1, <3>2 DEF Settled
  <2>2. CASE u = k /\ h.deed = "LOGIN_SUCCESS"
    BY <1>2, <1>4, <1>9, <1>10, <2>2 DEF Midway
  <2>3. CASE u = k /\ h.deed # "LOGIN_SUCCESS"
    BY <1>8, <1>14, <2>3 DEF Settled
  <2> QED
    BY <2>1, <2>2, <2>3
<1>18. ~cut' => ResetTold' \/ AtReset(w) \/ \E t \in Sessions \ {s} : AtReset(sess[t])
  <2>1. CASE h.deed = "PASSWORD_RESET_SUCCESS"
    BY <1>2, <1>4, <1>9, <1>10, <2>1 DEF AtReset
  <2>2. CASE h.deed # "PASSWORD_RESET_SUCCESS"
    BY <1>2, <1>3, <1>8, <2>2 DEF AtReset, ResetTold, ResetRow
  <2> QED
    BY <2>1, <2>2
<1>19. Shut
  BY <1>8 DEF Shut
<1> QED
  BY <1>8, <1>11, <1>12, <1>13, <1>16, <1>17, <1>18, <1>19, LockTurn

\* The second commit, with the row of the audit log.
LEMMA LockAudit ==
    ASSUME LockInv, InTurn, part = "lock", part' = part, NEW s \in Sessions, A!Audit(s)
    PROVE  LockGoal' /\ Shut
<1>1. PICK h : h = sess[s]
  OBVIOUS
<1>2. h.op = "account" /\ h.stage = "audit"
  BY <1>1 DEF A!Audit, A!At
<1>3. /\ AccountWork(h) /\ h # Idle /\ h.key \in Logins /\ accounts[h.key] \in A!Account
      /\ h.seen \in A!Account /\ h.new \in A!Account /\ (alone => Holds(h))
      /\ ~cut => ResetTold \/ AtReset(h) \/ \E t \in Sessions \ {s} : AtReset(sess[t])
  BY <1>1, <1>2, LockAt
<1>4. h \in Work
  BY <1>3 DEF AccountWork
<1>5. PICK k \in Logins : k = h.key
  BY <1>3
<1>6. PICK row \in A!Account : row = A!Merge(accounts[k], h.seen, h.new) /\ (accounts[k] = h.seen => row = h.new)
  BY <1>3, <1>5, AccountMerge
<1>7. PICK new : new = [deed |-> h.deed, user |-> k, at |-> now]
  OBVIOUS
<1>8. /\ accounts' = [accounts EXCEPT ![k] = row]
      /\ trail' = IF h.deed \in A!Deeds THEN trail \cup {new} ELSE trail
      /\ UNCHANGED <<now, resets, entries, misses, resetsDone, cut>>
  BY <1>1, <1>5, <1>6, <1>7 DEF A!Audit, A!Stored, A!accountGhosts
<1>9. PICK v \in Work :
         /\ v = [h EXCEPT !.stage = "answer"]
         /\ v.stage = "answer" /\ v.key = h.key /\ v.seen = h.seen /\ v.new = h.new /\ v.deed = h.deed
         /\ v.reset = h.reset /\ v.op = "account"
  BY <1>4, LaterStage
<1>10. PICK w : w = IF h.deed = "LOGIN_SUCCESS" THEN v ELSE Idle
  OBVIOUS
<1>11. Turns(s, w) /\ alone' = alone
  BY <1>1, <1>3, <1>9, <1>10 DEF A!Audit, A!Finish, A!Go, A!Idle, Idle, Turns
<1>12. AccountTypes'
  <2>1. accounts' \in [Logins -> A!Account]
    BY <1>8 DEF LockInv, AccountTypes
  <2>2. h.deed \in A!Deeds => new \in [deed: A!Deeds, user: Logins, at: 0 .. MaxTime]
    BY <1>7 DEF LockInv, AccountTypes
  <2>3. trail \subseteq trail' /\ trail' \subseteq [deed: A!Deeds, user: Logins, at: 0 .. MaxTime]
    BY <1>8, <2>2 DEF LockInv, AccountTypes
  <2> QED
    BY <1>8, <2>1, <2>3 DEF LockInv, AccountTypes
<1>13. alone => ResetsOnce'
  BY <1>8 DEF LockInv, ResetsOnce
<1>14. ASSUME alone
       PROVE  /\ accounts'[k] = h.new /\ h.seen = accounts[k]
              /\ IF h.deed = "LOGIN_SUCCESS" THEN misses[k] < 5 /\ Settled(h.new, 0) /\ h.new = accounts[k]
                                             ELSE Settled(h.new, misses[k])
  <2>1. accounts'[k] = h.new /\ h.seen = accounts[k]
    BY <1>3, <1>5, <1>6, <1>8, <1>14 DEF LockInv, AccountTypes, Holds
  <2>2. CASE h.deed = "LOGIN_SUCCESS"
    BY <1>2, <1>3, <1>5, <1>14, <2>1, <2>2 DEF Holds, Login
  <2>3. CASE h.deed # "LOGIN_SUCCESS"
    BY <1>2, <1>3, <1>5, <1>14, <2>1, <2>3 DEF Holds, Other
  <2> QED
    BY <2>1, <2>2, <2>3
<1>15. ASSUME h.deed = "LOGIN_SUCCESS" PROVE AccountWork(v)'
  <2>1. ASSUME alone PROVE Holds(v)'
    <3>1. Settled(v.new, 0)'
      BY <1>8, <1>9, <1>14, <1>15, <2>1 DEF Settled
    <3> QED
      BY <1>5, <1>8, <1>9, <1>14, <1>15, <2>1, <3>1 DEF Holds, Login
  <2>2. LoginRow(v.key)' \in trail'
    BY <1>5, <1>7, <1>8, <1>9, <1>15 DEF LoginRow, A!Deeds
  <2> QED
    BY <1>9, <1>11, <1>15, <2>1, <2>2 DEF AccountWork, Work
<1>16. LockWork(w)'
  BY <1>10, <1>15 DEF LockWork
<1>17. alone => \A u \in Logins : Settled(accounts[u], misses[u])' \/ Midway(w, u)
  <2> SUFFICES ASSUME alone, NEW u \in Logins PROVE Settled(accounts[u], misses[u])' \/ Midway(w, u)
    OBVIOUS
  <2>1. CASE u # k
    <3>1. Settled(accounts[u], misses[u])
      BY <1>1, <1>3, <1>5, <2>1, LockSettled DEF Midway
    <3>2. accounts'[u] = accounts[u]
      BY <1>8, <2>1 DEF LockInv, AccountTypes
    <3> QED
      BY <1>8, <3>1, <3>2 DEF Settled
  <2>2. CASE u = k /\ h.deed = "LOGIN_SUCCESS"
    BY <1>5, <1>9, <1>10, <2>2 DEF Midway
  <2>3. CASE u = k /\ h.deed # "LOGIN_SUCCESS"
    BY <1>8, <1>14, <2>3 DEF Settled
  <2> QED
    BY <2>1, <2>2, <2>3
<1>18. ~cut' => ResetTold' \/ AtReset(w) \/ \E t \in Sessions \ {s} : AtReset(sess[t])
  <2>1. AtReset(h) => ResetRow'
    BY <1>7, <1>8 DEF AtReset, ResetRow, A!Deeds
  <2>2. ResetTold => ResetTold'
    BY <1>8 DEF ResetTold, ResetRow
  <2> QED
    BY <1>3, <1>8, <2>1, <2>2 DEF ResetTold
<1>19. Shut /\ trail \subseteq trail'
  BY <1>8 DEF Shut
<1> QED
  BY <1>8, <1>11, <1>12, <1>13, <1>16, <1>17, <1>18, <1>19, LockTurn

\* The answer to a login.
LEMMA LockAnswer ==
    ASSUME LockInv, InTurn, part = "lock", part' = part, NEW s \in Sessions, A!Answer(s)
    PROVE  LockGoal' /\ Shut
<1>1. PICK h : h = sess[s]
  OBVIOUS
<1>2. h.op = "account" /\ h.stage = "answer"
  BY <1>1 DEF A!Answer, A!At
<1>3. /\ AccountWork(h) /\ h # Idle /\ h.key \in Logins /\ (alone => Holds(h))
      /\ ~cut => ResetTold \/ AtReset(h) \/ \E t \in Sessions \ {s} : AtReset(sess[t])
  BY <1>1, <1>2, LockAt
<1>4. h.deed = "LOGIN_SUCCESS" /\ LoginRow(h.key) \in trail
  BY <1>2, <1>3 DEF AccountWork
<1>5. PICK k \in Logins : k = h.key
  BY <1>3
<1>6. /\ entries' = entries \cup {<<k, now>>} /\ misses' = [misses EXCEPT ![k] = 0]
      /\ UNCHANGED <<now, accounts, resets, trail, resetsDone, cut>>
  BY <1>1, <1>5 DEF A!Answer, A!CountAnew, A!accountTables
<1>7. Turns(s, Idle) /\ alone' = alone
  BY <1>1, <1>3 DEF A!Answer, A!Finish, A!Go, A!Idle, Idle, Turns
<1>8. PICK e : e = <<k, now>>
  OBVIOUS
<1>9. e[1] = k /\ e[2] = now
  BY <1>8
<1>10. AccountTypes'
  <2>1. misses' \in [Logins -> Nat]
    BY <1>6 DEF LockInv, AccountTypes
  <2>2. [deed |-> "LOGIN_SUCCESS", user |-> e[1], at |-> e[2]] \in trail
    BY <1>4, <1>5, <1>9 DEF LoginRow
  <2>3. \A x \in entries' : [deed |-> "LOGIN_SUCCESS", user |-> x[1], at |-> x[2]] \in trail'
    BY <1>6, <1>8, <2>2 DEF LockInv, AccountTypes
  <2> QED
    BY <1>6, <2>1, <2>3 DEF LockInv, AccountTypes
<1>11. alone => misses[k] < 5 /\ Settled(accounts[k], 0)
  BY <1>2, <1>3, <1>4, <1>5 DEF Holds, Login
<1>12. alone => \A u \in Logins : Settled(accounts[u], misses[u])'
  <2> SUFFICES ASSUME alone, NEW u \in Logins PROVE Settled(accounts[u], misses[u])'
    OBVIOUS
  <2>1. CASE u # k
    <3>1. Settled(accounts[u], misses[u])
      BY <1>1, <1>3, <1>5, <2>1, LockSettled DEF Midway
    <3>2. misses'[u] = misses[u]
      BY <1>6, <2>1 DEF LockInv, AccountTypes
    <3> QED
      BY <1>6, <3>1, <3>2 DEF Settled
  <2>2. CASE u = k
    <3>1. misses'[k] = 0
      BY <1>6 DEF LockInv, AccountTypes
    <3> QED
      BY <1>6, <1>11, <2>2, <3>1 DEF Settled
  <2> QED
    BY <2>1, <2>2
<1>13. Shut
  BY <1>6, <1>8, <1>9, <1>11 DEF Shut
<1>14. ~cut' => ResetTold' \/ \E t \in Sessions \ {s} : AtReset(sess[t])
  BY <1>2, <1>3, <1>6 DEF AtReset, ResetTold, ResetRow
<1>15. LockWork(Idle)' /\ (alone => ResetsOnce') /\ trail \subseteq trail'
  BY <1>6 DEF LockWork, LockInv, ResetsOnce
<1> QED
  BY <1>6, <1>7, <1>10, <1>12, <1>13, <1>14, <1>15, LockTurn

LEMMA LockCut ==
    ASSUME LockInv, InTurn, part = "lock", part' = part, NEW s \in Sessions, A!Cut(s)
    PROVE  LockGoal' /\ Shut
<1>1. PICK h : h = sess[s]
  OBVIOUS
<1> DEFINE Late == h.op = "account" /\ h.deed = "LOGIN_SUCCESS" /\ h.stage # "store"
<1>2. /\ h # Idle /\ cut' = TRUE
      /\ misses' = IF Late THEN [misses EXCEPT ![h.key] = 0] ELSE misses
      /\ UNCHANGED <<now, accounts, resets, trail, entries, resetsDone>>
  BY <1>1 DEF A!Cut, A!CountAnew, A!accountTables, A!Idle, Idle
<1>3. Turns(s, Idle) /\ alone' = alone
  BY <1>1, <1>2 DEF A!Cut, A!Finish, A!Go, A!Idle, Idle, Turns
<1>4. AccountTypes'
  BY <1>2 DEF LockInv, AccountTypes
<1>5. alone => \A u \in Logins : Settled(accounts[u], misses[u])'
  <2> SUFFICES ASSUME alone, NEW u \in Logins PROVE Settled(accounts[u], misses[u])'
    OBVIOUS
  <2>1. CASE Late /\ u = h.key
    <3>1. Holds(h)
      BY <1>1, <2>1, LockAt
    <3>2. Settled(accounts[u], 0) /\ misses'[u] = 0
      BY <1>2, <2>1, <3>1 DEF Holds, Login, LockInv, AccountTypes
    <3> QED
      BY <1>2, <3>2 DEF Settled
  <2>2. CASE ~(Late /\ u = h.key)
    <3>1. ~Midway(sess[s], u)
      BY <1>1, <2>2 DEF Midway
    <3>2. Settled(accounts[u], misses[u])
      BY <1>1, <1>2, <3>1, LockSettled
    <3>3. misses'[u] = misses[u]
      BY <1>2, <2>2 DEF LockInv, AccountTypes
    <3> QED
      BY <1>2, <3>2, <3>3 DEF Settled
  <2> QED
    BY <2>1, <2>2
<1>6. Shut /\ LockWork(Idle)' /\ (alone => ResetsOnce') /\ trail \subseteq trail'
  BY <1>2 DEF Shut, LockWork, LockInv, ResetsOnce
<1> HIDE DEF Late
<1> QED
  BY <1>2, <1>3, <1>4, <1>5, <1>6, LockTurn

LEMMA LockTick ==
    ASSUME LockInv, InTurn, part = "lock", part' = part, A!Tick
    PROVE  LockGoal' /\ Shut
<1>1. /\ now < MaxTime /\ now' = now + 1 /\ \A s \in Sessions : sess[s] = Idle
      /\ misses' = [u \in Logins |-> IF accounts[u].locked /\ accounts[u].until = now + 1 THEN 0 ELSE misses[u]]
      /\ UNCHANGED <<accounts, resets, trail, entries, resetsDone, cut, alone, sess>>
  BY DEF A!Tick, A!Idle, Idle, A!accountTables
<1>2. AccountTypes'
  BY <1>1, AccountsAssumption DEF LockInv, AccountTypes
<1>3. \A s \in Sessions : LockWork(sess[s])' /\ ~AtReset(sess[s])
  BY <1>1 DEF LockWork, AtReset, Idle
<1>4. InTurn' /\ Shut
  BY <1>1 DEF InTurn, Shut
<1>5. ASSUME alone, NEW u \in Logins PROVE Settled(accounts[u], misses[u])'
  <2>1. Settled(accounts[u], misses[u])
    BY <1>1, <1>5 DEF LockInv, Midway, Idle
  <2>2. accounts[u] \in A!Account /\ misses[u] \in Nat /\ now \in Nat
    BY AccountsAssumption DEF LockInv, AccountTypes
  <2>3. accounts[u].until \in Nat /\ accounts[u].failed \in Nat
    BY <2>2, AccountsAssumption DEF A!Account
  <2>4. misses'[u] = IF accounts[u].locked /\ accounts[u].until = now + 1 THEN 0 ELSE misses[u]
    BY <1>1
  <2>5. CASE accounts[u].locked
    BY <1>1, <2>1, <2>2, <2>3, <2>4, <2>5 DEF Settled
  <2>6. CASE ~accounts[u].locked
    BY <1>1, <2>1, <2>2, <2>3, <2>4, <2>6 DEF Settled
  <2> QED
    BY <2>5, <2>6
<1>6. ~cut' => ResetTold'
  BY <1>1, <1>3 DEF LockInv, ResetTold, ResetRow
<1>7. alone' => ResetsOnce'
  BY <1>1 DEF LockInv, ResetsOnce
<1> QED
  BY <1>1, <1>2, <1>3, <1>4, <1>5, <1>6, <1>7 DEF LockGoal, LockInv

LEMMA LockStep ==
    ASSUME LockInv, InTurn, part = "lock", part' = part, A!Next
    PROVE  LockGoal' /\ Shut
<1>1. ASSUME UNCHANGED <<now, A!accountTables, A!accountGhosts>> PROVE UNCHANGED lock
  BY <1>1 DEF A!accountTables, A!accountGhosts, lock
<1>2. ASSUME NEW s \in Sessions, A!Step(s) PROVE LockGoal' /\ Shut
  BY <1>1, <1>2, LockRequest, LockIssue, LockConsume, LockStore, LockAudit, LockAnswer, LockCut DEF A!Step
<1> QED
  BY <1>2, LockTick DEF A!Next

LEMMA LockStarts ==
    ASSUME A!Init
    PROVE  LockInv
<1>1. PICK p \in Passwords : accounts =
          [u \in Logins |-> [active |-> TRUE, locked |-> FALSE, failed |-> 0, until |-> 0, password |-> p]]
  BY DEF A!Init
<1>2. /\ now = 0 /\ entries = {} /\ trail = {} /\ cut = FALSE
      /\ resets = [r \in Resets |-> A!None] /\ resetsDone = [r \in Resets |-> 0]
      /\ misses = [u \in Logins |-> 0] /\ sess = [s \in Sessions |-> Idle]
  BY DEF A!Init, A!AllIdle, A!Idle, Idle
<1>3. accounts \in [Logins -> A!Account]
  BY <1>1, AccountsAssumption DEF A!Account
<1>4. AccountTypes
  <2>1. 0 \in 0 .. MaxTime
    BY AccountsAssumption
  <2>2. DOMAIN resets = Resets /\ \A r \in Resets : resets[r] = A!None
    BY <1>2
  <2>3. misses \in [Logins -> Nat] /\ resetsDone \in [Resets -> Nat]
    BY <1>2
  <2>4. trail \subseteq [deed: A!Deeds, user: Logins, at: 0 .. MaxTime]
    BY <1>2, Zenon
  <2> QED
    BY <1>2, <1>3, <2>1, <2>2, <2>3, <2>4 DEF AccountTypes
<1>5. \A u \in Logins : Settled(accounts[u], misses[u])
  BY <1>1, <1>2 DEF Settled
<1>6. ResetsOnce /\ ResetTold
  BY <1>2 DEF ResetsOnce, ResetTold
<1>7. \A s \in Sessions : LockWork(sess[s])
  BY <1>2 DEF LockWork
<1> QED
  BY <1>4, <1>5, <1>6, <1>7 DEF LockInv

LEMMA LockStays ==
    ASSUME LockInv, part # "lock", part' = part, alone' = alone, UNCHANGED lock
    PROVE  LockInv' /\ Shut
<1>1. \A u \in Logins : Settled(accounts[u], misses[u])'
  <2>1. UNCHANGED <<now, accounts, misses>>
    BY LockSame
  <2> QED
    BY <2>1 DEF LockInv, Settled
<1>2. Shut
  BY LockSame DEF Shut
<1> QED
  BY <1>1, <1>2, LockSame DEF LockInv

LEMMA LockShow ==
    ASSUME LockInv, InTurn, part \in {"lock", "pairs", "rights", "told"}
    PROVE  A!TypeOK /\ A!LockedAfterFive /\ A!ResetOnce /\ A!EntriesAudited
<1>1. AccountTypes
  BY DEF LockInv
<1>2. ASSUME alone, NEW u \in Logins
      PROVE  Settled(accounts[u], misses[u]) \/ Settled(accounts[u], 0)
  <2>1. CASE part = "lock"
    <3>1. ASSUME NEW s \in Sessions, Midway(sess[s], u) PROVE Settled(accounts[u], 0)
      <4>1. Holds(sess[s]) /\ sess[s].key = u
        BY <1>2, <2>1, <3>1, LockAt DEF Midway
      <4> QED
        BY <3>1, <4>1 DEF Holds, Login, Midway
    <3> QED
      BY <1>2, <2>1, <3>1 DEF LockInv
  <2>2. CASE part # "lock"
    BY <2>2 DEF LockInv
  <2> QED
    BY <2>1, <2>2
<1>3. A!TypeOK
  BY <1>1, <1>2 DEF AccountTypes, Settled, A!TypeOK, A!Times
<1>4. A!LockedAfterFive
  <2> SUFFICES ASSUME alone, \A s \in Sessions : sess[s] = Idle, NEW u \in Logins
               PROVE  misses[u] >= 5 <=> A!Locked(accounts[u])
    BY DEF A!LockedAfterFive, A!Idle, Idle
  <2>1. Settled(accounts[u], misses[u])
    BY DEF LockInv, Midway, Idle
  <2>2. misses[u] \in Nat /\ accounts[u] \in A!Account
    BY <1>1 DEF AccountTypes
  <2> QED
    BY <2>1, <2>2 DEF Settled, A!Locked, A!Account
<1>5. A!ResetOnce
  BY DEF A!ResetOnce, LockInv, ResetsOnce
<1>6. A!EntriesAudited
  <2>1. ASSUME ~cut, \A s \in Sessions : sess[s] = Idle PROVE ResetTold
    BY <2>1 DEF LockInv, AtReset, Idle
  <2> QED
    BY <1>1, <2>1 DEF A!EntriesAudited, AccountTypes, ResetTold, ResetRow, A!Idle, Idle
<1> QED
  BY <1>3, <1>4, <1>5, <1>6
-----------------------------------------------------------------------------
\* Alerts.  A scan holds the rows it will add; with the rows that are stored, a
\* notice has no more of them than there are handlers.
Waiting == [notice: N!Notices, status: {"DELIVERED", "FAILED"}]
Scanner(w) ==
    /\ w.op = "scan" /\ DOMAIN w = {"op", "pass", "stage", "todo", "added"}
    /\ w.pass \in DOMAIN N!Passes
    /\ w.todo \subseteq N!Notices
    /\ w.added \subseteq Waiting /\ IsFiniteSet(w.added)
ScanWork(w) == w = Idle \/ Scanner(w)
Holding(w, n) == w.op = "scan" /\ \E a \in w.added : a.notice = n
Holders(n) == {s \in Sessions : Holding(sess[s], n)}
\* What is told today is due today, and so is what a scan holds or will tell, unless
\* what the rules read was changed.
Today(n) == n[3] = day /\ (changed \/ n \in N!NoticesOn(setting, day))
Timely(w) == w.op = "scan" => (\A n \in w.todo : Today(n)) /\ \A a \in w.added : Today(a.notice)
Past(n) == n[3] < day \/ Today(n)
ToldInv ==
    /\ day \in 0 .. LastDay /\ setting \in Settings /\ open \subseteq Things
    /\ \A n \in N!Notices : notes[n] # << >> => Past(n)
    /\ notes \in [N!Notices -> Seq(N!Row)]
    /\ part = "told" =>
        /\ \A s \in Sessions : ScanWork(sess[s]) /\ Timely(sess[s])
        /\ \A n \in N!Notices : Len(notes[n]) + Cardinality(Holders(n)) <= Cardinality(Sessions)
        /\ alone => \A n \in N!Notices : Holders(n) # {} => notes[n] = << >>
    /\ part # "told" => \A n \in N!Notices : Len(notes[n]) <= Cardinality(Sessions)
    /\ alone => \A n \in N!Notices : Len(notes[n]) <= 1
ToldGoal == InTurn /\ ToldInv

\* What may become of a stored row.
RowStays(row, new) ==
    /\ row.read => new.read
    /\ row.status = "DELIVERED" => new = [row EXCEPT !.read = new.read]
RowsKept ==
    \A n \in N!Notices : \A i \in DOMAIN notes[n] : i \in DOMAIN notes'[n] /\ RowStays(notes[n][i], notes'[n][i])

LEMMA RowMoves ==
    ASSUME NEW row \in N!Row
    PROVE  /\ RowStays(row, row)
           /\ [row EXCEPT !.read = TRUE] \in N!Row /\ RowStays(row, [row EXCEPT !.read = TRUE])
           /\ N!Retried(row) \in N!Row /\ RowStays(row, N!Retried(row))
<1>1. RowStays(row, row)
  <2>1. row = [row EXCEPT !.read = row.read]
    BY DEF N!Row
  <2> QED
    BY <2>1 DEF RowStays
<1>2. [row EXCEPT !.read = TRUE] \in N!Row /\ RowStays(row, [row EXCEPT !.read = TRUE])
  <2>1. [row EXCEPT !.read = TRUE].read = TRUE
    BY DEF N!Row
  <2> QED
    BY <2>1 DEF N!Row, RowStays
<1>3. N!Retried(row) \in N!Row
  <2>1. ASSUME row.tries < MaxRetries PROVE row.tries + 1 \in 0 .. MaxRetries
    BY <2>1, AlertsAssumption DEF N!Row
  <2>2. ASSUME row.tries < MaxRetries
        PROVE  [row EXCEPT !.status = "DELIVERED", !.tries = @ + 1] \in N!Row
    <3>1. PICK tries \in 0 .. MaxRetries : tries = row.tries + 1
      BY <2>1, <2>2
    <3>2. [row EXCEPT !.status = "DELIVERED", !.tries = tries] \in N!Row
      BY <3>1 DEF N!Row
    <3> QED
      BY <3>1, <3>2
  <2> QED
    BY <2>2 DEF N!Retried
<1>4. RowStays(row, N!Retried(row))
  <2>1. CASE row.status = "DELIVERED"
    BY <1>1, <2>1 DEF N!Retried
  <2>2. CASE row.status # "DELIVERED"
    <3>1. N!Retried(row).read = row.read
      BY DEF N!Row, N!Retried
    <3> QED
      BY <2>2, <3>1 DEF RowStays
  <2> QED
    BY <2>1, <2>2
<1> QED
  BY <1>1, <1>2, <1>3, <1>4

LEMMA RowsSame ==
    ASSUME ToldInv, notes' = notes
    PROVE  RowsKept
<1> SUFFICES ASSUME NEW n \in N!Notices, NEW i \in DOMAIN notes[n]
             PROVE  i \in DOMAIN notes'[n] /\ RowStays(notes[n][i], notes'[n][i])
  BY DEF RowsKept
<1>1. notes[n][i] \in N!Row
  BY DEF ToldInv
<1> QED
  BY <1>1, RowMoves

LEMMA HandlersFinite ==
    /\ IsFiniteSet(Sessions) /\ Cardinality(Sessions) \in Nat /\ Cardinality(Sessions) >= 1
    /\ \A H \in SUBSET Sessions : IsFiniteSet(H) /\ Cardinality(H) \in Nat /\ Cardinality(H) <= Cardinality(Sessions)
<1>1. IsFiniteSet(Sessions) /\ Sessions # {}
  BY AlertsAssumption
<1>2. Cardinality(Sessions) \in Nat /\ Cardinality(Sessions) # 0
  BY <1>1, FS_CardinalityType, FS_EmptySet
<1> QED
  BY <1>1, <1>2, FS_Subset, FS_CardinalityType

\* A step of the scan s that stores no row keeps the invariant if it holds no notice
\* anew of which a row is stored.
LEMMA ToldTurn ==
    ASSUME ToldInv, InTurn, part = "told", part' = part, NEW s \in Sessions, NEW w, Turns(s, w),
           ScanWork(w), Timely(w)', \A t \in Sessions \ {s} : Timely(sess[t])',
           \A n \in N!Notices : Past(n) => Past(n)',
           day' \in 0 .. LastDay, setting' \in Settings, open' \subseteq Things, notes' = notes,
           \A n \in N!Notices : Holding(w, n) => Holding(sess[s], n) \/ notes[n] = << >>
    PROVE  ToldGoal' /\ RowsKept
<1>1. InTurn' /\ sess'[s] = w /\ alone' = alone /\ \A t \in Sessions \ {s} : sess'[t] = sess[t]
  BY TurnKeeps DEF Turns
<1>2. \A t \in Sessions : ScanWork(sess'[t]) /\ Timely(sess[t])'
  BY <1>1 DEF ToldInv
<1>3. ASSUME NEW n \in N!Notices
      PROVE  /\ Holders(n)' \subseteq Sessions
             /\ notes[n] # << >> => Holders(n)' \subseteq Holders(n)
  BY <1>1 DEF Holders
<1>4. ASSUME NEW n \in N!Notices
      PROVE  Len(notes[n]) + Cardinality(Holders(n)') <= Cardinality(Sessions)
  <2>1. Len(notes[n]) \in Nat /\ Len(notes[n]) + Cardinality(Holders(n)) <= Cardinality(Sessions)
    BY DEF ToldInv
  <2>2. CASE notes[n] = << >>
    BY <1>3, <2>2, HandlersFinite
  <2>3. CASE notes[n] # << >>
    <3>1. Holders(n) \subseteq Sessions
      BY DEF Holders
    <3>2. Cardinality(Holders(n)') <= Cardinality(Holders(n))
      BY <1>3, <2>3, <3>1, HandlersFinite, FS_Subset
    <3> QED
      BY <1>3, <2>1, <3>1, <3>2, HandlersFinite
  <2> QED
    BY <2>2, <2>3
<1>5. alone => \A n \in N!Notices : Holders(n)' # {} => notes[n] = << >>
  BY <1>3 DEF ToldInv
<1>6. ToldInv'
  <2>1. \A n \in N!Notices : Len(notes'[n]) + Cardinality(Holders(n)') <= Cardinality(Sessions)
    BY <1>4
  <2>2. notes' \in [N!Notices -> Seq(N!Row)] /\ (alone => \A n \in N!Notices : Len(notes'[n]) <= 1)
    BY DEF ToldInv
  <2> QED
    BY <1>1, <1>2, <1>5, <2>1, <2>2 DEF ToldInv, ScanWork
<1> QED
  BY <1>1, <1>6, RowsSame DEF ToldGoal

\* The same on one day, of which nothing is changed that the rules read.
LEMMA ToldGoes ==
    ASSUME ToldInv, InTurn, part = "told", part' = part, NEW s \in Sessions, NEW w, Turns(s, w),
           ScanWork(w), Timely(w), UNCHANGED <<day, setting, changed, open, notes>>,
           \A n \in N!Notices : Holding(w, n) => Holding(sess[s], n) \/ notes[n] = << >>
    PROVE  ToldGoal' /\ RowsKept
<1>1. \A n : Today(n)' = Today(n) /\ Past(n)' = Past(n)
  BY DEF Today, Past, N!NoticesOn, N!NoticesAt
<1>2. ASSUME NEW t \in Sessions \ {s} PROVE Timely(sess[t])'
  <2>1. sess'[t] = sess[t] /\ Timely(sess[t])
    BY TurnKeeps DEF ToldInv
  <2> QED
    BY <1>1, <2>1 DEF Timely
<1>3. Timely(w)'
  BY <1>1 DEF Timely
<1> QED
  BY <1>1, <1>2, <1>3, ToldTurn DEF ToldInv

\* The changes of a scan: it goes on with its notices, or with the next pass.
OnNotices(w, stage, todo, added) == [w EXCEPT !.stage = stage, !.todo = todo, !.added = added]
OnPass(w, i, added) == [w EXCEPT !.pass = i, !.stage = "select", !.todo = {}, !.added = added]

LEMMA ScanMoves ==
    ASSUME NEW w, Scanner(w), NEW added \in SUBSET Waiting, IsFiniteSet(added)
    PROVE  /\ \A stage, todo \in SUBSET N!Notices :
                 Scanner(OnNotices(w, stage, todo, added)) /\ OnNotices(w, stage, todo, added).added = added
           /\ \A i \in DOMAIN N!Passes : Scanner(OnPass(w, i, added)) /\ OnPass(w, i, added).added = added
                                        /\ OnPass(w, i, added).todo = {}
<1>1. ASSUME NEW stage, NEW todo \in SUBSET N!Notices
      PROVE  Scanner(OnNotices(w, stage, todo, added)) /\ OnNotices(w, stage, todo, added).added = added
  BY DEF Scanner, OnNotices
<1>2. ASSUME NEW i \in DOMAIN N!Passes
      PROVE  /\ Scanner(OnPass(w, i, added)) /\ OnPass(w, i, added).added = added
             /\ OnPass(w, i, added).todo = {}
  BY DEF Scanner, OnPass
<1> QED
  BY <1>1, <1>2

LEMMA ScanGoesOn ==
    ASSUME NEW s \in Sessions, Scanner(sess[s]), NEW i, NEW added \in SUBSET Waiting, IsFiniteSet(added),
           N!OnTo(s, i, added)
    PROVE  \E w : Turns(s, w) /\ (w = Idle \/ (Scanner(w) /\ w.added = added /\ w.todo = {}))
<1>0. sess[s] # Idle
  BY DEF Scanner, Idle
<1>1. CASE i \notin DOMAIN N!Passes
  BY <1>0, <1>1 DEF N!OnTo, N!Finish, N!Go, N!Idle, Turns, Idle
<1>2. CASE i \in DOMAIN N!Passes
  <2>1. PICK w : w = OnPass(sess[s], i, added)
    OBVIOUS
  <2>2. Scanner(w) /\ w.added = added /\ w.todo = {}
    BY <1>2, <2>1, ScanMoves
  <2>3. Turns(s, w)
    BY <1>0, <1>2, <2>1 DEF N!OnTo, N!Go, OnPass, Turns
  <2> QED
    BY <2>2, <2>3
<1> QED
  BY <1>1, <1>2

\* What a pass selects is due on the day.
LEMMA SelectedToday ==
    ASSUME ToldInv, NEW i \in DOMAIN N!Passes, NEW n \in N!NoticesOf(N!Passes[i])
    PROVE  n \in N!Notices /\ Today(n)
<1>1. n \in N!NoticesAt(setting, N!Passes[i], day)
  BY DEF N!NoticesOf
<1>2. n \in N!NoticesOn(setting, day)
  BY <1>1 DEF N!NoticesOn
<1>3. setting \in Settings /\ day \in N!Days
  BY DEF ToldInv, N!Days
<1>4. n \in N!Notices
  BY <1>2, <1>3 DEF N!Notices
<1>5. n[3] = day
  BY <1>1 DEF N!NoticesAt, N!Notice
<1> QED
  BY <1>2, <1>4, <1>5 DEF Today

LEMMA ToldSelect ==
    ASSUME ToldInv, InTurn, part = "told", part' = part, NEW s \in Sessions, N!Select(s)
    PROVE  ToldGoal' /\ RowsKept
<1>1. PICK h : h = sess[s] /\ Scanner(h) /\ Timely(h) /\ h # Idle
  BY DEF N!Select, N!Scanning, ToldInv, ScanWork, Idle
<1>2. UNCHANGED <<day, setting, changed, open, notes>>
  BY DEF N!Select
<1>3. ASSUME N!Finish(s) PROVE ToldGoal' /\ RowsKept
  <2>1. Turns(s, Idle)
    BY <1>1, <1>3 DEF N!Finish, N!Go, N!Idle, Idle, Turns
  <2>2. ScanWork(Idle) /\ Timely(Idle) /\ \A n : ~Holding(Idle, n)
    BY DEF ScanWork, Timely, Holding, Idle
  <2> QED
    BY <1>2, <2>1, <2>2, ToldGoes
<1>4. ASSUME NEW due \in SUBSET N!Notices, \A n \in due : Today(n),
             N!Go(s, [sess[s] EXCEPT !.stage = "notify", !.todo = due])
      PROVE  ToldGoal' /\ RowsKept
  <2>1. PICK w : w = [h EXCEPT !.stage = "notify", !.todo = due]
    OBVIOUS
  <2>2. Scanner(w) /\ w.added = h.added /\ w.todo = due /\ h.op = "scan"
    BY <1>1, <2>1 DEF Scanner
  <2>3. Turns(s, w)
    BY <1>1, <1>4, <2>1 DEF N!Go, Turns
  <2>4. Timely(w) /\ \A n : Holding(w, n) => Holding(sess[s], n)
    BY <1>1, <1>4, <2>2 DEF Holding, Timely, Scanner
  <2> QED
    BY <1>2, <2>2, <2>3, <2>4, ToldGoes DEF ScanWork
<1>5. \A n \in N!NoticesOf(N!Pass(s)) : n \in N!Notices /\ Today(n)
  BY <1>1, SelectedToday DEF N!Pass, Scanner
<1>6. N!Finish(s) \/ N!Go(s, [sess[s] EXCEPT !.stage = "notify", !.todo = N!NoticesOf(N!Pass(s))])
  BY DEF N!Select
<1> QED
  BY <1>3, <1>4, <1>5, <1>6

\* Of a notice that a scan finds no row of, none is stored, and it holds none.
LEMMA NoneFound ==
    ASSUME ToldInv, NEW s \in Sessions, Scanner(sess[s]), NEW n \in N!Notices
    PROVE  /\ IsFiniteSet(N!Found(s, n))
           /\ N!Found(s, n) = {} => notes[n] = << >> /\ ~Holding(sess[s], n)
<1>1. PICK k \in Nat : k = Len(notes[n]) /\ DOMAIN notes[n] = 1 .. k
  BY DEF ToldInv
<1> DEFINE stored == {<<n, i>> : i \in DOMAIN notes[n]}
           added  == {a \in sess[s].added : a.notice = n}
<1>2. IsFiniteSet(stored)
  <2>1. IsFiniteSet(1 .. k)
    <3> HIDE DEF stored, added
    <3>1. 1 \in Int /\ k \in Int
      OBVIOUS
    <3> QED
      BY <3>1, FS_Interval, Zenon
  <2>2. PICK f : f = [i \in 1 .. k |-> <<n, i>>]
    OBVIOUS
  <2>3. f \in Surjection(1 .. k, stored)
    BY <1>1, <2>2 DEF Surjection
  <2> QED
    BY <2>1, <2>3, FS_Surjection
<1>3. IsFiniteSet(added)
  BY FS_Subset DEF Scanner
<1>4. N!Found(s, n) = stored \cup added
  BY DEF N!Found
<1>5. ASSUME N!Found(s, n) = {} PROVE notes[n] = << >> /\ ~Holding(sess[s], n)
  <2>1. DOMAIN notes[n] = {}
    BY <1>4, <1>5
  <2>2. k = 0
    <3>1. 1 \notin 1 .. k
      BY <1>1, <2>1
    <3> QED
      BY <3>1
  <2>3. notes[n] \in Seq(N!Row) /\ Len(notes[n]) = 0
    BY <1>1, <2>2 DEF ToldInv
  <2>4. notes[n] = << >>
    BY <2>3
  <2> QED
    BY <1>4, <1>5, <2>4 DEF Holding
<1> HIDE DEF stored, added
<1> QED
  BY <1>2, <1>3, <1>4, <1>5, FS_Union

LEMMA SameCardinality == \A S : N!Cardinality(S) = Cardinality(S)
  BY DEF N!Cardinality, Cardinality

LEMMA ToldNotify ==
    ASSUME ToldInv, InTurn, part = "told", part' = part, NEW s \in Sessions, NEW n \in N!Notices, N!Notify(s, n)
    PROVE  ToldGoal' /\ RowsKept
<1>1. PICK h : h = sess[s] /\ Scanner(h) /\ Timely(h) /\ h # Idle /\ h.op = "scan" /\ Today(n)
  BY DEF N!Notify, N!Scanning, ToldInv, ScanWork, Timely, Idle
<1>2. PICK c \in Nat : c = N!Cardinality(N!Found(s, n)) /\ (c = 0 <=> N!Found(s, n) = {})
  BY <1>1, NoneFound, SameCardinality, FS_CardinalityType, FS_EmptySet
<1>20. (CASE c > 1 -> N!Raise(s, sess[s].added)
         [] c = 1 -> N!Go(s, [sess[s] EXCEPT !.todo = @ \ {n}]) /\ UNCHANGED N!alertTables
         [] N!Found(s, n) = {} ->
               /\ N!Go(s, [sess[s] EXCEPT !.todo = @ \ {n},
                                          !.added = @ \cup {[notice |-> n, status |-> "DELIVERED"]}])
               /\ UNCHANGED N!alertTables)
  BY <1>2, Zenon DEF N!Notify
<1>3. CASE c > 1
  <2>0. c # 1 /\ N!Found(s, n) # {}
    BY <1>2, <1>3
  <2>1. N!Raise(s, h.added)
    BY <1>1, <1>20, <1>3, <2>0, Zenon
  <2>2. N!OnTo(s, N!GivenUp(s), h.added) /\ UNCHANGED <<day, setting, changed, open, notes>>
    BY <2>1 DEF N!Raise
  <2>3. PICK w : Turns(s, w) /\ (w = Idle \/ (Scanner(w) /\ w.added = h.added /\ w.todo = {}))
    BY <1>1, <2>2, ScanGoesOn DEF Scanner
  <2>4. Timely(w) /\ \A m : Holding(w, m) => Holding(sess[s], m)
    BY <1>1, <2>3 DEF Holding, Timely, Scanner, Idle
  <2> QED
    BY <2>2, <2>3, <2>4, ToldGoes DEF ScanWork
<1>4. CASE c = 1
  <2>1. PICK w : w = [h EXCEPT !.todo = @ \ {n}]
    OBVIOUS
  <2>2. N!Go(s, w) /\ UNCHANGED <<day, setting, changed, open, notes>>
    BY <1>1, <1>2, <1>20, <1>4, <2>1 DEF N!alertTables
  <2>3. Scanner(w) /\ w.added = h.added /\ w.todo = h.todo \ {n}
    BY <1>1, <2>1 DEF Scanner
  <2>4. Turns(s, w)
    BY <1>1, <2>2 DEF N!Go, Turns
  <2>5. Timely(w) /\ \A m : Holding(w, m) => Holding(sess[s], m)
    BY <1>1, <2>3 DEF Holding, Timely, Scanner
  <2> QED
    BY <2>2, <2>3, <2>4, <2>5, ToldGoes DEF ScanWork
<1>5. CASE c = 0
  <2>1. PICK a : a = [notice |-> n, status |-> "DELIVERED"]
    OBVIOUS
  <2>2. PICK w : w = [h EXCEPT !.todo = @ \ {n}, !.added = @ \cup {a}]
    OBVIOUS
  <2>0. ~(c > 1) /\ c # 1 /\ N!Found(s, n) = {}
    BY <1>2, <1>5
  <2>3. N!Go(s, w) /\ UNCHANGED <<day, setting, changed, open, notes>>
    <3>1. /\ N!Go(s, [sess[s] EXCEPT !.todo = @ \ {n},
                                     !.added = @ \cup {[notice |-> n, status |-> "DELIVERED"]}])
          /\ UNCHANGED N!alertTables
      BY <1>20, <2>0, Zenon
    <3> QED
      BY <1>1, <2>1, <2>2, <3>1 DEF N!alertTables
  <2>4. a \in Waiting /\ a.notice = n
    BY <2>1 DEF Waiting
  <2>5. IsFiniteSet(h.added \cup {a})
    BY <1>1, FS_AddElement DEF Scanner
  <2>6. Scanner(w) /\ w.added = h.added \cup {a} /\ w.todo = h.todo \ {n}
    BY <1>1, <2>2, <2>4, <2>5 DEF Scanner
  <2>7. Turns(s, w)
    BY <1>1, <2>3 DEF N!Go, Turns
  <2>8. Timely(w) /\ \A m : Holding(w, m) => Holding(sess[s], m) \/ m = n
    BY <1>1, <2>4, <2>6 DEF Holding, Timely, Scanner
  <2>9. notes[n] = << >>
    BY <1>1, <1>2, <1>5, NoneFound
  <2> QED
    BY <2>3, <2>6, <2>7, <2>8, <2>9, ToldGoes DEF ScanWork
<1> QED
  BY <1>2, <1>3, <1>4, <1>5

LEMMA ToldFails ==
    ASSUME ToldInv, InTurn, part = "told", part' = part, NEW s \in Sessions, NEW n \in N!Notices,
           NEW added, N!NotifyFails(s, n, added)
    PROVE  ToldGoal' /\ RowsKept
<1>1. PICK h : h = sess[s] /\ Scanner(h) /\ h # Idle /\ Today(n)
  BY DEF N!NotifyFails, N!Scanning, ToldInv, ScanWork, Timely, Idle
<1>2. UNCHANGED <<day, setting, changed, open, notes>> /\ N!Found(s, n) = {}
  BY DEF N!NotifyFails
<1>3. notes[n] = << >>
  BY <1>1, <1>2, NoneFound
<1>4. PICK a : a = [notice |-> n, status |-> "FAILED"]
  OBVIOUS
<1>5. a \in Waiting /\ a.notice = n /\ added \in {{}, {a}}
  BY <1>4 DEF Waiting, N!NotifyFails
<1>6. added \in SUBSET Waiting /\ IsFiniteSet(added)
  <2>1. CASE added = {}
    BY <2>1, FS_EmptySet
  <2>2. CASE added = {a}
    BY <1>5, <2>2, FS_Singleton
  <2> QED
    BY <1>5, <2>1, <2>2
<1>7. \E w : Turns(s, w) /\ (w = Idle \/ (Scanner(w) /\ w.added = added /\ w.todo = {}))
  <2>1. CASE sess[s].todo # {n}
    BY <1>1, <1>6, <2>1, ScanGoesOn DEF N!NotifyFails
  <2>2. CASE sess[s].todo = {n}
    <3>1. PICK w : w = [h EXCEPT !.todo = {}, !.added = added]
      OBVIOUS
    <3>2. Scanner(w) /\ w.added = added /\ w.todo = {}
      BY <1>1, <1>6, <3>1 DEF Scanner
    <3>3. Turns(s, w)
      BY <1>1, <2>2, <3>1 DEF N!NotifyFails, N!Go, Turns
    <3> QED
      BY <3>2, <3>3
  <2> QED
    BY <2>1, <2>2
<1>8. PICK w : Turns(s, w) /\ (w = Idle \/ (Scanner(w) /\ w.added = added /\ w.todo = {}))
  BY <1>7
<1>9. Timely(w) /\ \A m : Holding(w, m) => m = n
  BY <1>1, <1>5, <1>8 DEF Holding, Timely, Idle
<1> QED
  BY <1>2, <1>3, <1>8, <1>9, ToldGoes DEF ScanWork

\* A commit stores the rows a scan holds, at most one of each notice.
LEMMA NewRow ==
    ASSUME NEW status \in {"DELIVERED", "FAILED"}
    PROVE  N!New(status) \in N!Row
  BY AlertsAssumption DEF N!New, N!Row

LEMMA ToldConclude ==
    ASSUME ToldInv, InTurn, part = "told", part' = part, NEW s \in Sessions, N!Conclude(s)
    PROVE  ToldGoal' /\ RowsKept
<1>1. PICK h : h = sess[s] /\ Scanner(h) /\ Timely(h) /\ h # Idle
  BY DEF N!Conclude, N!Scanning, ToldInv, ScanWork, Idle
<1>2. UNCHANGED <<day, setting, changed, open>> /\ N!OnTo(s, sess[s].pass + 1, {})
  BY DEF N!Conclude
<1>3. PICK w : Turns(s, w) /\ (w = Idle \/ (Scanner(w) /\ w.added = {} /\ w.todo = {}))
  BY <1>1, <1>2, ScanGoesOn, FS_EmptySet
<1>4. /\ InTurn' /\ sess'[s] = w /\ alone' = alone
      /\ \A t \in Sessions \ {s} : sess'[t] = sess[t] /\ (alone => sess[t] = Idle)
  BY <1>3, TurnKeeps DEF Turns
<1>5. ScanWork(w) /\ Timely(w) /\ \A n : ~Holding(w, n)
  BY <1>3 DEF ScanWork, Timely, Holding, Idle
<1>6. ASSUME NEW n \in N!Notices
      PROVE  /\ ~Holding(h, n) => notes'[n] = notes[n]
             /\ Holding(h, n) => \E row \in N!Row : notes'[n] = Append(notes[n], row)
  <2>1. notes'[n] = IF \E a \in h.added : a.notice = n
                    THEN Append(notes[n], N!New((CHOOSE a \in h.added : a.notice = n).status)) ELSE notes[n]
    BY <1>1 DEF N!Conclude, N!Known, ToldInv
  <2>2. CASE ~Holding(h, n)
    BY <1>1, <2>1, <2>2 DEF Holding, Scanner
  <2>3. CASE Holding(h, n)
    <3>1. PICK a : a = CHOOSE x \in h.added : x.notice = n
      OBVIOUS
    <3>2. a \in h.added
      BY <2>3, <3>1 DEF Holding
    <3>3. a.status \in {"DELIVERED", "FAILED"}
      BY <1>1, <3>2 DEF Scanner, Waiting
    <3> QED
      BY <2>1, <2>3, <3>1, <3>3, NewRow DEF Holding
  <2> QED
    BY <2>2, <2>3
<1>7. notes' \in [N!Notices -> Seq(N!Row)]
  <2>1. notes' = [n \in N!Notices |-> notes'[n]]
    BY DEF N!Conclude, N!Known, ToldInv
  <2>2. ASSUME NEW n \in N!Notices PROVE notes'[n] \in Seq(N!Row)
    <3>1. notes[n] \in Seq(N!Row)
      BY DEF ToldInv
    <3> QED
      BY <1>6, <3>1
  <2> QED
    BY <2>1, <2>2
<1>8. RowsKept
  <2> SUFFICES ASSUME NEW n \in N!Notices, NEW i \in DOMAIN notes[n]
               PROVE  i \in DOMAIN notes'[n] /\ RowStays(notes[n][i], notes'[n][i])
    BY DEF RowsKept
  <2>1. notes[n] \in Seq(N!Row) /\ notes[n][i] \in N!Row
    BY DEF ToldInv
  <2>2. i \in DOMAIN notes'[n] /\ notes'[n][i] = notes[n][i]
    BY <1>6, <2>1
  <2> QED
    BY <2>1, <2>2, RowMoves
<1>9. ASSUME NEW n \in N!Notices PROVE Holders(n)' = Holders(n) \ {s}
  BY <1>4, <1>5 DEF Holders
<1>10. ASSUME NEW n \in N!Notices
       PROVE  Len(notes'[n]) + Cardinality(Holders(n)') <= Cardinality(Sessions)
  <2>1. PICK k \in Nat : k = Len(notes[n]) /\ k + Cardinality(Holders(n)) <= Cardinality(Sessions)
    BY DEF ToldInv
  <2>2. Holders(n) \subseteq Sessions
    BY DEF Holders
  <2>3. IsFiniteSet(Holders(n)) /\ Cardinality(Holders(n)) \in Nat /\ Cardinality(Sessions) \in Nat
    BY <2>2, HandlersFinite
  <2>4. CASE Holding(h, n)
    <3>1. Len(notes'[n]) = k + 1
      BY <1>6, <2>1, <2>4 DEF ToldInv
    <3>2. s \in Holders(n)
      BY <1>1, <2>4 DEF Holders
    <3>3. Cardinality(Holders(n)') = Cardinality(Holders(n)) - 1
      BY <1>9, <2>3, <3>2, FS_RemoveElement
    <3> QED
      BY <2>1, <2>3, <3>1, <3>3
  <2>5. CASE ~Holding(h, n)
    <3>1. Holders(n)' = Holders(n)
      BY <1>1, <1>9, <2>5 DEF Holders
    <3> QED
      BY <1>6, <2>1, <2>5, <3>1
  <2> QED
    BY <2>4, <2>5
<1>11. alone => \A n \in N!Notices : Holders(n)' = {}
  BY <1>4, <1>5 DEF Holders, Holding, Idle
<1>12. ASSUME alone, NEW n \in N!Notices PROVE Len(notes'[n]) <= 1
  <2>1. CASE Holding(h, n)
    <3>1. Holders(n) # {}
      BY <1>1, <2>1 DEF Holders
    <3>2. notes[n] = << >>
      BY <1>12, <3>1 DEF ToldInv
    <3> QED
      BY <1>6, <2>1, <3>2
  <2> QED
    BY <1>6, <1>12, <2>1 DEF ToldInv
<1>13. \A n : Today(n)' = Today(n) /\ Past(n)' = Past(n)
  BY <1>2 DEF Today, Past, N!NoticesOn, N!NoticesAt
<1>14. \A t \in Sessions : ScanWork(sess'[t]) /\ Timely(sess[t])'
  BY <1>4, <1>5, <1>13 DEF ToldInv, Timely
<1>15. ASSUME NEW n \in N!Notices, notes'[n] # << >> PROVE Past(n)'
  <2>1. CASE Holding(h, n)
    BY <1>1, <1>13, <2>1 DEF Holding, Timely, Past
  <2>2. CASE ~Holding(h, n)
    BY <1>6, <1>13, <1>15, <2>2 DEF ToldInv
  <2> QED
    BY <2>1, <2>2
<1>16. ToldInv'
  BY <1>2, <1>4, <1>7, <1>10, <1>11, <1>12, <1>14, <1>15 DEF ToldInv, ScanWork
<1> QED
  BY <1>4, <1>8, <1>16 DEF ToldGoal

\* A new day, a scan at its start or cut off: no row is stored.
LEMMA FreshScan ==
    ASSUME NEW w \in {N!Scan, Idle}
    PROVE  ScanWork(w) /\ (w.op = "scan" => w.todo = {} /\ w.added = {})
<1>1. Scanner(N!Scan)
  <2>1. 1 \in DOMAIN N!Passes
    BY DEF N!Passes
  <2> QED
    BY <2>1, FS_EmptySet DEF N!Scan, Scanner
<1> QED
  BY <1>1 DEF ScanWork, N!Scan, Idle

LEMMA NoticeOfDay ==
    ASSUME NEW n \in N!Notices
    PROVE  n[3] \in 0 .. LastDay
<1>1. PICK c \in Settings, d \in N!Days : n \in N!NoticesOn(c, d)
  BY DEF N!Notices
<1>2. PICK i \in DOMAIN N!Passes : n \in N!NoticesAt(c, N!Passes[i], d)
  BY <1>1 DEF N!NoticesOn
<1> QED
  BY <1>2 DEF N!NoticesAt, N!Notice, N!Days

LEMMA ToldDay ==
    ASSUME ToldInv, InTurn, part = "told", part' = part, NEW s \in Sessions, NEW up, N!NewDay(s, up)
    PROVE  ToldGoal' /\ RowsKept
<1>1. PICK w : Turns(s, w) /\ w \in {N!Scan, Idle}
  BY DEF N!NewDay, N!Go, N!Idle, Idle, Turns
<1>2. ScanWork(w) /\ Timely(w)' /\ \A n : ~Holding(w, n)
  BY <1>1, FreshScan DEF Timely, Holding
<1>3. /\ day' = day + 1 /\ day' \in 0 .. LastDay /\ setting' \in Settings /\ open' \subseteq Things /\ notes' = notes
      /\ \A t \in Sessions : sess[t] = Idle
  BY AlertsAssumption DEF N!NewDay, N!Idle, Idle, ToldInv
<1>4. ASSUME NEW n \in N!Notices, Past(n) PROVE Past(n)'
  <2>1. n[3] \in Int
    BY NoticeOfDay, AlertsAssumption
  <2> QED
    BY <1>3, <1>4, <2>1 DEF Past, Today, ToldInv
<1>5. ASSUME NEW t \in Sessions \ {s} PROVE Timely(sess[t])'
  <2>1. sess'[t] = Idle
    BY <1>1, <1>3, TurnKeeps
  <2> QED
    BY <2>1 DEF Timely, Idle
<1> QED
  BY <1>1, <1>2, <1>3, <1>4, <1>5, ToldTurn

LEMMA ToldEnds ==
    ASSUME ToldInv, InTurn, part = "told", part' = part, NEW s \in Sessions, N!RunAlertRules(s) \/ N!Cut(s)
    PROVE  ToldGoal' /\ RowsKept
<1>1. PICK w : Turns(s, w) /\ w \in {N!Scan, Idle}
  BY DEF N!RunAlertRules, N!Cut, N!Begin, N!Finish, N!Go, N!Idle, Idle, Turns
<1>2. ScanWork(w) /\ Timely(w) /\ \A n : ~Holding(w, n)
  BY <1>1, FreshScan DEF Timely, Holding
<1>3. UNCHANGED <<day, setting, changed, open, notes>>
  BY DEF N!RunAlertRules, N!Cut
<1> QED
  BY <1>1, <1>2, <1>3, ToldGoes

\* Without a handler's turn, the rows of a notice are as many as they were.
LEMMA ToldInPlace ==
    ASSUME ToldInv, InTurn, part = "told", part' = part, alone' = alone, sess' = sess, day' = day,
           setting' \in Settings, changed' \/ (changed' = changed /\ setting' = setting),
           open' \subseteq Things, notes' \in [N!Notices -> Seq(N!Row)],
           \A n \in N!Notices : Len(notes'[n]) = Len(notes[n]) /\ (notes[n] = << >> => notes'[n] = << >>)
    PROVE  ToldGoal'
<1>1. InTurn'
  BY DEF InTurn
<1>2. \A n \in N!Notices : Holders(n)' = Holders(n)
  BY DEF Holders
<1>3. \A n : (Today(n) => Today(n)') /\ (Past(n) => Past(n)')
  BY DEF Today, Past, N!NoticesOn, N!NoticesAt
<1>4. \A s \in Sessions : Timely(sess[s])'
  <2> SUFFICES ASSUME NEW s \in Sessions PROVE Timely(sess[s])'
    OBVIOUS
  <2>1. PICK v : v = sess[s] /\ v = sess'[s]
    OBVIOUS
  <2>2. Timely(v)
    BY <2>1 DEF ToldInv
  <2> QED
    BY <1>3, <2>1, <2>2 DEF Timely
<1>5. \A n \in N!Notices : notes'[n] # << >> => Past(n)'
  BY <1>3 DEF ToldInv
<1>6. ToldInv'
  BY <1>2, <1>4, <1>5 DEF ToldInv, ScanWork
<1> QED
  BY <1>1, <1>6 DEF ToldGoal

LEMMA ToldClose ==
    ASSUME ToldInv, InTurn, part = "told", part' = part, NEW x, N!Close(x)
    PROVE  ToldGoal' /\ RowsKept
<1>1. alone' = alone /\ sess' = sess /\ UNCHANGED <<day, setting, changed, notes>> /\ open' \subseteq Things
  BY DEF N!Close, N!handlers, ToldInv
<1> QED
  BY <1>1, ToldInPlace, RowsSame DEF ToldInv

LEMMA ToldChange ==
    ASSUME ToldInv, InTurn, part = "told", part' = part, NEW c \in Settings, N!Change(c)
    PROVE  ToldGoal' /\ RowsKept
<1>1. alone' = alone /\ sess' = sess /\ UNCHANGED <<day, open, notes>> /\ setting' \in Settings /\ changed'
  BY DEF N!Change, N!handlers
<1> QED
  BY <1>1, ToldInPlace, RowsSame DEF ToldInv

\* Rows changed in place: to each its own change.
LEMMA ToldRows ==
    ASSUME ToldInv, InTurn, part = "told", part' = part, alone' = alone, sess' = sess,
           UNCHANGED <<day, setting, changed, open>>,
           DOMAIN notes' = N!Notices, notes' = [n \in N!Notices |-> notes'[n]],
           \A n \in N!Notices :
               notes'[n] = notes[n] \/
               \E f : /\ notes'[n] = [i \in DOMAIN notes[n] |-> f[i]]
                      /\ \A i \in DOMAIN notes[n] : f[i] \in N!Row /\ RowStays(notes[n][i], f[i])
    PROVE  ToldGoal' /\ RowsKept
<1>1. ASSUME NEW n \in N!Notices
      PROVE  /\ notes'[n] \in Seq(N!Row) /\ Len(notes'[n]) = Len(notes[n])
             /\ notes[n] = << >> => notes'[n] = << >>
             /\ DOMAIN notes'[n] = DOMAIN notes[n]
             /\ \A i \in DOMAIN notes[n] : RowStays(notes[n][i], notes'[n][i])
  <2>1. PICK k \in Nat : k = Len(notes[n]) /\ notes[n] \in [1 .. k -> N!Row] /\ DOMAIN notes[n] = 1 .. k
    BY DEF ToldInv
  <2>2. \A i \in 1 .. k : notes[n][i] \in N!Row /\ RowStays(notes[n][i], notes[n][i])
    BY <2>1, RowMoves
  <2>3. PICK g \in [1 .. k -> N!Row] : notes'[n] = g /\ \A i \in 1 .. k : RowStays(notes[n][i], g[i])
    <3>1. CASE notes'[n] = notes[n]
      BY <2>1, <2>2, <3>1
    <3>2. CASE notes'[n] # notes[n]
      <4>1. PICK f : /\ notes'[n] = [i \in DOMAIN notes[n] |-> f[i]]
                     /\ \A i \in DOMAIN notes[n] : f[i] \in N!Row /\ RowStays(notes[n][i], f[i])
        BY <3>2
      <4>2. PICK g : g = [i \in 1 .. k |-> f[i]]
        OBVIOUS
      <4>3. \A i \in 1 .. k : g[i] = f[i] /\ f[i] \in N!Row /\ RowStays(notes[n][i], f[i])
        BY <2>1, <4>1, <4>2
      <4>4. g \in [1 .. k -> N!Row] /\ \A i \in 1 .. k : RowStays(notes[n][i], g[i])
        BY <4>2, <4>3
      <4>5. notes'[n] = g
        BY <2>1, <4>1, <4>2
      <4> QED
        BY <4>4, <4>5
    <3> QED
      BY <3>1, <3>2
  <2>4. g \in Seq(N!Row) /\ Len(g) = k
    BY <2>3
  <2>5. ASSUME notes[n] = << >> PROVE g = << >>
    <3>1. k = 0
      BY <2>1, <2>5
    <3> QED
      BY <2>4, <3>1
  <2> QED
    BY <2>1, <2>3, <2>4, <2>5
<1>2. notes' \in [N!Notices -> Seq(N!Row)]
  BY <1>1
<1>3. ToldGoal'
  BY <1>1, <1>2, ToldInPlace DEF ToldInv
<1> QED
  BY <1>1, <1>3 DEF RowsKept

LEMMA ToldInbox ==
    ASSUME ToldInv, InTurn, part = "told", part' = part, N!Inbox
    PROVE  ToldGoal' /\ RowsKept
<1>1. alone' = alone /\ sess' = sess /\ UNCHANGED <<day, setting, changed, open>>
  BY DEF N!Inbox, N!handlers
<1>2. N!Known = N!Notices
  BY DEF N!Known, ToldInv
<1>3. \A n \in N!Notices : \A i \in DOMAIN notes[n] : notes[n][i] \in N!Row
  BY DEF ToldInv
<1>4. ASSUME NEW n \in N!Notices, NEW i \in DOMAIN notes[n], N!MarkRead(n, i)
      PROVE  ToldGoal' /\ RowsKept
  <2>1. PICK row : row = [notes[n][i] EXCEPT !.read = TRUE] /\ row \in N!Row /\ RowStays(notes[n][i], row)
    BY <1>3, RowMoves
  <2>2. PICK f : f = [notes[n] EXCEPT ![i] = row]
    OBVIOUS
  <2>3. notes' = [notes EXCEPT ![n] = f]
    BY <1>4, <2>1, <2>2 DEF N!MarkRead, N!Marked
  <2>4. notes' = [m \in N!Notices |-> notes'[m]]
    BY <2>3 DEF ToldInv
  <2>5. ASSUME NEW m \in N!Notices, m # n PROVE notes'[m] = notes[m]
    BY <2>3, <2>5 DEF ToldInv
  <2>6. notes'[n] = [j \in DOMAIN notes[n] |-> f[j]]
    BY <2>2, <2>3 DEF ToldInv
  <2>7. \A j \in DOMAIN notes[n] : f[j] \in N!Row /\ RowStays(notes[n][j], f[j])
    BY <1>3, <2>1, <2>2, RowMoves
  <2> QED
    BY <1>1, <2>4, <2>5, <2>6, <2>7, ToldRows
<1>5. ASSUME NEW u, N!MarkAllRead(u) PROVE ToldGoal' /\ RowsKept
  <2>1. notes' = [n \in N!Notices |-> notes'[n]]
    BY <1>2, <1>5 DEF N!MarkAllRead
  <2>2. ASSUME NEW n \in N!Notices, notes'[n] # notes[n]
        PROVE  \E f : /\ notes'[n] = [i \in DOMAIN notes[n] |-> f[i]]
                      /\ \A i \in DOMAIN notes[n] : f[i] \in N!Row /\ RowStays(notes[n][i], f[i])
    <3>1. PICK f : f = [i \in DOMAIN notes[n] |-> [notes[n][i] EXCEPT !.read = TRUE]]
      OBVIOUS
    <3>2. notes'[n] = f
      BY <1>2, <1>5, <2>2, <3>1 DEF N!MarkAllRead
    <3>3. \A i \in DOMAIN notes[n] : f[i] \in N!Row /\ RowStays(notes[n][i], f[i])
      BY <1>3, <3>1, RowMoves
    <3>4. f = [i \in DOMAIN notes[n] |-> f[i]]
      BY <3>1
    <3> QED
      BY <3>2, <3>3, <3>4
  <2> QED
    BY <1>1, <2>1, <2>2, ToldRows
<1>6. ASSUME N!RetryFailed PROVE ToldGoal' /\ RowsKept
  <2>1. notes' = [n \in N!Notices |-> notes'[n]]
    BY <1>2, <1>6 DEF N!RetryFailed
  <2>2. ASSUME NEW n \in N!Notices
        PROVE  \E f : /\ notes'[n] = [i \in DOMAIN notes[n] |-> f[i]]
                      /\ \A i \in DOMAIN notes[n] : f[i] \in N!Row /\ RowStays(notes[n][i], f[i])
    <3>1. PICK f : f = [i \in DOMAIN notes[n] |-> N!Retried(notes[n][i])]
      OBVIOUS
    <3>2. notes'[n] = f
      BY <1>2, <1>6, <3>1 DEF N!RetryFailed
    <3>3. \A i \in DOMAIN notes[n] : f[i] \in N!Row /\ RowStays(notes[n][i], f[i])
      BY <1>3, <3>1, RowMoves
    <3>4. f = [i \in DOMAIN notes[n] |-> f[i]]
      BY <3>1
    <3> QED
      BY <3>2, <3>3, <3>4
  <2> QED
    BY <1>1, <2>1, <2>2, ToldRows
<1> QED
  BY <1>2, <1>4, <1>5, <1>6 DEF N!Inbox

LEMMA ToldStep ==
    ASSUME ToldInv, InTurn, part = "told", part' = part, N!Next
    PROVE  ToldGoal' /\ RowsKept
<1>1. N!Known = N!Notices
  BY DEF N!Known, ToldInv
<1>2. ASSUME NEW s \in Sessions, N!ScanStep(s) PROVE ToldGoal' /\ RowsKept
  BY <1>1, <1>2, ToldSelect, ToldConclude, ToldNotify, ToldFails DEF N!ScanStep
<1>3. ASSUME NEW s \in Sessions, N!Step(s) PROVE ToldGoal' /\ RowsKept
  BY <1>2, <1>3, ToldDay, ToldEnds DEF N!Step
<1> QED
  BY <1>3, ToldClose, ToldChange, ToldInbox DEF N!Next

LEMMA ToldStarts ==
    ASSUME N!Init
    PROVE  ToldInv
<1>1. \A s \in Sessions : sess[s] = Idle
  BY DEF N!Init, N!AllIdle, N!Idle, Idle
<1>2. \A n : Holders(n) = {}
  BY <1>1 DEF Holders, Holding, Idle
<1>3. notes = [n \in N!Notices |-> << >>]
  BY DEF N!Init
<1>4. day \in 0 .. LastDay /\ setting \in Settings /\ open \subseteq Things
  BY AlertsAssumption DEF N!Init
<1>5. notes \in [N!Notices -> Seq(N!Row)] /\ \A n \in N!Notices : Len(notes[n]) = 0
  BY <1>3
<1>6. \A n \in N!Notices : Cardinality(Holders(n)) = 0
  BY <1>2, FS_EmptySet
<1>7. \A s \in Sessions : Timely(sess[s])
  BY <1>1 DEF Timely, Idle
<1> QED
  BY <1>1, <1>2, <1>3, <1>4, <1>5, <1>6, <1>7, HandlersFinite DEF ToldInv, ScanWork

LEMMA ToldStays ==
    ASSUME ToldInv, part # "told", part' = part, alone' = alone, UNCHANGED told
    PROVE  ToldInv' /\ RowsKept
<1>1. UNCHANGED <<day, setting, changed, open, notes>>
  BY DEF told
<1>2. \A n : Past(n)' = Past(n)
  BY <1>1 DEF Today, Past, N!NoticesOn, N!NoticesAt
<1> QED
  BY <1>1, <1>2, RowsSame DEF ToldInv

\* The passes of a rule have days ahead of their own, and each tells nobody as two.
LEMMA PassKinds ==
    ASSUME NEW i \in DOMAIN N!Passes, NEW j \in DOMAIN N!Passes, N!Passes[i].rule = N!Passes[j].rule,
           N!Passes[i].rule # "payroll" => N!Passes[i].ahead = N!Passes[j].ahead
    PROVE  N!Passes[i].label = N!Passes[j].label /\ N!Passes[i].ahead \in Nat
  BY AlertsAssumption DEF N!Passes

LEMMA PassRules ==
    ASSUME NEW i \in DOMAIN N!Passes
    PROVE  N!Passes[i].rule \in {"contract", "placement", "kpi", "task", "payroll", "prejoin"} /\ N!Passes[i].ahead \in Nat
  BY AlertsAssumption DEF N!Passes

LEMMA OneRole ==
    ASSUME NEW c, NEW x, RuleOf[x] \in {"contract", "placement", "kpi", "task", "payroll", "prejoin"},
           NEW v \in N!Recipients(c, x), NEW w \in N!Recipients(c, x), v[1] = w[1]
    PROVE  v[2] = w[2]
<1>1. CASE RuleOf[x] = "contract"
  BY <1>1 DEF N!Recipients
<1>2. CASE RuleOf[x] = "prejoin"
  BY <1>2 DEF N!Recipients
<1>3. CASE RuleOf[x] \in {"placement", "kpi"}
  BY <1>3 DEF N!Recipients
<1>4. CASE RuleOf[x] = "task"
  BY <1>4 DEF N!Recipients
<1>5. CASE RuleOf[x] = "payroll"
  BY <1>5 DEF N!Recipients
<1> QED
  BY <1>1, <1>2, <1>3, <1>4, <1>5

\* A user has one notice of a thing on a day, as the rules read it.
LEMMA OneNotice ==
    ASSUME NEW c \in Settings, NEW d \in 0 .. LastDay, NEW m \in N!NoticesOn(c, d), NEW n \in N!NoticesOn(c, d),
           m[1] = n[1], m[2] = n[2]
    PROVE  m = n
<1>1. PICK i \in DOMAIN N!Passes : m \in N!NoticesAt(c, N!Passes[i], d)
  BY DEF N!NoticesOn
<1>2. PICK j \in DOMAIN N!Passes : n \in N!NoticesAt(c, N!Passes[j], d)
  BY DEF N!NoticesOn
<1>3. PICK x \in Things :
         N!Selected(c, x, N!Passes[i], d) /\ \E who \in N!Recipients(c, x) : m = N!Notice(c, x, N!Passes[i], d, who)
  BY <1>1 DEF N!NoticesAt
<1>4. PICK v \in N!Recipients(c, x) : m = N!Notice(c, x, N!Passes[i], d, v)
  BY <1>3
<1>10. PICK y \in Things :
         N!Selected(c, y, N!Passes[j], d) /\ \E who \in N!Recipients(c, y) : n = N!Notice(c, y, N!Passes[j], d, who)
  BY <1>2 DEF N!NoticesAt
<1>11. PICK w \in N!Recipients(c, y) : n = N!Notice(c, y, N!Passes[j], d, w)
  BY <1>10
<1>5. x = y /\ v[1] = w[1]
  BY <1>3, <1>4, <1>10, <1>11 DEF N!Notice
<1>6. RuleOf[x] = N!Passes[i].rule /\ RuleOf[x] = N!Passes[j].rule
  BY <1>3, <1>4, <1>10, <1>11, <1>5 DEF N!Selected
<1>7. v[2] = w[2]
  BY <1>3, <1>4, <1>10, <1>11, <1>5, <1>6, OneRole, PassRules
<1>8. CASE N!Overdue(c, x, d)
  BY <1>3, <1>4, <1>10, <1>11, <1>5, <1>7, <1>8 DEF N!Notice
<1>9. CASE ~N!Overdue(c, x, d)
  <2>1. c.date[x] \in Int /\ d \in Int /\ N!Passes[i].ahead \in Nat /\ N!Passes[j].ahead \in Nat
    BY AlertsAssumption, PassRules
  <2>2. RuleOf[x] # "payroll" => c.date[x] = d + N!Passes[i].ahead /\ c.date[x] = d + N!Passes[j].ahead
    BY <1>3, <1>4, <1>10, <1>11, <1>5, <1>6, <1>9 DEF N!Selected
  <2>3. RuleOf[x] # "payroll" => N!Passes[i].ahead = N!Passes[j].ahead
    BY <2>1, <2>2
  <2>4. N!Passes[i].label = N!Passes[j].label
    BY <1>6, <2>3, PassKinds
  <2> QED
    BY <1>3, <1>4, <1>10, <1>11, <1>5, <1>7, <1>9, <2>4 DEF N!Notice
<1> QED
  BY <1>8, <1>9

LEMMA ToldShow ==
    ASSUME ToldInv
    PROVE  N!TypeOK /\ N!NotifiedOnce
<1>1. N!Known = N!Notices
  BY DEF N!Known, ToldInv
<1>2. day \in N!Days /\ setting \in Settings /\ open \subseteq Things
  BY DEF ToldInv, N!Days
<1>3. ASSUME NEW n \in N!Notices PROVE Len(notes[n]) <= N!Cardinality(Sessions)
  <2>1. Len(notes[n]) \in Nat /\ Holders(n) \subseteq Sessions
    BY DEF ToldInv, Holders
  <2>2. Cardinality(Holders(n)) \in Nat /\ Cardinality(Sessions) \in Nat
    BY <2>1, HandlersFinite
  <2>3. Len(notes[n]) <= Cardinality(Sessions)
    BY <2>1, <2>2 DEF ToldInv
  <2> QED
    BY <2>3, SameCardinality
<1>4. \A n \in N!Notices : \A i \in DOMAIN notes[n] : notes[n][i] \in N!Row
  BY DEF ToldInv
<1>5. N!TypeOK
  BY <1>1, <1>2, <1>3, <1>4 DEF N!TypeOK
<1>6. ASSUME ~changed, NEW m \in N!Notices, NEW n \in N!Notices, m[3] = day, n[3] = day, N!Told(m), N!Told(n),
             m[1] = n[1], m[2] = n[2]
      PROVE  m = n
  <2>1. m \in N!NoticesOn(setting, day) /\ n \in N!NoticesOn(setting, day)
    BY <1>6 DEF ToldInv, Past, Today, N!Told
  <2> QED
    BY <1>6, <2>1, OneNotice DEF ToldInv
<1> QED
  BY <1>1, <1>5, <1>6 DEF N!NotifiedOnce, ToldInv

\* No step changes whether handlers overlap.
LEMMA AccountsAlone == A!Next => alone' = alone
<1>1. ASSUME NEW s \in Sessions, A!Request(s) PROVE alone' = alone
  BY <1>1 DEF A!Request, A!LoginRefused, A!LoginWrong, A!LoginEarly, A!LoginRight, A!UnlockUser, A!Deactivate,
     A!ForgotPassword, A!ChangePassword, A!ResetPassword, A!Begin, A!Go
<1>2. ASSUME NEW s \in Sessions, A!Step(s) PROVE alone' = alone
  BY <1>1, <1>2 DEF A!Step, A!IssueReset, A!ConsumeReset, A!Store, A!Audit, A!Answer, A!Cut, A!Finish, A!Go
<1> QED
  BY <1>2 DEF A!Next, A!Tick

LEMMA TokensAlone == T!Next => alone' = alone
<1>1. ASSUME NEW s \in Sessions, T!Step(s) PROVE alone' = alone
  BY <1>1 DEF T!Step, T!Login, T!Deactivate, T!Logout, T!Refresh, T!Abort, T!LoadUser, T!RevokeOld, T!AuditPair,
     T!HandOut, T!LogoutCommit, T!DeactivateCommit, T!Begin, T!Finish, T!Go
<1> QED
  BY <1>1 DEF T!Next, T!Tick

LEMMA RightsAlone == P!Next => alone' = alone
  BY DEF P!Next, P!Step, P!Toggle, P!ToggleCommit, P!AuditCommit, P!Cut, P!Begin, P!Finish, P!Go

LEMMA AlertsAlone ==
    ASSUME ToldInv, part = "told", N!Next
    PROVE  alone' = alone
<1>1. ASSUME NEW s \in Sessions, NEW i, NEW added, N!OnTo(s, i, added) PROVE alone' = alone
  BY <1>1 DEF N!OnTo, N!Finish, N!Go
<1>2. ASSUME NEW s \in Sessions, NEW n \in N!Notices, N!Notify(s, n) PROVE alone' = alone
  <2>1. Scanner(sess[s])
    BY <1>2 DEF N!Notify, N!Scanning, ToldInv, ScanWork, Idle
  <2>2. PICK c \in Nat : c = N!Cardinality(N!Found(s, n)) /\ (c = 0 <=> N!Found(s, n) = {})
    BY <2>1, NoneFound, SameCardinality, FS_CardinalityType, FS_EmptySet
  <2>3. c > 1 \/ c = 1 \/ N!Found(s, n) = {}
    BY <2>2
  <2> QED
    BY <1>1, <1>2, <2>2, <2>3 DEF N!Notify, N!Raise, N!Go
<1>3. ASSUME NEW s \in Sessions, NEW n, NEW added, N!NotifyFails(s, n, added) PROVE alone' = alone
  BY <1>1, <1>3 DEF N!NotifyFails, N!Go
<1>4. ASSUME NEW s \in Sessions, N!Step(s) PROVE alone' = alone
  <2>1. N!Known = N!Notices
    BY DEF N!Known, ToldInv
  <2> QED
    BY <1>1, <1>2, <1>3, <1>4, <2>1 DEF N!Step, N!NewDay, N!RunAlertRules, N!ScanStep, N!Select, N!Conclude, N!Cut,
       N!Begin, N!Finish, N!Go
<1> QED
  BY <1>4 DEF N!Next, N!Close, N!Change, N!Inbox, N!handlers
-----------------------------------------------------------------------------
\* All parts, of which one is at work.
Inv ==
    /\ part \in {"lock", "pairs", "rights", "told"}
    /\ InTurn /\ LockInv /\ PairsInv /\ RightsInv /\ ToldInv
\* What a step may not do.
Kept == Shut /\ InTime /\ RowsKept

LEMMA Starts == Init => Inv
<1> SUFFICES ASSUME Init PROVE Inv
  OBVIOUS
<1>1. InTurn
  BY DEF Init, A!Init, A!AllIdle, A!Idle, InTurn, Idle
<1> QED
  BY <1>1, LockStarts, TokensStart, RightsStarts, ToldStarts DEF Init, Inv

\* A step that changes nothing.
LEMMA LockQuiet ==
    ASSUME LockInv, part = "lock", part' = part, alone' = alone, sess' = sess, UNCHANGED lock
    PROVE  LockInv' /\ Shut
<1>1. /\ UNCHANGED <<now, accounts, resets, trail, entries, misses, resetsDone, cut>>
      /\ AccountTypes => AccountTypes'
      /\ ResetsOnce => ResetsOnce'
      /\ ResetTold => ResetTold'
  BY LockSame
<1>2. \A w : LockWork(w) => LockWork(w)'
  <2>1. ASSUME NEW w PROVE ConsumeWork(w) => ConsumeWork(w)'
    BY <1>1 DEF ConsumeWork
  <2>2. ASSUME NEW w PROVE AccountWork(w) => AccountWork(w)'
    BY <1>1, LockSame DEF AccountWork, LoginRow, Work
  <2> QED
    BY <2>1, <2>2 DEF LockWork
<1>3. \A s \in Sessions : LockWork(sess[s])'
  <2> SUFFICES ASSUME NEW s \in Sessions PROVE LockWork(sess[s])'
    OBVIOUS
  <2>1. PICK v : v = sess[s] /\ v = sess'[s]
    OBVIOUS
  <2> QED
    BY <1>2, <2>1 DEF LockInv
<1>4. ~cut' => ResetTold' \/ \E s \in Sessions : AtReset(sess'[s])
  BY <1>1 DEF LockInv
<1>5. alone' => \A u \in Logins : Settled(accounts[u], misses[u])' \/ \E s \in Sessions : Midway(sess'[s], u)
  BY <1>1 DEF LockInv, Settled
<1>6. Shut
  BY <1>1 DEF Shut
<1> QED
  BY <1>1, <1>3, <1>4, <1>5, <1>6 DEF LockInv, AtReset, Midway

LEMMA TokensQuiet ==
    ASSUME PairsInv, part = "pairs", part' = part, alone' = alone, sess' = sess, UNCHANGED pairs
    PROVE  PairsInv' /\ InTime
<1>1. UNCHANGED <<halves, active, revoked, issued, repeated, held, spent, twice, logged>>
  BY DEF pairs
<1>2. \A w : TokenWork(w) => TokenWork(w)'
  <2>1. ASSUME NEW w PROVE PairWork(w) => PairWork(w)'
    BY <1>1 DEF PairWork, PairFacts, T!Valid, T!Token, Gone, Lapsing, T!Exp
  <2> QED
    BY <1>1, <2>1 DEF TokenWork, LogoutWork, LeaverWork
<1>3. \A s \in Sessions : TokenWork(sess[s])'
  <2> SUFFICES ASSUME NEW s \in Sessions PROVE TokenWork(sess[s])'
    OBVIOUS
  <2>1. PICK v : v = sess[s] /\ v = sess'[s]
    OBVIOUS
  <2> QED
    BY <1>2, <2>1 DEF PairsInv
<1> QED
  BY <1>1, <1>3 DEF PairsInv, Listed, SpentOnce, Gone, Lapsing, T!Exp, Stamped, InTime

LEMMA RightsQuiet ==
    ASSUME RightsInv, part = "rights", part' = part, alone' = alone, sess' = sess, UNCHANGED rights
    PROVE  RightsInv'
<1>1. UNCHANGED <<seeded, granted, changes, torn>>
  BY DEF rights
<1>2. \A what : Agrees(what)' <=> Agrees(what)
  BY <1>1, SameLog DEF Agrees
<1>3. \A s \in Sessions : RightsWork(sess[s])'
  <2> SUFFICES ASSUME NEW s \in Sessions PROVE RightsWork(sess[s])'
    OBVIOUS
  <2>1. PICK v : v = sess[s] /\ v = sess'[s]
    OBVIOUS
  <2>2. ASSUME NEW op, RightsHolds(v, op) PROVE RightsHolds(v, op)'
    <3>1. PICK r \in Roles, c \in Codes, grant \in BOOLEAN, existing \in BOOLEAN, who \in Actors :
             /\ v = [op |-> op, grant |-> grant, existing |-> existing, what |-> <<r, c>>, user |-> who, by |-> P!Personas(who)]
             /\ grant \/ r \notin Executives
             /\ alone /\ op = "toggle" => (existing <=> <<r, c>> \in granted)
      BY <2>2 DEF RightsHolds
    <3>2. alone' /\ op = "toggle" => (existing <=> <<r, c>> \in granted')
      BY <1>1, <3>1
    <3> QED
      BY <3>1, <3>2 DEF RightsHolds
  <2>3. RightsWork(v)'
    BY <2>1, <2>2 DEF RightsInv, RightsWork
  <2> QED
    BY <2>1, <2>3
<1>4. LogKept'
  <2>1. ASSUME NEW w, Telling(w) PROVE Telling(w)'
    BY <1>1, <1>2, <2>1 DEF Telling
  <2>2. LogKept
    BY DEF RightsInv
  <2>3. CASE ~(alone /\ ~torn)
    BY <1>1, <2>3 DEF LogKept
  <2>4. CASE alone /\ ~torn
    <3>1. (\A s \in Sessions : sess'[s].op # "audit") => \A what \in Roles \X Codes : Agrees(what)'
      BY <1>2, <2>2, <2>4 DEF LogKept
    <3>2. ASSUME NEW s \in Sessions, sess'[s].op = "audit" PROVE Telling(sess[s])'
      <4>1. PICK v : v = sess[s] /\ v = sess'[s]
        OBVIOUS
      <4>2. Telling(v)
        BY <2>2, <2>4, <3>2, <4>1 DEF LogKept
      <4>3. Telling(v)'
        BY <2>1, <4>2
      <4> QED
        BY <4>1, <4>3
    <3> QED
      BY <3>1, <3>2 DEF LogKept
  <2> QED
    BY <2>3, <2>4
<1> QED
  BY <1>1, <1>3, <1>4 DEF RightsInv

LEMMA ToldQuiet ==
    ASSUME ToldInv, part' = part, alone' = alone, sess' = sess, UNCHANGED told
    PROVE  ToldInv' /\ RowsKept
<1>1. UNCHANGED <<day, setting, changed, open, notes>>
  BY DEF told
<1>2. \A n : Holders(n)' = Holders(n)
  BY DEF Holders
<1>3. \A n : Today(n)' = Today(n) /\ Past(n)' = Past(n)
  BY <1>1 DEF Today, Past, N!NoticesOn, N!NoticesAt
<1>4. \A s \in Sessions : Timely(sess[s]) => Timely(sess[s])'
  BY <1>3 DEF Timely
<1> QED
  BY <1>1, <1>2, <1>3, <1>4, RowsSame DEF ToldInv, ScanWork

LEMMA Steps == Inv /\ [Next]_vars => Inv' /\ Kept
<1> SUFFICES ASSUME Inv, [Next]_vars PROVE Inv' /\ Kept
  OBVIOUS
<1> USE DEF Inv, Kept
<1>1. CASE UNCHANGED vars
  <2>1. /\ part' = part /\ alone' = alone /\ sess' = sess
        /\ UNCHANGED lock /\ UNCHANGED pairs /\ UNCHANGED rights /\ UNCHANGED told
    BY <1>1 DEF vars
  <2>2. InTurn'
    BY <2>1 DEF InTurn
  <2>3. LockInv' /\ Shut
    BY <2>1, LockQuiet, LockStays
  <2>4. PairsInv' /\ InTime
    BY <2>1, TokensQuiet, TokensStay
  <2>5. RightsInv'
    BY <2>1, RightsQuiet, RightsStays
  <2>6. ToldInv' /\ RowsKept
    BY <2>1, ToldQuiet
  <2> QED
    BY <2>1, <2>2, <2>3, <2>4, <2>5, <2>6
<1>2. CASE part' = part /\ part = "lock" /\ A!Next /\ UNCHANGED <<pairs, rights, told>>
  <2>1. LockGoal' /\ Shut
    BY <1>2, LockStep
  <2>2. alone' = alone
    BY <1>2, AccountsAlone
  <2> QED
    BY <1>2, <2>1, <2>2, TokensStay, RightsStays, ToldStays DEF LockGoal
<1>3. CASE part' = part /\ part = "pairs" /\ T!Next /\ UNCHANGED <<lock, rights, told>>
  <2>1. PairsGoal' /\ InTime
    BY <1>3, TokensStep
  <2>2. alone' = alone
    BY <1>3, TokensAlone
  <2> QED
    BY <1>3, <2>1, <2>2, LockStays, RightsStays, ToldStays DEF PairsGoal
<1>4. CASE part' = part /\ part = "rights" /\ P!Next /\ UNCHANGED <<lock, pairs, told>>
  <2>1. RightsGoal'
    BY <1>4, RightsStep DEF P!Next
  <2>2. alone' = alone
    BY <1>4, RightsAlone
  <2> QED
    BY <1>4, <2>1, <2>2, LockStays, TokensStay, ToldStays DEF RightsGoal
<1>5. CASE part' = part /\ part = "told" /\ N!Next /\ UNCHANGED <<lock, pairs, rights>>
  <2>1. ToldGoal' /\ RowsKept
    BY <1>5, ToldStep
  <2>2. alone' = alone
    BY <1>5, AlertsAlone
  <2> QED
    BY <1>5, <2>1, <2>2, LockStays, TokensStay, RightsStays DEF ToldGoal
<1> QED
  BY <1>1, <1>2, <1>3, <1>4, <1>5 DEF Next

LEMMA InvHolds == Spec => []Inv
  BY Starts, Steps, PTL DEF Spec

\* Accounts, tokens, permissions and alerts are of their types, and no notice
\* has more rows than there are handlers.
THEOREM AccessType == Spec => []TypeOK
<1>1. Inv => TypeOK
  BY LockShow, TokensShow, RightsShow, ToldShow DEF Inv, TypeOK
<1> QED
  BY <1>1, InvHolds, PTL

\* For any users and any number of handlers: five wrong passwords lock, resets
\* are used once, and tokens so before their last second, every pair is in the audit
\* log and works, no change of permissions locks the executives out or is lost from
\* the log, and on a day on which nothing changes nobody is told a thing twice.
THEOREM AccessKept == Spec => []AccessHolds
<1>1. Inv => AccessHolds
  BY LockShow, TokensShow, RightsShow, ToldShow DEF Inv, AccessHolds
<1> QED
  BY <1>1, InvHolds, PTL

\* Nobody gets in while locked or deactivated, and a notification that was read
\* or delivered stays so.
THEOREM AccessStepsKept == Spec => AccessSteps
<1>1. Inv /\ [Next]_vars =>
        [alone => \A e \in entries' \ entries : misses[e[1]] < 5]_A!accountVars
  BY Steps DEF Kept, Shut
<1>2. Inv /\ [Next]_vars => [alone => \A t \in issued' \ issued : active[t[1]]]_T!tokenVars
  BY Steps DEF Kept, InTime
<1>3. Inv /\ [Next]_vars =>
        [\A n \in N!Known : \A i \in DOMAIN notes[n] :
            /\ i \in DOMAIN notes'[n]
            /\ notes[n][i].read => notes'[n][i].read
            /\ notes[n][i].status = "DELIVERED"
                 => notes'[n][i] = [notes[n][i] EXCEPT !.read = notes'[n][i].read]]_N!alertVars
  BY Steps DEF Kept, RowsKept, RowStays, Inv, ToldInv, N!Known
<1> QED
  BY <1>1, <1>2, <1>3, InvHolds, PTL DEF Spec, AccessSteps, A!NoEntryWhileLocked, T!DeactivatedStaysOut, N!RowsStay
=============================================================================
