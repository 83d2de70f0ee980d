--------------------------- MODULE RequestsProofs ---------------------------
(***************************************************************************)
(* Proofs about MCRequests for any employees, users, rows and handlers.    *)
(***************************************************************************)
EXTENDS MCRequests, FiniteSetTheorems, TLAPS

-----------------------------------------------------------------------------
\* What all handlers have in common: alone, one is at work at a time.
Idle == [op |-> "idle"]
InTurn ==
    /\ alone \in BOOLEAN
    /\ sess = [s \in Sessions |-> sess[s]]
    /\ alone => \A s, t \in Sessions : sess[s] # Idle /\ sess[t] # Idle => s = t

\* A step of handler s: it begins, goes on or ends.
Turns(s, w) ==
    /\ alone' = alone
    /\ sess' = [sess EXCEPT ![s] = w]
    /\ \/ sess[s] # Idle
       \/ alone => \A t \in Sessions : sess[t] = Idle

LEMMA TurnKeeps ==
    ASSUME InTurn, NEW s \in Sessions, NEW w, Turns(s, w)
    PROVE  /\ InTurn'
           /\ sess'[s] = w
           /\ \A t \in Sessions \ {s} : sess'[t] = sess[t] /\ (alone => sess[t] = Idle)
<1>1. sess'[s] = w /\ \A t \in Sessions \ {s} : sess'[t] = sess[t]
  BY DEF InTurn, Turns
<1>2. \A t \in Sessions \ {s} : alone => sess[t] = Idle
  BY DEF InTurn, Turns
<1>3. sess' = [t \in Sessions |-> sess'[t]]
  BY DEF InTurn, Turns
<1> QED
  BY <1>1, <1>2, <1>3 DEF InTurn, Turns

LEMMA Replaced ==
    ASSUME NEW Rows, NEW r \in Rows, NEW f, NEW g,
           f = [x \in Rows |-> f[x]], g = [x \in Rows |-> g[x]],
           \A x \in Rows \ {r} : g[x] = f[x]
    PROVE  g = [f EXCEPT ![r] = g[r]] /\ (g[r] = f[r] => g = f)
<1>1. DOMAIN f = Rows /\ DOMAIN g = Rows
  OBVIOUS
<1>2. [f EXCEPT ![r] = g[r]] = [x \in Rows |-> IF x = r THEN g[r] ELSE f[x]]
  BY <1>1
<1>3. [f EXCEPT ![r] = g[r]] = [x \in Rows |-> g[x]]
  BY <1>2
<1>4. g[r] = f[r] => [x \in Rows |-> g[x]] = [x \in Rows |-> f[x]]
  OBVIOUS
<1> QED
  BY <1>3, <1>4
-----------------------------------------------------------------------------
\* Reimbursements.  What is true of a row, and of what a handler will write.
ReimbSound(q) ==
    /\ q.status = "PENDING_L2" => q.l1 # NoUser
    /\ q.status \in {"APPROVED", "TRANSFERRED"} \/ q.paid => NoUser \notin {q.l1, q.l2}
    /\ UserOf[q.employee] \notin {q.l1, q.l2}
\* now is seen at a later time, or after more changes.
ReimbLater(now, seen) ==
    /\ now.employee = seen.employee
    /\ seen.l1 # NoUser => now.l1 # NoUser
    /\ seen.l2 # NoUser => now.l2 # NoUser
ReimbMove(q, n) ==
    \/ \E u \in ReimbApprovers : R!MayApproveL1(q, u) /\ n = R!ApprovedL1(q, u)
    \/ \E u \in ReimbApprovers : R!MayApproveL2(q, u) /\ n = R!ApprovedL2(q, u)
    \/ R!MayReject(q) /\ n = R!Rejected(q)
    \/ R!MayCancel(q) /\ n = R!Cancelled(q)
    \/ R!MayTransfer(q) /\ n = R!Transferred(q)

ReimbAdds(w) == \E e \in Employees : w = [op |-> "add", table |-> "reimbs", new |-> R!NewRow(e)]
ReimbEdits(w) ==
    \E r \in Reimbs : \E q, n \in R!Row :
        /\ w = [op |-> "edit", table |-> "reimbs", key |-> r, seen |-> q, new |-> n]
        /\ R!Exists(r) /\ ReimbSound(q) /\ ReimbMove(q, n)
        /\ ReimbLater(reimbs[r], q)
        /\ alone => q = reimbs[r]
ReimbWork(w) == w = Idle \/ ReimbAdds(w) \/ ReimbEdits(w)

ReimbRows == R!TypeOK /\ \A r \in Reimbs : R!Exists(r) => ReimbSound(reimbs[r])
ReimbInv ==
    /\ ReimbRows
    /\ part = "reimbursement" => \A s \in Sessions : ReimbWork(sess[s])

LEMMA ReimbRowIsThere ==
    ASSUME R!TypeOK, NEW r \in Reimbs
    PROVE  /\ R!NoRow \notin R!Row
           /\ R!Exists(r) <=> reimbs[r] \in R!Row
  BY DEF R!TypeOK, R!Exists, R!NoRow, R!Row

LEMMA ReimbMoves ==
    ASSUME NEW q \in R!Row, ReimbSound(q), NEW n, ReimbMove(q, n)
    PROVE  n \in R!Row /\ ReimbSound(n) /\ ReimbLater(n, q)
<1> USE RequestsAssumption DEF R!Row, R!Statuses, ReimbSound, ReimbLater
<1>1. ASSUME NEW u \in ReimbApprovers, R!MayApproveL1(q, u), n = R!ApprovedL1(q, u)
      PROVE  n \in R!Row /\ ReimbSound(n) /\ ReimbLater(n, q)
  BY <1>1 DEF R!MayApproveL1, R!ApprovedL1
<1>2. ASSUME NEW u \in ReimbApprovers, R!MayApproveL2(q, u), n = R!ApprovedL2(q, u)
      PROVE  n \in R!Row /\ ReimbSound(n) /\ ReimbLater(n, q)
  BY <1>2 DEF R!MayApproveL2, R!ApprovedL2
<1>3. CASE R!MayReject(q) /\ n = R!Rejected(q)
  BY <1>3 DEF R!MayReject, R!Rejected
<1>4. CASE R!MayCancel(q) /\ n = R!Cancelled(q)
  BY <1>4 DEF R!MayCancel, R!Cancelled
<1>5. CASE R!MayTransfer(q) /\ n = R!Transferred(q)
  BY <1>5 DEF R!MayTransfer, R!Transferred
<1> QED
  BY <1>1, <1>2, <1>3, <1>4, <1>5 DEF ReimbMove

LEMMA ReimbMerge ==
    ASSUME NEW now \in R!Row, NEW q \in R!Row, NEW n \in R!Row,
           ReimbSound(now), ReimbSound(n), ReimbLater(now, q), ReimbLater(n, q)
    PROVE  /\ R!Merge(now, q, n) \in R!Row
           /\ ReimbSound(R!Merge(now, q, n))
           /\ ReimbLater(R!Merge(now, q, n), now)
           /\ now = q => R!Merge(now, q, n) = n
<1> DEFINE m == R!Merge(now, q, n)
<1>1. /\ DOMAIN now = {"status", "employee", "l1", "l2", "paid"}
      /\ DOMAIN n = DOMAIN now
  BY DEF R!Row
<1>2. m = [status   |-> IF n.status = q.status THEN now.status ELSE n.status,
           employee |-> IF n.employee = q.employee THEN now.employee ELSE n.employee,
           l1       |-> IF n.l1 = q.l1 THEN now.l1 ELSE n.l1,
           l2       |-> IF n.l2 = q.l2 THEN now.l2 ELSE n.l2,
           paid     |-> IF n.paid = q.paid THEN now.paid ELSE n.paid]
  BY <1>1 DEF R!Merge
<1> HIDE DEF m
<1>3. m \in R!Row
  BY <1>2 DEF R!Row
<1>4. /\ m.employee = now.employee /\ m.employee = n.employee
      /\ m.l1 \in {now.l1, n.l1} /\ m.l2 \in {now.l2, n.l2}
      /\ m.status \in {now.status, n.status} /\ m.paid \in {now.paid, n.paid}
      /\ now.l1 # NoUser \/ n.l1 # NoUser => m.l1 # NoUser
      /\ now.l2 # NoUser \/ n.l2 # NoUser => m.l2 # NoUser
  BY <1>2 DEF ReimbLater
<1>5. ReimbSound(m) /\ ReimbLater(m, now)
  BY <1>3, <1>4 DEF ReimbSound, ReimbLater, R!Row
<1>6. now = q => m = n
  BY <1>2 DEF R!Row
<1> QED
  BY <1>3, <1>5, <1>6 DEF m

LEMMA ReimbRuns ==
    ASSUME InTurn, ReimbInv, part = "reimbursement", NEW s \in Sessions, NEW w, Turns(s, w),
           UNCHANGED <<part, reimbs>>, ReimbWork(w)
    PROVE  ReimbInv'
<1>1. ReimbRows'
  BY DEF ReimbInv, ReimbRows, R!TypeOK, R!Exists
<1>2. ASSUME NEW t \in Sessions PROVE ReimbWork(sess[t])'
  <2>1. PICK v : v = sess'[t]
    OBVIOUS
  <2>2. ReimbWork(v)
    BY <2>1, TurnKeeps DEF ReimbInv
  <2>3. ReimbWork(v)'
    BY <2>2 DEF ReimbWork, ReimbAdds, ReimbEdits, R!Exists, Turns
  <2> QED
    BY <2>1, <2>3
<1> QED
  BY <1>1, <1>2 DEF ReimbInv

LEMMA ReimbWritten ==
    ASSUME InTurn, ReimbInv, part = "reimbursement", NEW s \in Sessions, Turns(s, Idle),
           part' = part, NEW r \in Reimbs, NEW row \in R!Row,
           reimbs' = [reimbs EXCEPT ![r] = row], ReimbSound(row),
           R!Exists(r) => ReimbLater(row, reimbs[r])
    PROVE  ReimbInv'
<1>1. /\ reimbs'[r] = row
      /\ \A x \in Reimbs \ {r} : reimbs'[x] = reimbs[x]
      /\ reimbs' \in [Reimbs -> R!Row \cup {R!NoRow}]
  BY DEF ReimbInv, ReimbRows, R!TypeOK
<1>2. ReimbRows'
  BY <1>1 DEF ReimbInv, ReimbRows, R!TypeOK, R!Exists
<1>3. \A x \in Reimbs : R!Exists(x) => R!Exists(x)' /\ ReimbLater(reimbs'[x], reimbs[x])
  <2>1. R!Exists(r)'
    BY <1>1, <1>2, ReimbRowIsThere DEF ReimbInv, ReimbRows, R!Exists
  <2> QED
    BY <1>1, <2>1 DEF R!Exists, ReimbLater
<1>4. ASSUME NEW t \in Sessions PROVE ReimbWork(sess[t])'
  <2>1. PICK v : v = sess'[t]
    OBVIOUS
  <2>2. v = Idle \/ (ReimbWork(v) /\ ~alone)
    BY <2>1, TurnKeeps DEF ReimbInv, InTurn
  <2>3. ReimbAdds(v) => ReimbAdds(v)'
    BY DEF ReimbAdds
  <2>4. ~alone /\ ReimbEdits(v) => ReimbEdits(v)'
    <3> SUFFICES ASSUME ~alone, ReimbEdits(v) PROVE ReimbEdits(v)'
      OBVIOUS
    <3>1. PICK x \in Reimbs, q \in R!Row, n \in R!Row :
            /\ v = [op |-> "edit", table |-> "reimbs", key |-> x, seen |-> q, new |-> n]
            /\ R!Exists(x) /\ ReimbSound(q) /\ ReimbMove(q, n)
            /\ ReimbLater(reimbs[x], q)
      BY DEF ReimbEdits
    <3>2. ReimbLater(reimbs'[x], q)
      BY <1>3, <3>1 DEF ReimbLater
    <3> QED
      BY <1>3, <3>1, <3>2 DEF ReimbEdits, Turns
  <2>5. ReimbWork(v)'
    BY <2>2, <2>3, <2>4 DEF ReimbWork
  <2> QED
    BY <2>1, <2>5
<1> QED
  BY <1>2, <1>4 DEF ReimbInv

\* What the change of one row is, seen as a two-layer approval.
LEMMA ReimbShown ==
    ASSUME R!TypeOK, alone, alone', NEW r \in Reimbs, NEW row \in R!Row,
           reimbs' = [reimbs EXCEPT ![r] = row],
           \/ ~R!Exists(r) /\ \E e \in Employees : row = R!NewRow(e)
           \/ R!Exists(r) /\ ReimbMove(reimbs[r], row)
    PROVE  R!Approval!Next
<1> DEFINE status == [x \in Reimbs |-> IF alone THEN reimbs[x].status ELSE "NONE"]
           owner  == [x \in Reimbs |-> IF alone /\ R!Exists(x) THEN UserOf[reimbs[x].employee] ELSE NoUser]
           first  == [x \in Reimbs |-> IF alone /\ R!Exists(x) THEN reimbs[x].l1 ELSE NoUser]
           second == [x \in Reimbs |-> IF alone /\ R!Exists(x) THEN reimbs[x].l2 ELSE NoUser]
<1>1. /\ reimbs'[r] = row
      /\ \A x \in Reimbs \ {r} : reimbs'[x] = reimbs[x]
      /\ row # R!NoRow
  BY ReimbRowIsThere DEF R!TypeOK
<1>2. \A x \in Reimbs : R!Exists(x)' <=> (x = r \/ R!Exists(x))
  BY <1>1 DEF R!Exists
<1>3. /\ status' = [status EXCEPT ![r] = row.status]
      /\ owner' = [owner EXCEPT ![r] = UserOf[row.employee]]
      /\ first' = [first EXCEPT ![r] = row.l1]
      /\ second' = [second EXCEPT ![r] = row.l2]
      /\ owner[r] = UserOf[row.employee] => owner' = owner
      /\ first[r] = row.l1 => first' = first
      /\ second[r] = row.l2 => second' = second
  <2>1. /\ status'[r] = row.status /\ owner'[r] = UserOf[row.employee]
        /\ first'[r] = row.l1 /\ second'[r] = row.l2
    BY <1>1, <1>2
  <2>2. \A x \in Reimbs \ {r} : /\ status'[x] = status[x] /\ owner'[x] = owner[x]
                               /\ first'[x] = first[x] /\ second'[x] = second[x]
    BY <1>1, <1>2
  <2>3. /\ status = [x \in Reimbs |-> status[x]] /\ status' = [x \in Reimbs |-> status'[x]]
        /\ owner = [x \in Reimbs |-> owner[x]] /\ owner' = [x \in Reimbs |-> owner'[x]]
        /\ first = [x \in Reimbs |-> first[x]] /\ first' = [x \in Reimbs |-> first'[x]]
        /\ second = [x \in Reimbs |-> second[x]] /\ second' = [x \in Reimbs |-> second'[x]]
    OBVIOUS
  <2> HIDE DEF status, owner, first, second
  <2> QED
    BY <2>1, <2>2, <2>3, Replaced
<1>4. CASE ~R!Exists(r) /\ \E e \in Employees : row = R!NewRow(e)
  <2>1. /\ status[r] = "NONE" /\ owner[r] = NoUser /\ first[r] = NoUser /\ second[r] = NoUser
    BY <1>4 DEF R!Exists, R!NoRow
  <2>2. /\ row.status = "PENDING_L1" /\ UserOf[row.employee] \in Users
        /\ row.l1 = NoUser /\ row.l2 = NoUser
    BY <1>4, RequestsAssumption DEF R!NewRow
  <2>3. first' = first /\ second' = second
    BY <1>3, <2>1, <2>2
  <2> HIDE DEF status, owner, first, second
  <2>4. R!Approval!Ask(r)
    BY <1>3, <2>1, <2>2, <2>3 DEF R!Approval!Ask, status, owner, first, second
  <2> QED
    BY <2>4 DEF R!Approval!Next
<1>5. CASE R!Exists(r) /\ ReimbMove(reimbs[r], row)
  <2>1. PICK q \in R!Row : q = reimbs[r]
    BY <1>5, ReimbRowIsThere
  <2>2. /\ status[r] = q.status /\ owner[r] = UserOf[q.employee]
        /\ first[r] = q.l1 /\ second[r] = q.l2
    BY <1>5, <2>1
  <2>3. /\ row.employee = q.employee => owner' = owner
        /\ row.l1 = q.l1 => first' = first
        /\ row.l2 = q.l2 => second' = second
    BY <1>3, <2>2
  <2> HIDE DEF status, owner, first, second
  <2>4. ASSUME NEW u \in ReimbApprovers, R!MayApproveL1(q, u), row = R!ApprovedL1(q, u)
        PROVE  R!Approval!Next
    <3>1. /\ row.status = "PENDING_L2" /\ row.l1 = u
          /\ row.employee = q.employee /\ row.l2 = q.l2
      BY <2>4 DEF R!ApprovedL1, R!Row
    <3>2. q.status = "PENDING_L1" /\ u \in Users \ {UserOf[q.employee]}
      BY <2>4, RequestsAssumption DEF R!MayApproveL1
    <3>3. R!Approval!ApproveFirst(r)
      BY <1>3, <2>2, <2>3, <3>1, <3>2 DEF R!Approval!ApproveFirst, status, owner, first, second
    <3> QED
      BY <3>3 DEF R!Approval!Next
  <2>5. ASSUME NEW u \in ReimbApprovers, R!MayApproveL2(q, u), row = R!ApprovedL2(q, u)
        PROVE  R!Approval!Next
    <3>1. /\ row.status = "APPROVED" /\ row.l2 = u
          /\ row.employee = q.employee /\ row.l1 = q.l1
      BY <2>5 DEF R!ApprovedL2, R!Row
    <3>2. q.status = "PENDING_L2" /\ u \in Users \ {UserOf[q.employee], q.l1}
      BY <2>5, RequestsAssumption DEF R!MayApproveL2
    <3>3. R!Approval!ApproveSecond(r)
      BY <1>3, <2>2, <2>3, <3>1, <3>2 DEF R!Approval!ApproveSecond, status, owner, first, second
    <3> QED
      BY <3>3 DEF R!Approval!Next
  <2>6. CASE R!MayReject(q) /\ row = R!Rejected(q)
    <3>1. /\ row.status = "REJECTED" /\ row.employee = q.employee
          /\ row.l1 = q.l1 /\ row.l2 = q.l2
      BY <2>6 DEF R!Rejected, R!Row
    <3>2. R!Approval!Reject(r)
      BY <1>3, <2>2, <2>3, <2>6, <3>1 DEF R!MayReject, R!Approval!Reject, status, owner, first, second
    <3> QED
      BY <3>2 DEF R!Approval!Next
  <2>7. CASE R!MayCancel(q) /\ row = R!Cancelled(q)
    <3>1. /\ row.status = "CANCELLED" /\ row.employee = q.employee
          /\ row.l1 = q.l1 /\ row.l2 = q.l2
      BY <2>7 DEF R!Cancelled, R!Row
    <3>2. q.status \in {"PENDING_L1", "PENDING_L2", "APPROVED"}
      BY <2>7 DEF R!MayCancel, R!Row, R!Statuses
    <3>3. R!Approval!Withdraw(r)
      BY <1>3, <2>2, <2>3, <3>1, <3>2 DEF R!Approval!Withdraw, status, owner, first, second
    <3> QED
      BY <3>3 DEF R!Approval!Next
  <2>8. CASE R!MayTransfer(q) /\ row = R!Transferred(q)
    <3>1. /\ row.status = "TRANSFERRED" /\ row.employee = q.employee
          /\ row.l1 = q.l1 /\ row.l2 = q.l2
      BY <2>8 DEF R!Transferred, R!Row
    <3>2. R!Approval!Carry(r)
      BY <1>3, <2>2, <2>3, <2>8, <3>1 DEF R!MayTransfer, R!Approval!Carry, status, owner, first, second
    <3> QED
      BY <3>2 DEF R!Approval!Next
  <2> QED
    BY <1>5, <2>1, <2>4, <2>5, <2>6, <2>7, <2>8 DEF ReimbMove
<1> QED
  BY <1>4, <1>5

LEMMA ReimbSame ==
    ASSUME UNCHANGED <<alone, reimbs>>
    PROVE  UNCHANGED R!Approval!vars
  BY DEF R!Approval!vars, R!Exists

ReimbGoal == InTurn /\ ReimbInv
ReimbShows == R!Approval!Next \/ UNCHANGED R!Approval!vars

LEMMA ReimbBegins ==
    ASSUME ReimbGoal, part = "reimbursement", part' = part, NEW s \in Sessions,
           NEW w, R!Begin(s, w), UNCHANGED reimbs, ReimbWork(w)
    PROVE  ReimbGoal' /\ ReimbShows
<1>1. Turns(s, w)
  BY DEF ReimbGoal, R!Begin, R!Go, R!Idle, Turns, Idle
<1>2. InTurn' /\ ReimbInv'
  BY <1>1, TurnKeeps, ReimbRuns DEF ReimbGoal
<1> QED
  BY <1>1, <1>2, ReimbSame DEF ReimbGoal, ReimbShows, Turns

LEMMA ReimbChange ==
    ASSUME ReimbGoal, part = "reimbursement", part' = part, NEW s \in Sessions, NEW r \in Reimbs,
           NEW n, R!Exists(r), ReimbMove(reimbs[r], n), R!Change(s, r, n)
    PROVE  ReimbGoal' /\ ReimbShows
<1>1. PICK q \in R!Row : q = reimbs[r] /\ ReimbSound(q)
  BY ReimbRowIsThere DEF ReimbGoal, ReimbInv, ReimbRows
<1>2. n \in R!Row
  BY <1>1, ReimbMoves
<1> DEFINE w == [op |-> "edit", table |-> "reimbs", key |-> r, seen |-> q, new |-> n]
<1>3. ReimbLater(q, q)
  BY DEF ReimbLater
<1>4. ReimbEdits(w)
  BY <1>1, <1>2, <1>3 DEF ReimbEdits
<1>5. R!Begin(s, w) /\ UNCHANGED reimbs
  BY <1>1 DEF R!Change, R!Edit
<1> QED
  BY <1>4, <1>5, ReimbBegins DEF ReimbWork

LEMMA ReimbCommit ==
    ASSUME ReimbGoal, part = "reimbursement", part' = part, NEW s \in Sessions, R!Commit(s)
    PROVE  ReimbGoal' /\ ReimbShows
<1>1. Turns(s, Idle)
  <2>1. sess[s].op # "idle"
    BY DEF R!Commit, R!Editing, R!Adding
  <2>2. sess[s] # Idle
    BY <2>1 DEF Idle
  <2> QED
    BY <2>2 DEF R!Commit, R!Finish, R!Go, R!Idle, Turns, Idle
<1>2. InTurn' /\ alone' = alone /\ alone \in BOOLEAN
  BY <1>1, TurnKeeps DEF ReimbGoal, InTurn, Turns
<1>3. PICK w : w = sess[s]
  OBVIOUS
<1>4. ReimbAdds(w) \/ ReimbEdits(w)
  <2>1. ReimbWork(w)
    BY <1>3 DEF ReimbGoal, ReimbInv
  <2> QED
    BY <1>1, <1>3, <2>1 DEF ReimbWork, R!Commit, R!Editing, R!Adding, Idle
<1>5. CASE ReimbEdits(w)
  <2>1. PICK r \in Reimbs, q \in R!Row, n \in R!Row :
          /\ w = [op |-> "edit", table |-> "reimbs", key |-> r, seen |-> q, new |-> n]
          /\ R!Exists(r) /\ ReimbSound(q) /\ ReimbMove(q, n)
          /\ ReimbLater(reimbs[r], q)
          /\ alone => q = reimbs[r]
    BY <1>5 DEF ReimbEdits
  <2> DEFINE m == R!Merge(reimbs[r], q, n)
  <2>2. reimbs' = [reimbs EXCEPT ![r] = m]
    BY <1>3, <2>1 DEF R!Commit, R!Editing, R!Adding, R!Edited
  <2>3. reimbs[r] \in R!Row /\ ReimbSound(reimbs[r])
    BY <2>1, ReimbRowIsThere DEF ReimbGoal, ReimbInv, ReimbRows
  <2>4. n \in R!Row /\ ReimbSound(n) /\ ReimbLater(n, q)
    BY <2>1, ReimbMoves
  <2>5. /\ m \in R!Row /\ ReimbSound(m) /\ ReimbLater(m, reimbs[r])
        /\ alone => m = n
    BY <2>1, <2>3, <2>4, ReimbMerge
  <2> HIDE DEF m
  <2>6. ReimbInv'
    BY <1>1, <2>2, <2>5, ReimbWritten DEF ReimbGoal
  <2>7. ASSUME alone PROVE ReimbShows
    BY <1>2, <2>1, <2>2, <2>5, <2>7, ReimbShown DEF ReimbGoal, ReimbShows, ReimbInv, ReimbRows
  <2>8. ASSUME ~alone PROVE ReimbShows
    BY <1>2, <2>8 DEF R!Approval!vars, ReimbShows
  <2> QED
    BY <1>2, <2>6, <2>7, <2>8 DEF ReimbGoal
<1>6. CASE ReimbAdds(w)
  <2>1. PICK e \in Employees : w = [op |-> "add", table |-> "reimbs", new |-> R!NewRow(e)]
    BY <1>6 DEF ReimbAdds
  <2>2. PICK r \in Reimbs : ~R!Exists(r) /\ reimbs' = [reimbs EXCEPT ![r] = R!NewRow(e)]
    BY <1>3, <2>1 DEF R!Commit, R!Editing, R!Adding
  <2>3. R!NewRow(e) \in R!Row /\ ReimbSound(R!NewRow(e))
    BY RequestsAssumption DEF R!NewRow, R!Row, R!Statuses, ReimbSound
  <2>4. ReimbInv'
    BY <1>1, <2>2, <2>3, ReimbWritten DEF ReimbGoal
  <2>5. ASSUME alone PROVE ReimbShows
    BY <1>2, <2>2, <2>3, <2>5, ReimbShown DEF ReimbGoal, ReimbShows, ReimbInv, ReimbRows
  <2>6. ASSUME ~alone PROVE ReimbShows
    BY <1>2, <2>6 DEF R!Approval!vars, ReimbShows
  <2> QED
    BY <1>2, <2>4, <2>5, <2>6 DEF ReimbGoal
<1> QED
  BY <1>4, <1>5, <1>6

LEMMA ReimbStep ==
    ASSUME ReimbGoal, part = "reimbursement", part' = part, NEW s \in Sessions, R!Step(s)
    PROVE  ReimbGoal' /\ ReimbShows
<1>1. ASSUME NEW e \in Employees, R!Create(s, e)
      PROVE  ReimbGoal' /\ ReimbShows
  <2> DEFINE w == [op |-> "add", table |-> "reimbs", new |-> R!NewRow(e)]
  <2>1. R!Begin(s, w) /\ UNCHANGED reimbs
    BY <1>1 DEF R!Create, R!Add
  <2>2. ReimbWork(w)
    BY DEF ReimbWork, ReimbAdds
  <2> QED
    BY <2>1, <2>2, ReimbBegins
<1>2. ASSUME NEW r \in Reimbs, R!Exists(r),
             \/ \E u \in ReimbApprovers : R!ApproveL1(s, r, u) \/ R!ApproveL2(s, r, u)
             \/ R!Reject(s, r) \/ R!Cancel(s, r) \/ R!Transfer(s, r)
      PROVE  ReimbGoal' /\ ReimbShows
  <2>1. \E n : ReimbMove(reimbs[r], n) /\ R!Change(s, r, n)
    BY <1>2 DEF R!ApproveL1, R!ApproveL2, R!Reject, R!Cancel, R!Transfer, ReimbMove
  <2> QED
    BY <1>2, <2>1, ReimbChange
<1>3. CASE R!Commit(s)
  BY <1>3, ReimbCommit
<1>4. CASE R!Abort(s) /\ UNCHANGED reimbs
  <2>1. Turns(s, Idle)
    BY <1>4 DEF R!Abort, R!Finish, R!Go, R!Idle, Turns, Idle
  <2>2. ReimbWork(Idle)
    BY DEF ReimbWork
  <2>3. InTurn' /\ ReimbInv'
    BY <1>4, <2>1, <2>2, TurnKeeps, ReimbRuns DEF ReimbGoal
  <2> QED
    BY <1>4, <2>1, <2>3, ReimbSame DEF ReimbGoal, ReimbShows, Turns
<1> QED
  BY <1>1, <1>2, <1>3, <1>4 DEF R!Step

-----------------------------------------------------------------------------
\* Procurements.  What is true of a row, and of what a handler will write.
ProcSound(q) ==
    /\ q.status = "PENDING_L2" => q.l1 # NoUser
    /\ q.status \in {"APPROVED", "ORDERED", "DELIVERED"} \/ q.ordered => NoUser \notin {q.l1, q.l2}
    /\ q.status \in {"ORDERED", "DELIVERED"} \/ q.delivered => q.ordered
    /\ q.requester \notin {q.l1, q.l2}
ProcLater(now, seen) ==
    /\ now.requester = seen.requester
    /\ seen.l1 # NoUser => now.l1 # NoUser
    /\ seen.l2 # NoUser => now.l2 # NoUser
    /\ seen.ordered => now.ordered
KnownVendor(q) == q.vendor \in vendors \cup {NoVendor}
ProcMove(q, n) ==
    \/ \E u \in ProcApprovers : P!MayApproveL1(q, u) /\ n = P!ApprovedL1(q, u)
    \/ \E u \in ProcApprovers : P!MayApproveL2(q, u) /\ n = P!ApprovedL2(q, u)
    \/ P!MayReject(q) /\ n = P!Rejected(q)
    \/ P!MayCancel(q) /\ n = P!Cancelled(q)
    \/ \E v \in vendors \cup {NoVendor} : P!MayOrder(q) /\ n = P!Ordered(q, v)
    \/ P!MayDeliver(q) /\ n = P!Delivered(q)

ProcAdds(w) ==
    \E u \in Buyers, v \in vendors \cup {NoVendor} :
        w = [op |-> "add", table |-> "procs", new |-> P!NewRow(u, v)]
ProcEdits(w) ==
    \E r \in Procs : \E q, n \in P!Row :
        /\ w = [op |-> "edit", table |-> "procs", key |-> r, seen |-> q, new |-> n]
        /\ P!Exists(r) /\ ProcSound(q) /\ KnownVendor(q) /\ ProcMove(q, n)
        /\ ProcLater(procs[r], q)
        /\ alone => q = procs[r]
ProcWork(w) == w = Idle \/ ProcAdds(w) \/ ProcEdits(w)

ProcRows == P!TypeOK /\ \A r \in Procs : P!Exists(r) => ProcSound(procs[r])
ProcInv ==
    /\ ProcRows
    /\ part = "procurement" => \A s \in Sessions : ProcWork(sess[s])

LEMMA ProcRowIsThere ==
    ASSUME P!TypeOK, NEW r \in Procs
    PROVE  /\ P!NoRow \notin P!Row
           /\ P!Exists(r) <=> procs[r] \in P!Row
  BY DEF P!TypeOK, P!Exists, P!NoRow, P!Row

LEMMA ProcMoves ==
    ASSUME vendors \subseteq Codes, NEW q \in P!Row, ProcSound(q), KnownVendor(q), NEW n, ProcMove(q, n)
    PROVE  n \in P!Row /\ ProcSound(n) /\ ProcLater(n, q) /\ KnownVendor(n)
<1> USE RequestsAssumption DEF P!Row, P!Statuses, ProcSound, ProcLater, KnownVendor
<1>1. ASSUME NEW u \in ProcApprovers, P!MayApproveL1(q, u), n = P!ApprovedL1(q, u)
      PROVE  n \in P!Row /\ ProcSound(n) /\ ProcLater(n, q) /\ KnownVendor(n)
  BY <1>1 DEF P!MayApproveL1, P!ApprovedL1
<1>2. ASSUME NEW u \in ProcApprovers, P!MayApproveL2(q, u), n = P!ApprovedL2(q, u)
      PROVE  n \in P!Row /\ ProcSound(n) /\ ProcLater(n, q) /\ KnownVendor(n)
  BY <1>2 DEF P!MayApproveL2, P!ApprovedL2
<1>3. CASE P!MayReject(q) /\ n = P!Rejected(q)
  BY <1>3 DEF P!MayReject, P!Rejected
<1>4. CASE P!MayCancel(q) /\ n = P!Cancelled(q)
  BY <1>4 DEF P!MayCancel, P!Cancelled
<1>5. ASSUME NEW v \in vendors \cup {NoVendor}, P!MayOrder(q), n = P!Ordered(q, v)
      PROVE  n \in P!Row /\ ProcSound(n) /\ ProcLater(n, q) /\ KnownVendor(n)
  BY <1>5 DEF P!MayOrder, P!Ordered
<1>6. CASE P!MayDeliver(q) /\ n = P!Delivered(q)
  BY <1>6 DEF P!MayDeliver, P!Delivered
<1> QED
  BY <1>1, <1>2, <1>3, <1>4, <1>5, <1>6 DEF ProcMove

LEMMA ProcMerge ==
    ASSUME NEW now \in P!Row, NEW q \in P!Row, NEW n \in P!Row,
           ProcSound(now), ProcSound(n), ProcLater(now, q), ProcLater(n, q),
           KnownVendor(now), KnownVendor(n)
    PROVE  /\ P!Merge(now, q, n) \in P!Row
           /\ ProcSound(P!Merge(now, q, n))
           /\ ProcLater(P!Merge(now, q, n), now)
           /\ KnownVendor(P!Merge(now, q, n))
           /\ now = q => P!Merge(now, q, n) = n
<1> DEFINE m == P!Merge(now, q, n)
<1>1. /\ DOMAIN now = {"status", "requester", "l1", "l2", "vendor", "ordered", "delivered"}
      /\ DOMAIN n = DOMAIN now
  BY DEF P!Row
<1>2. m = [status    |-> IF n.status = q.status THEN now.status ELSE n.status,
           requester |-> IF n.requester = q.requester THEN now.requester ELSE n.requester,
           l1        |-> IF n.l1 = q.l1 THEN now.l1 ELSE n.l1,
           l2        |-> IF n.l2 = q.l2 THEN now.l2 ELSE n.l2,
           vendor    |-> IF n.vendor = q.vendor THEN now.vendor ELSE n.vendor,
           ordered   |-> IF n.ordered = q.ordered THEN now.ordered ELSE n.ordered,
           delivered |-> IF n.delivered = q.delivered THEN now.delivered ELSE n.delivered]
  BY <1>1 DEF P!Merge
<1> HIDE DEF m
<1>3. m \in P!Row
  BY <1>2 DEF P!Row
<1>4. /\ m.requester = now.requester /\ m.requester = n.requester
      /\ m.l1 \in {now.l1, n.l1} /\ m.l2 \in {now.l2, n.l2}
      /\ m.status \in {now.status, n.status} /\ m.delivered \in {now.delivered, n.delivered}
      /\ m.vendor \in {now.vendor, n.vendor} /\ m.ordered \in {now.ordered, n.ordered}
  BY <1>2 DEF ProcLater
<1>5. /\ now.l1 # NoUser \/ n.l1 # NoUser => m.l1 # NoUser
      /\ now.l2 # NoUser \/ n.l2 # NoUser => m.l2 # NoUser
  BY <1>2 DEF ProcLater
<1>6. now.ordered \/ n.ordered => m.ordered
  BY <1>2 DEF ProcLater, P!Row
<1>7. ProcSound(m) /\ ProcLater(m, now) /\ KnownVendor(m)
  BY <1>3, <1>4, <1>5, <1>6 DEF ProcSound, ProcLater, KnownVendor, P!Row
<1>8. now = q => m = n
  BY <1>2 DEF P!Row
<1> QED
  BY <1>3, <1>7, <1>8 DEF m

LEMMA ProcVendorsGrow ==
    ASSUME NEW v, ProcWork(v), UNCHANGED <<alone, procs>>, vendors \subseteq vendors'
    PROVE  ProcWork(v)'
<1>1. ProcAdds(v) => ProcAdds(v)'
  BY DEF ProcAdds
<1>2. ProcEdits(v) => ProcEdits(v)'
  <2>1. \A q, n : ProcMove(q, n) => ProcMove(q, n)'
    BY DEF ProcMove
  <2>2. \A q : KnownVendor(q) => KnownVendor(q)'
    BY DEF KnownVendor
  <2> QED
    BY <2>1, <2>2 DEF ProcEdits, P!Exists
<1> QED
  BY <1>1, <1>2 DEF ProcWork

LEMMA ProcRuns ==
    ASSUME InTurn, ProcInv, part = "procurement", NEW s \in Sessions, NEW w, Turns(s, w),
           UNCHANGED <<part, procs>>, ProcWork(w), vendors \subseteq vendors', vendors' \subseteq Codes
    PROVE  ProcInv'
<1>1. ProcRows'
  BY DEF ProcInv, ProcRows, P!TypeOK, P!Exists
<1>2. ASSUME NEW t \in Sessions PROVE ProcWork(sess[t])'
  <2>1. PICK v : v = sess'[t]
    OBVIOUS
  <2>2. ProcWork(v)
    BY <2>1, TurnKeeps DEF ProcInv
  <2>3. ProcWork(v)'
    BY <2>2, ProcVendorsGrow DEF Turns
  <2> QED
    BY <2>1, <2>3
<1> QED
  BY <1>1, <1>2 DEF ProcInv

LEMMA ProcWritten ==
    ASSUME InTurn, ProcInv, part = "procurement", NEW s \in Sessions, Turns(s, Idle),
           UNCHANGED <<part, vendors>>, NEW r \in Procs, NEW row \in P!Row,
           procs' = [procs EXCEPT ![r] = row], ProcSound(row), KnownVendor(row),
           P!Exists(r) => ProcLater(row, procs[r])
    PROVE  ProcInv'
<1>1. /\ procs'[r] = row
      /\ \A x \in Procs \ {r} : procs'[x] = procs[x]
      /\ procs' \in [Procs -> P!Row \cup {P!NoRow}]
  BY DEF ProcInv, ProcRows, P!TypeOK
<1>2. ProcRows'
  BY <1>1 DEF ProcInv, ProcRows, P!TypeOK, P!Exists, KnownVendor
<1>3. \A x \in Procs : P!Exists(x) => P!Exists(x)' /\ ProcLater(procs'[x], procs[x])
  <2>1. P!Exists(r)'
    BY <1>1, <1>2, ProcRowIsThere DEF ProcInv, ProcRows, P!Exists
  <2> QED
    BY <1>1, <2>1 DEF P!Exists, ProcLater
<1>4. ASSUME NEW t \in Sessions PROVE ProcWork(sess[t])'
  <2>1. PICK v : v = sess'[t]
    OBVIOUS
  <2>2. v = Idle \/ (ProcWork(v) /\ ~alone)
    BY <2>1, TurnKeeps DEF ProcInv, InTurn
  <2>3. ProcAdds(v) => ProcAdds(v)'
    BY DEF ProcAdds
  <2>4. ~alone /\ ProcEdits(v) => ProcEdits(v)'
    <3> SUFFICES ASSUME ~alone, ProcEdits(v) PROVE ProcEdits(v)'
      OBVIOUS
    <3>1. PICK x \in Procs, q \in P!Row, n \in P!Row :
            /\ v = [op |-> "edit", table |-> "procs", key |-> x, seen |-> q, new |-> n]
            /\ P!Exists(x) /\ ProcSound(q) /\ KnownVendor(q) /\ ProcMove(q, n)
            /\ ProcLater(procs[x], q)
      BY DEF ProcEdits
    <3>2. ProcLater(procs'[x], q)
      BY <1>3, <3>1 DEF ProcLater
    <3> QED
      BY <1>3, <3>1, <3>2 DEF ProcEdits, ProcMove, KnownVendor, Turns
  <2>5. ProcWork(v)'
    BY <2>2, <2>3, <2>4 DEF ProcWork
  <2> QED
    BY <2>1, <2>5
<1> QED
  BY <1>2, <1>4 DEF ProcInv

\* What the change of one row is, seen as a two-layer approval.
LEMMA ProcShown ==
    ASSUME P!TypeOK, alone, alone', NEW r \in Procs, NEW row \in P!Row,
           procs' = [procs EXCEPT ![r] = row],
           \/ ~P!Exists(r) /\ \E u \in Buyers, v \in vendors \cup {NoVendor} : row = P!NewRow(u, v)
           \/ P!Exists(r) /\ ProcMove(procs[r], row)
    PROVE  P!Approval!Next
<1> DEFINE status == [x \in Procs |-> IF alone THEN procs[x].status ELSE "NONE"]
           owner  == [x \in Procs |-> IF alone /\ P!Exists(x) THEN procs[x].requester ELSE NoUser]
           first  == [x \in Procs |-> IF alone /\ P!Exists(x) THEN procs[x].l1 ELSE NoUser]
           second == [x \in Procs |-> IF alone /\ P!Exists(x) THEN procs[x].l2 ELSE NoUser]
<1>1. /\ procs'[r] = row
      /\ \A x \in Procs \ {r} : procs'[x] = procs[x]
      /\ row # P!NoRow
  BY ProcRowIsThere DEF P!TypeOK
<1>2. \A x \in Procs : P!Exists(x)' <=> (x = r \/ P!Exists(x))
  BY <1>1 DEF P!Exists
<1>3. /\ status' = [status EXCEPT ![r] = row.status]
      /\ owner' = [owner EXCEPT ![r] = row.requester]
      /\ first' = [first EXCEPT ![r] = row.l1]
      /\ second' = [second EXCEPT ![r] = row.l2]
      /\ owner[r] = row.requester => owner' = owner
      /\ first[r] = row.l1 => first' = first
      /\ second[r] = row.l2 => second' = second
  <2>1. /\ status'[r] = row.status /\ owner'[r] = row.requester
        /\ first'[r] = row.l1 /\ second'[r] = row.l2
    BY <1>1, <1>2
  <2>2. \A x \in Procs \ {r} : /\ status'[x] = status[x] /\ owner'[x] = owner[x]
                               /\ first'[x] = first[x] /\ second'[x] = second[x]
    BY <1>1, <1>2
  <2>3. /\ status = [x \in Procs |-> status[x]] /\ status' = [x \in Procs |-> status'[x]]
        /\ owner = [x \in Procs |-> owner[x]] /\ owner' = [x \in Procs |-> owner'[x]]
        /\ first = [x \in Procs |-> first[x]] /\ first' = [x \in Procs |-> first'[x]]
        /\ second = [x \in Procs |-> second[x]] /\ second' = [x \in Procs |-> second'[x]]
    OBVIOUS
  <2> HIDE DEF status, owner, first, second
  <2> QED
    BY <2>1, <2>2, <2>3, Replaced
<1>4. CASE ~P!Exists(r) /\ \E u \in Buyers, v \in vendors \cup {NoVendor} : row = P!NewRow(u, v)
  <2>1. /\ status[r] = "NONE" /\ owner[r] = NoUser /\ first[r] = NoUser /\ second[r] = NoUser
    BY <1>4 DEF P!Exists, P!NoRow
  <2>2. /\ row.status = "PENDING_L1" /\ row.requester \in Users
        /\ row.l1 = NoUser /\ row.l2 = NoUser
    BY <1>4, RequestsAssumption DEF P!NewRow
  <2>3. first' = first /\ second' = second
    BY <1>3, <2>1, <2>2
  <2> HIDE DEF status, owner, first, second
  <2>4. P!Approval!Ask(r)
    BY <1>3, <2>1, <2>2, <2>3 DEF P!Approval!Ask, status, owner, first, second
  <2> QED
    BY <2>4 DEF P!Approval!Next
<1>5. CASE P!Exists(r) /\ ProcMove(procs[r], row)
  <2>1. PICK q \in P!Row : q = procs[r]
    BY <1>5, ProcRowIsThere
  <2>2. /\ status[r] = q.status /\ owner[r] = q.requester
        /\ first[r] = q.l1 /\ second[r] = q.l2
    BY <1>5, <2>1
  <2>3. /\ row.requester = q.requester => owner' = owner
        /\ row.l1 = q.l1 => first' = first
        /\ row.l2 = q.l2 => second' = second
    BY <1>3, <2>2
  <2> HIDE DEF status, owner, first, second
  <2>4. ASSUME NEW u \in ProcApprovers, P!MayApproveL1(q, u), row = P!ApprovedL1(q, u)
        PROVE  P!Approval!Next
    <3>1. /\ row.status = "PENDING_L2" /\ row.l1 = u
          /\ row.requester = q.requester /\ row.l2 = q.l2
      BY <2>4 DEF P!ApprovedL1, P!Row
    <3>2. q.status = "PENDING_L1" /\ u \in Users \ {q.requester}
      BY <2>4, RequestsAssumption DEF P!MayApproveL1
    <3>3. P!Approval!ApproveFirst(r)
      BY <1>3, <2>2, <2>3, <3>1, <3>2 DEF P!Approval!ApproveFirst, status, owner, first, second
    <3> QED
      BY <3>3 DEF P!Approval!Next
  <2>5. ASSUME NEW u \in ProcApprovers, P!MayApproveL2(q, u), row = P!ApprovedL2(q, u)
        PROVE  P!Approval!Next
    <3>1. /\ row.status = "APPROVED" /\ row.l2 = u
          /\ row.requester = q.requester /\ row.l1 = q.l1
      BY <2>5 DEF P!ApprovedL2, P!Row
    <3>2. q.status = "PENDING_L2" /\ u \in Users \ {q.requester, q.l1}
      BY <2>5, RequestsAssumption DEF P!MayApproveL2
    <3>3. P!Approval!ApproveSecond(r)
      BY <1>3, <2>2, <2>3, <3>1, <3>2 DEF P!Approval!ApproveSecond, status, owner, first, second
    <3> QED
      BY <3>3 DEF P!Approval!Next
  <2>6. CASE P!MayReject(q) /\ row = P!Rejected(q)
    <3>1. /\ row.status = "REJECTED" /\ row.requester = q.requester
          /\ row.l1 = q.l1 /\ row.l2 = q.l2
      BY <2>6 DEF P!Rejected, P!Row
    <3>2. P!Approval!Reject(r)
      BY <1>3, <2>2, <2>3, <2>6, <3>1 DEF P!MayReject, P!Approval!Reject, status, owner, first, second
    <3> QED
      BY <3>2 DEF P!Approval!Next
  <2>7. CASE P!MayCancel(q) /\ row = P!Cancelled(q)
    <3>1. /\ row.status = "CANCELLED" /\ row.requester = q.requester
          /\ row.l1 = q.l1 /\ row.l2 = q.l2
      BY <2>7 DEF P!Cancelled, P!Row
    <3>2. q.status \in {"PENDING_L1", "PENDING_L2", "APPROVED", "ORDERED"}
      BY <2>7 DEF P!MayCancel, P!Row, P!Statuses
    <3>3. P!Approval!Withdraw(r)
      BY <1>3, <2>2, <2>3, <3>1, <3>2 DEF P!Approval!Withdraw, status, owner, first, second
    <3> QED
      BY <3>3 DEF P!Approval!Next
  <2>8. ASSUME NEW v \in vendors \cup {NoVendor}, P!MayOrder(q), row = P!Ordered(q, v)
        PROVE  P!Approval!Next
    <3>1. /\ row.status = "ORDERED" /\ row.requester = q.requester
          /\ row.l1 = q.l1 /\ row.l2 = q.l2
      BY <2>8 DEF P!Ordered, P!Row
    <3>2. P!Approval!Carry(r)
      BY <1>3, <2>2, <2>3, <2>8, <3>1 DEF P!MayOrder, P!Approval!Carry, status, owner, first, second
    <3> QED
      BY <3>2 DEF P!Approval!Next
  <2>9. CASE P!MayDeliver(q) /\ row = P!Delivered(q)
    <3>1. /\ row.status = "DELIVERED" /\ row.requester = q.requester
          /\ row.l1 = q.l1 /\ row.l2 = q.l2
      BY <2>9 DEF P!Delivered, P!Row
    <3>2. P!Approval!Carry(r)
      BY <1>3, <2>2, <2>3, <2>9, <3>1 DEF P!MayDeliver, P!Approval!Carry, status, owner, first, second
    <3> QED
      BY <3>2 DEF P!Approval!Next
  <2> QED
    BY <1>5, <2>1, <2>4, <2>5, <2>6, <2>7, <2>8, <2>9 DEF ProcMove
<1> QED
  BY <1>4, <1>5

LEMMA ProcSame ==
    ASSUME UNCHANGED <<alone, procs>>
    PROVE  UNCHANGED P!Approval!vars
  BY DEF P!Approval!vars, P!Exists

ProcGoal == InTurn /\ ProcInv
ProcShows == P!Approval!Next \/ UNCHANGED P!Approval!vars

LEMMA ProcBegins ==
    ASSUME ProcGoal, part = "procurement", part' = part, NEW s \in Sessions,
           NEW w, P!Begin(s, w), UNCHANGED <<procs, vendors>>, ProcWork(w)
    PROVE  ProcGoal' /\ ProcShows
<1>1. Turns(s, w)
  BY DEF ProcGoal, P!Begin, P!Go, P!Idle, Turns, Idle
<1>2. InTurn' /\ ProcInv'
  BY <1>1, TurnKeeps, ProcRuns DEF ProcGoal, ProcInv, ProcRows, P!TypeOK
<1> QED
  BY <1>1, <1>2, ProcSame DEF ProcGoal, ProcShows, Turns

LEMMA ProcChange ==
    ASSUME ProcGoal, part = "procurement", part' = part, NEW s \in Sessions, NEW r \in Procs,
           NEW n, P!Exists(r), ProcMove(procs[r], n), P!Change(s, r, n)
    PROVE  ProcGoal' /\ ProcShows
<1>1. PICK q \in P!Row : q = procs[r] /\ ProcSound(q) /\ KnownVendor(q)
  BY ProcRowIsThere DEF ProcGoal, ProcInv, ProcRows, P!TypeOK, KnownVendor
<1>2. n \in P!Row
  BY <1>1, ProcMoves DEF ProcGoal, ProcInv, ProcRows, P!TypeOK
<1> DEFINE w == [op |-> "edit", table |-> "procs", key |-> r, seen |-> q, new |-> n]
<1>3. ProcLater(q, q)
  BY DEF ProcLater
<1>4. ProcEdits(w)
  BY <1>1, <1>2, <1>3 DEF ProcEdits
<1>5. P!Begin(s, w) /\ UNCHANGED <<procs, vendors>>
  BY <1>1 DEF P!Change, P!Edit
<1> QED
  BY <1>4, <1>5, ProcBegins DEF ProcWork

LEMMA ProcCommit ==
    ASSUME ProcGoal, part = "procurement", part' = part, NEW s \in Sessions, P!Commit(s)
    PROVE  ProcGoal' /\ ProcShows
<1>1. Turns(s, Idle)
  <2>1. sess[s].op # "idle"
    BY DEF P!Commit, P!Editing, P!Adding
  <2>2. sess[s] # Idle
    BY <2>1 DEF Idle
  <2> QED
    BY <2>2 DEF P!Commit, P!Finish, P!Go, P!Idle, Turns, Idle
<1>2. InTurn' /\ alone' = alone /\ alone \in BOOLEAN /\ vendors' = vendors
  BY <1>1, TurnKeeps DEF ProcGoal, InTurn, Turns, P!Commit
<1>3. PICK w : w = sess[s]
  OBVIOUS
<1>4. ProcAdds(w) \/ ProcEdits(w)
  <2>1. ProcWork(w)
    BY <1>3 DEF ProcGoal, ProcInv
  <2> QED
    BY <1>1, <1>3, <2>1 DEF ProcWork, P!Commit, P!Editing, P!Adding, Idle
<1>5. CASE ProcEdits(w)
  <2>1. PICK r \in Procs, q \in P!Row, n \in P!Row :
          /\ w = [op |-> "edit", table |-> "procs", key |-> r, seen |-> q, new |-> n]
          /\ P!Exists(r) /\ ProcSound(q) /\ KnownVendor(q) /\ ProcMove(q, n)
          /\ ProcLater(procs[r], q)
          /\ alone => q = procs[r]
    BY <1>5 DEF ProcEdits
  <2> DEFINE m == P!Merge(procs[r], q, n)
  <2>2. procs' = [procs EXCEPT ![r] = m]
    BY <1>3, <2>1 DEF P!Commit, P!Editing, P!Adding, P!Edited
  <2>3. procs[r] \in P!Row /\ ProcSound(procs[r]) /\ KnownVendor(procs[r])
    BY <2>1, ProcRowIsThere DEF ProcGoal, ProcInv, ProcRows, P!TypeOK, KnownVendor
  <2>4. n \in P!Row /\ ProcSound(n) /\ ProcLater(n, q) /\ KnownVendor(n)
    BY <2>1, ProcMoves DEF ProcGoal, ProcInv, ProcRows, P!TypeOK
  <2>5. /\ m \in P!Row /\ ProcSound(m) /\ ProcLater(m, procs[r]) /\ KnownVendor(m)
        /\ alone => m = n
    BY <2>1, <2>3, <2>4, ProcMerge
  <2> HIDE DEF m
  <2>6. ProcInv'
    BY <1>1, <1>2, <2>2, <2>5, ProcWritten DEF ProcGoal
  <2>7. ASSUME alone PROVE ProcShows
    BY <1>2, <2>1, <2>2, <2>5, <2>7, ProcShown DEF ProcGoal, ProcShows, ProcInv, ProcRows
  <2>8. ASSUME ~alone PROVE ProcShows
    BY <1>2, <2>8 DEF P!Approval!vars, ProcShows
  <2> QED
    BY <1>2, <2>6, <2>7, <2>8 DEF ProcGoal
<1>6. CASE ProcAdds(w)
  <2>1. PICK u \in Buyers, v \in vendors \cup {NoVendor} :
          w = [op |-> "add", table |-> "procs", new |-> P!NewRow(u, v)]
    BY <1>6 DEF ProcAdds
  <2>2. PICK r \in Procs : ~P!Exists(r) /\ procs' = [procs EXCEPT ![r] = P!NewRow(u, v)]
    BY <1>3, <2>1 DEF P!Commit, P!Editing, P!Adding
  <2>3. /\ P!NewRow(u, v) \in P!Row /\ ProcSound(P!NewRow(u, v)) /\ KnownVendor(P!NewRow(u, v))
    BY RequestsAssumption DEF P!NewRow, P!Row, P!Statuses, ProcSound, KnownVendor, ProcGoal, ProcInv, ProcRows, P!TypeOK
  <2>4. ProcInv'
    BY <1>1, <1>2, <2>2, <2>3, ProcWritten DEF ProcGoal
  <2>5. ASSUME alone PROVE ProcShows
    BY <1>2, <2>2, <2>3, <2>5, ProcShown DEF ProcGoal, ProcShows, ProcInv, ProcRows
  <2>6. ASSUME ~alone PROVE ProcShows
    BY <1>2, <2>6 DEF P!Approval!vars, ProcShows
  <2> QED
    BY <1>2, <2>4, <2>5, <2>6 DEF ProcGoal
<1> QED
  BY <1>4, <1>5, <1>6

LEMMA ProcStep ==
    ASSUME ProcGoal, part = "procurement", part' = part, NEW s \in Sessions, P!Step(s)
    PROVE  ProcGoal' /\ ProcShows
<1>1. ASSUME NEW u \in Buyers, NEW v \in vendors \cup {NoVendor}, P!Create(s, u, v)
      PROVE  ProcGoal' /\ ProcShows
  <2> DEFINE w == [op |-> "add", table |-> "procs", new |-> P!NewRow(u, v)]
  <2>1. P!Begin(s, w) /\ UNCHANGED <<procs, vendors>>
    BY <1>1 DEF P!Create, P!Add
  <2>2. ProcWork(w)
    BY DEF ProcWork, ProcAdds
  <2> QED
    BY <2>1, <2>2, ProcBegins
<1>2. ASSUME NEW r \in Procs, P!Exists(r),
             \/ \E u \in ProcApprovers : P!ApproveL1(s, r, u) \/ P!ApproveL2(s, r, u)
             \/ P!Reject(s, r) \/ P!Cancel(s, r) \/ P!Deliver(s, r)
             \/ \E v \in vendors \cup {NoVendor} : P!Order(s, r, v)
      PROVE  ProcGoal' /\ ProcShows
  <2>1. \E n : ProcMove(procs[r], n) /\ P!Change(s, r, n)
    BY <1>2 DEF P!ApproveL1, P!ApproveL2, P!Reject, P!Cancel, P!Deliver, P!Order, ProcMove
  <2> QED
    BY <1>2, <2>1, ProcChange
<1>3. CASE P!Commit(s)
  BY <1>3, ProcCommit
<1>4. CASE P!Abort(s) /\ UNCHANGED <<procs, vendors>>
  <2>1. Turns(s, Idle)
    BY <1>4 DEF P!Abort, P!Finish, P!Go, P!Idle, Turns, Idle
  <2>2. ProcWork(Idle)
    BY DEF ProcWork
  <2>3. InTurn' /\ ProcInv'
    BY <1>4, <2>1, <2>2, TurnKeeps, ProcRuns DEF ProcGoal, ProcInv, ProcRows, P!TypeOK
  <2> QED
    BY <1>4, <2>1, <2>3, ProcSame DEF ProcGoal, ProcShows, Turns
<1>5. ASSUME NEW c \in Codes, P!CreateVendor(c)
      PROVE  ProcGoal' /\ ProcShows
  <2>1. PICK w : w = sess[s]
    OBVIOUS
  <2>2. /\ UNCHANGED <<alone, sess, procs>> /\ vendors \subseteq vendors' /\ vendors' \subseteq Codes
    BY <1>5 DEF P!CreateVendor, ProcGoal, ProcInv, ProcRows, P!TypeOK
  <2>3. ProcInv'
    <3>1. ProcRows'
      BY <2>2 DEF ProcGoal, ProcInv, ProcRows, P!TypeOK, P!Exists
    <3>2. ASSUME NEW x \in Sessions PROVE ProcWork(sess[x])'
      <4>1. PICK v : v = sess[x]
        OBVIOUS
      <4>2. ProcWork(v)
        BY <4>1 DEF ProcGoal, ProcInv
      <4>3. ProcWork(v)'
        BY <2>2, <4>2, ProcVendorsGrow
      <4> QED
        BY <2>2, <4>1, <4>3
    <3> QED
      BY <3>1, <3>2 DEF ProcInv
  <2> QED
    BY <2>2, <2>3, ProcSame DEF ProcGoal, ProcShows, InTurn
<1> QED
  BY <1>1, <1>2, <1>3, <1>4, <1>5 DEF P!Step

-----------------------------------------------------------------------------
\* Separations.  What is true of a row, and of what a handler will write.
SepSound(q) ==
    /\ q.status # "DRAFT"
    /\ q.status = "PENDING_APPROVAL_L2" => q.l1 # NoUser
    /\ q.status \in {"APPROVED", "EXECUTED"} \/ q.executed => NoUser \notin {q.l1, q.l2}
    /\ q.initiator \notin {q.l1, q.l2}
SepLater(now, seen) ==
    /\ now.employee = seen.employee /\ now.type = seen.type /\ now.initiator = seen.initiator
    /\ seen.l1 # NoUser => now.l1 # NoUser
    /\ seen.l2 # NoUser => now.l2 # NoUser
    /\ seen.executed => now.executed
SepDecision(q, n) ==
    \/ \E u \in Officers : S!MayApproveL1(q, u) /\ n = S!ApprovedL1(q, u)
    \/ \E u \in Officers : S!MayApproveL2(q, u) /\ n = S!ApprovedL2(q, u)
    \/ S!MayReject(q) /\ n = S!Rejected(q)
    \/ S!MayCancel(q) /\ n = S!Cancelled(q)
    \/ S!MayInterview(q) /\ n = S!Interviewed(q)
SepExecution(q, n) == S!MayExecute(q) /\ n = S!Executed(q)
SepMove(q, n) == SepDecision(q, n) \/ SepExecution(q, n)

OpenFor(x, e) == S!Exists(x) /\ seps[x].employee = e /\ seps[x].status \in S!Open
MayOpen(e) == ~staff[e].deleted /\ \A x \in Seps : ~OpenFor(x, e)
SepAdds(w) ==
    \E e \in Employees, k \in Types, u \in Officers :
        /\ w = [op |-> "add", table |-> "seps", new |-> S!NewRow(e, k, u, "PENDING_APPROVAL_L1")]
        /\ alone => MayOpen(e)
SepLoaded(r, q) == S!Exists(r) /\ SepSound(q) /\ SepLater(seps[r], q) /\ (alone => q = seps[r])
SepEdits(w) ==
    \E r \in Seps : \E q, n \in S!Row :
        /\ w = [op |-> "edit", table |-> "seps", key |-> r, seen |-> q, new |-> n]
        /\ SepLoaded(r, q) /\ SepDecision(q, n)
SepExecutes(w) ==
    \E r \in Seps : \E q, n \in S!Row :
        /\ w = [op |-> "execute", key |-> r, seen |-> q, new |-> n]
        /\ SepLoaded(r, q) /\ SepExecution(q, n)
SepWork(w) == w = Idle \/ SepAdds(w) \/ SepEdits(w) \/ SepExecutes(w)

\* Alone, an employee has at most one separation open, and none once gone.
OneOpen ==
    alone => \A e \in Employees :
        /\ \A x, y \in Seps : OpenFor(x, e) /\ OpenFor(y, e) => x = y
        /\ staff[e].deleted => \A x \in Seps : ~OpenFor(x, e)
SepRows == S!TypeOK /\ \A r \in Seps : S!Exists(r) => SepSound(seps[r])
SepInv ==
    /\ SepRows /\ S!GoneOnlyByApproval /\ OneOpen
    /\ part = "separation" => \A s \in Sessions : SepWork(sess[s])

LEMMA SepRowIsThere ==
    ASSUME S!TypeOK, NEW r \in Seps
    PROVE  /\ S!NoRow \notin S!Row
           /\ S!Exists(r) <=> seps[r] \in S!Row
  BY DEF S!TypeOK, S!Exists, S!NoRow, S!Row

LEMMA SepMoves ==
    ASSUME NEW q \in S!Row, SepSound(q), NEW n, SepMove(q, n)
    PROVE  n \in S!Row /\ SepSound(n) /\ SepLater(n, q)
<1> USE RequestsAssumption DEF S!Row, S!Statuses, S!Open, SepSound, SepLater
<1>1. ASSUME NEW u \in Officers, S!MayApproveL1(q, u), n = S!ApprovedL1(q, u)
      PROVE  n \in S!Row /\ SepSound(n) /\ SepLater(n, q)
  BY <1>1 DEF S!MayApproveL1, S!ApprovedL1
<1>2. ASSUME NEW u \in Officers, S!MayApproveL2(q, u), n = S!ApprovedL2(q, u)
      PROVE  n \in S!Row /\ SepSound(n) /\ SepLater(n, q)
  BY <1>2 DEF S!MayApproveL2, S!ApprovedL2
<1>3. CASE S!MayReject(q) /\ n = S!Rejected(q)
  BY <1>3 DEF S!MayReject, S!Rejected
<1>4. CASE S!MayCancel(q) /\ n = S!Cancelled(q)
  BY <1>4 DEF S!MayCancel, S!Cancelled
<1>5. CASE S!MayInterview(q) /\ n = S!Interviewed(q)
  BY <1>5 DEF S!MayInterview, S!Interviewed
<1>6. CASE SepExecution(q, n)
  BY <1>6 DEF SepExecution, S!MayExecute, S!Executed
<1> QED
  BY <1>1, <1>2, <1>3, <1>4, <1>5, <1>6 DEF SepMove, SepDecision

LEMMA SepMerge ==
    ASSUME NEW now \in S!Row, NEW q \in S!Row, NEW n \in S!Row,
           SepSound(now), SepSound(n), SepLater(now, q), SepLater(n, q)
    PROVE  /\ S!Merge(now, q, n) \in S!Row
           /\ SepSound(S!Merge(now, q, n))
           /\ SepLater(S!Merge(now, q, n), now)
           /\ n.executed => S!Merge(now, q, n).executed
           /\ now = q => S!Merge(now, q, n) = n
<1> DEFINE m == S!Merge(now, q, n)
<1>1. /\ DOMAIN now = {"status", "employee", "type", "initiator", "l1", "l2",
                     "executed", "interview"}
      /\ DOMAIN n = DOMAIN now
  BY DEF S!Row
<1>2. m = [status    |-> IF n.status = q.status THEN now.status ELSE n.status,
           employee  |-> IF n.employee = q.employee THEN now.employee ELSE n.employee,
           type      |-> IF n.type = q.type THEN now.type ELSE n.type,
           initiator |-> IF n.initiator = q.initiator THEN now.initiator ELSE n.initiator,
           l1        |-> IF n.l1 = q.l1 THEN now.l1 ELSE n.l1,
           l2        |-> IF n.l2 = q.l2 THEN now.l2 ELSE n.l2,
           executed  |-> IF n.executed = q.executed THEN now.executed ELSE n.executed,
           interview |-> IF n.interview = q.interview THEN now.interview ELSE n.interview]
  BY <1>1 DEF S!Merge
<1> HIDE DEF m
<1>3. m \in S!Row
  BY <1>2 DEF S!Row
<1>4. /\ m.employee = now.employee /\ m.type = now.type
      /\ m.initiator = now.initiator /\ m.initiator = n.initiator
      /\ m.l1 \in {now.l1, n.l1} /\ m.l2 \in {now.l2, n.l2}
      /\ m.status \in {now.status, n.status} /\ m.executed \in {now.executed, n.executed}
  BY <1>2 DEF SepLater
<1>5. /\ now.l1 # NoUser \/ n.l1 # NoUser => m.l1 # NoUser
      /\ now.l2 # NoUser \/ n.l2 # NoUser => m.l2 # NoUser
  BY <1>2 DEF SepLater
<1>6. now.executed \/ n.executed => m.executed
  BY <1>2 DEF SepLater, S!Row
<1>7. SepSound(m) /\ SepLater(m, now)
  BY <1>3, <1>4, <1>5, <1>6 DEF SepSound, SepLater, S!Row
<1>8. now = q => m = n
  BY <1>2 DEF S!Row
<1> QED
  BY <1>3, <1>6, <1>7, <1>8 DEF m

LEMMA SepRuns ==
    ASSUME InTurn, SepInv, part = "separation", NEW s \in Sessions, NEW w, Turns(s, w),
           UNCHANGED <<part, seps, staff>>, SepWork(w)
    PROVE  SepInv'
<1>1. SepRows'
  BY DEF SepInv, SepRows, S!TypeOK, S!Exists
<1>2. alone' = alone /\ (\A x \in Seps : S!Exists(x) <=> S!Exists(x)')
  BY DEF S!Exists, Turns
<1>3. \A x \in Seps, e \in Employees : OpenFor(x, e) <=> OpenFor(x, e)'
  BY <1>2 DEF OpenFor
<1>4. ASSUME NEW t \in Sessions PROVE SepWork(sess[t])'
  <2>1. PICK v : v = sess'[t]
    OBVIOUS
  <2>2. SepWork(v)
    BY <2>1, TurnKeeps DEF SepInv
  <2>3. SepWork(v)'
    BY <1>2, <1>3, <2>2 DEF SepWork, SepAdds, MayOpen, SepEdits, SepExecutes, SepLoaded
  <2> QED
    BY <2>1, <2>3
<1>5. S!GoneOnlyByApproval'
  BY <1>2 DEF SepInv, S!GoneOnlyByApproval
<1>6. OneOpen'
  BY <1>2, <1>3 DEF SepInv, OneOpen
<1> QED
  BY <1>1, <1>4, <1>5, <1>6 DEF SepInv

\* A row is written.  Who is gone because of another row is so still.
LEMMA SepWritten ==
    ASSUME InTurn, SepInv, part = "separation", NEW s \in Sessions, Turns(s, Idle),
           part' = part, NEW r \in Seps, NEW row \in S!Row,
           seps' = [seps EXCEPT ![r] = row], SepSound(row),
           S!Exists(r) => SepLater(row, seps[r]),
           staff' \in [Employees -> S!StaffRow], OneOpen',
           \A e \in Employees :
              staff'[e] = staff[e] \/ (row.executed /\ row.employee = e /\ staff'[e] = S!Gone(row.type))
    PROVE  SepInv'
<1>1. /\ seps'[r] = row
      /\ \A x \in Seps \ {r} : seps'[x] = seps[x]
      /\ seps' \in [Seps -> S!Row \cup {S!NoRow}]
  BY DEF SepInv, SepRows, S!TypeOK
<1>2. SepRows'
  BY <1>1 DEF SepInv, SepRows, S!TypeOK, S!Exists
<1>3. S!Exists(r)'
  BY <1>1, <1>2, SepRowIsThere DEF SepInv, SepRows, S!Exists
<1>4. \A x \in Seps : S!Exists(x) => S!Exists(x)' /\ SepLater(seps'[x], seps[x])
  BY <1>1, <1>3 DEF S!Exists, SepLater
<1>5. ASSUME NEW t \in Sessions PROVE SepWork(sess[t])'
  <2>1. PICK v : v = sess'[t]
    OBVIOUS
  <2>2. v = Idle \/ (SepWork(v) /\ ~alone)
    BY <2>1, TurnKeeps DEF SepInv, InTurn
  <2>3. ~alone => ~alone'
    BY DEF Turns
  <2>4. ~alone /\ SepAdds(v) => SepAdds(v)'
    BY <2>3 DEF SepAdds
  <2>5. ~alone => \A x \in Seps, q \in S!Row : SepLoaded(x, q) => SepLoaded(x, q)'
    BY <1>4, <2>3 DEF SepLoaded, SepLater
  <2>6. ~alone /\ SepEdits(v) => SepEdits(v)'
    BY <2>5 DEF SepEdits
  <2>7. ~alone /\ SepExecutes(v) => SepExecutes(v)'
    BY <2>5 DEF SepExecutes
  <2>8. SepWork(v)'
    BY <2>2, <2>4, <2>6, <2>7 DEF SepWork
  <2> QED
    BY <2>1, <2>8
<1>6. S!GoneOnlyByApproval'
  <2> SUFFICES ASSUME NEW e \in Employees,
                      staff'[e] # [status |-> "ACTIVE", deleted |-> FALSE, login |-> TRUE]
               PROVE  /\ staff'[e].status \in S!Left /\ staff'[e].deleted /\ ~staff'[e].login
                      /\ \E x \in Seps :
                            /\ S!Exists(x)' /\ seps'[x].employee = e /\ seps'[x].executed
                            /\ S!StatusAfter(seps'[x].type) = staff'[e].status
                            /\ NoUser \notin {seps'[x].l1, seps'[x].l2}
                            /\ seps'[x].initiator \notin {seps'[x].l1, seps'[x].l2}
    BY DEF S!GoneOnlyByApproval
  <2>1. \A x \in Seps : S!Exists(x)' => SepSound(seps'[x])
    BY <1>2 DEF SepRows
  <2>2. CASE staff'[e] = staff[e]
    <3>1. /\ staff[e].status \in S!Left /\ staff[e].deleted /\ ~staff[e].login
          /\ \E x \in Seps :
                /\ S!Exists(x) /\ seps[x].employee = e /\ seps[x].executed
                /\ S!StatusAfter(seps[x].type) = staff[e].status
      BY <2>2 DEF SepInv, S!GoneOnlyByApproval
    <3>2. PICK x \in Seps : /\ S!Exists(x) /\ seps[x].employee = e /\ seps[x].executed
                            /\ S!StatusAfter(seps[x].type) = staff[e].status
      BY <3>1
    <3>3. /\ S!Exists(x)' /\ seps'[x].employee = e /\ seps'[x].executed
          /\ seps'[x].type = seps[x].type
      BY <1>4, <3>2 DEF SepLater
    <3> QED
      BY <2>1, <2>2, <3>1, <3>2, <3>3 DEF SepSound
  <2>3. CASE row.executed /\ row.employee = e /\ staff'[e] = S!Gone(row.type)
    <3>1. /\ staff'[e].status = S!StatusAfter(row.type) /\ staff'[e].deleted /\ ~staff'[e].login
      BY <2>3 DEF S!Gone
    <3>2. S!StatusAfter(row.type) \in S!Left
      BY DEF S!StatusAfter, S!Left
    <3> QED
      BY <1>1, <1>3, <2>1, <2>3, <3>1, <3>2 DEF SepSound
  <2> QED
    BY <2>2, <2>3
<1> QED
  BY <1>2, <1>5, <1>6 DEF SepInv

LEMMA OneOpenKept ==
    ASSUME SepInv, alone, NEW r \in Seps, NEW row \in S!Row, seps' = [seps EXCEPT ![r] = row],
           \/ /\ S!Exists(r) /\ row.employee = seps[r].employee /\ staff' = staff
              /\ row.status \in S!Open => seps[r].status \in S!Open
           \/ /\ S!Exists(r) /\ row.employee = seps[r].employee
              /\ seps[r].status \in S!Open /\ row.status \notin S!Open
              /\ \A e \in Employees \ {row.employee} : staff'[e] = staff[e]
           \/ ~S!Exists(r) /\ MayOpen(row.employee) /\ staff' = staff
    PROVE  OneOpen'
<1> DEFINE After(x, e) == /\ seps'[x] # S!NoRow /\ seps'[x].employee = e
                         /\ seps'[x].status \in S!Open
<1>1. /\ seps'[r] = row
      /\ \A x \in Seps \ {r} : seps'[x] = seps[x]
      /\ row # S!NoRow /\ row.employee \in Employees
  BY SepRowIsThere DEF SepInv, SepRows, S!TypeOK, S!Row
<1>2. /\ \A x \in Seps \ {r}, e \in Employees : After(x, e) <=> OpenFor(x, e)
      /\ \A e \in Employees : After(r, e) <=> row.employee = e /\ row.status \in S!Open
  BY <1>1 DEF OpenFor, S!Exists
<1>3. /\ \A e \in Employees : \A x, y \in Seps : OpenFor(x, e) /\ OpenFor(y, e) => x = y
      /\ \A e \in Employees : staff[e].deleted => \A x \in Seps : ~OpenFor(x, e)
  BY DEF SepInv, OneOpen
<1> HIDE DEF After
<1> DEFINE Single == \A e \in Employees : \A x, y \in Seps : After(x, e) /\ After(y, e) => x = y
           GoneHasNone == \A e \in Employees : staff'[e].deleted => \A x \in Seps : ~After(x, e)
<1>4. Single /\ GoneHasNone => OneOpen'
  BY DEF After, OneOpen, OpenFor, S!Exists
<1>5. CASE /\ S!Exists(r) /\ row.employee = seps[r].employee /\ staff' = staff
           /\ row.status \in S!Open => seps[r].status \in S!Open
  <2>1. \A x \in Seps, e \in Employees : After(x, e) => OpenFor(x, e)
    BY <1>2, <1>5 DEF OpenFor
  <2> QED
    <3>1. Single
      BY <1>3, <2>1
    <3>2. GoneHasNone
      BY <1>3, <1>5, <2>1
    <3> QED
      BY <1>4, <3>1, <3>2
<1>6. CASE /\ S!Exists(r) /\ row.employee = seps[r].employee
           /\ seps[r].status \in S!Open /\ row.status \notin S!Open
           /\ \A e \in Employees \ {row.employee} : staff'[e] = staff[e]
  <2>1. OpenFor(r, row.employee)
    BY <1>1, <1>6 DEF OpenFor
  <2>2. \A x \in Seps : ~After(x, row.employee)
    <3>1. \A x \in Seps \ {r} : ~OpenFor(x, row.employee)
      BY <1>1, <1>3, <2>1
    <3>2. ~After(r, row.employee)
      BY <1>1, <1>2, <1>6
    <3> QED
      BY <1>1, <1>2, <3>1, <3>2
  <2>3. \A e \in Employees \ {row.employee} : \A x \in Seps : After(x, e) => OpenFor(x, e)
    BY <1>2
  <2> QED
    <3>1. Single
      BY <1>3, <2>2, <2>3
    <3>2. GoneHasNone
      BY <1>3, <1>6, <2>2, <2>3
    <3> QED
      BY <1>4, <3>1, <3>2
<1>7. CASE ~S!Exists(r) /\ MayOpen(row.employee) /\ staff' = staff
  <2>1. ~staff'[row.employee].deleted /\ \A x \in Seps \ {r} : ~After(x, row.employee)
    BY <1>1, <1>2, <1>7 DEF MayOpen
  <2>2. \A e \in Employees \ {row.employee} : \A x \in Seps : After(x, e) => OpenFor(x, e)
    BY <1>2
  <2> QED
    <3>1. Single
      BY <1>3, <2>1, <2>2
    <3>2. GoneHasNone
      BY <1>3, <1>7, <2>1, <2>2
    <3> QED
      BY <1>4, <3>1, <3>2
<1> QED
  BY <1>5, <1>6, <1>7

SepShows == S!Approval!Next \/ UNCHANGED S!Approval!vars
\* What the change of one row is, seen as a two-layer approval.
LEMMA SepShown ==
    ASSUME S!TypeOK, alone, alone', NEW r \in Seps, NEW row \in S!Row,
           seps' = [seps EXCEPT ![r] = row],
           \/ /\ ~S!Exists(r)
              /\ \E e \in Employees, k \in Types, u \in Officers :
                    row = S!NewRow(e, k, u, "PENDING_APPROVAL_L1")
           \/ S!Exists(r) /\ SepSound(seps[r]) /\ SepMove(seps[r], row)
    PROVE  SepShows
<1> DEFINE status == [x \in Seps |-> IF alone THEN S!AbstractStatus(seps[x]) ELSE "NONE"]
           owner  == [x \in Seps |-> IF alone /\ S!Exists(x) THEN seps[x].initiator ELSE NoUser]
           first  == [x \in Seps |-> IF alone /\ S!Exists(x) THEN seps[x].l1 ELSE NoUser]
           second == [x \in Seps |-> IF alone /\ S!Exists(x) THEN seps[x].l2 ELSE NoUser]
<1>1. /\ seps'[r] = row
      /\ \A x \in Seps \ {r} : seps'[x] = seps[x]
      /\ row # S!NoRow
  BY SepRowIsThere DEF S!TypeOK
<1>2. \A x \in Seps : S!Exists(x)' <=> (x = r \/ S!Exists(x))
  BY <1>1 DEF S!Exists
<1>3. /\ status' = [status EXCEPT ![r] = S!AbstractStatus(row)]
      /\ owner' = [owner EXCEPT ![r] = row.initiator]
      /\ first' = [first EXCEPT ![r] = row.l1]
      /\ second' = [second EXCEPT ![r] = row.l2]
      /\ status[r] = S!AbstractStatus(row) => status' = status
      /\ owner[r] = row.initiator => owner' = owner
      /\ first[r] = row.l1 => first' = first
      /\ second[r] = row.l2 => second' = second
  <2>1. /\ status'[r] = S!AbstractStatus(row) /\ owner'[r] = row.initiator
        /\ first'[r] = row.l1 /\ second'[r] = row.l2
    BY <1>1, <1>2
  <2>2. \A x \in Seps \ {r} : /\ status'[x] = status[x] /\ owner'[x] = owner[x]
                               /\ first'[x] = first[x] /\ second'[x] = second[x]
    BY <1>1, <1>2
  <2>3. /\ status = [x \in Seps |-> status[x]] /\ status' = [x \in Seps |-> status'[x]]
        /\ owner = [x \in Seps |-> owner[x]] /\ owner' = [x \in Seps |-> owner'[x]]
        /\ first = [x \in Seps |-> first[x]] /\ first' = [x \in Seps |-> first'[x]]
        /\ second = [x \in Seps |-> second[x]] /\ second' = [x \in Seps |-> second'[x]]
    OBVIOUS
  <2> HIDE DEF status, owner, first, second
  <2> QED
    BY <2>1, <2>2, <2>3, Replaced
<1>4. CASE /\ ~S!Exists(r)
           /\ \E e \in Employees, k \in Types, u \in Officers :
                 row = S!NewRow(e, k, u, "PENDING_APPROVAL_L1")
  <2>1. /\ status[r] = "NONE" /\ owner[r] = NoUser /\ first[r] = NoUser /\ second[r] = NoUser
    BY <1>4 DEF S!Exists, S!NoRow, S!AbstractStatus
  <2>2. /\ S!AbstractStatus(row) = "PENDING_L1" /\ row.initiator \in Officers
        /\ row.l1 = NoUser /\ row.l2 = NoUser
    BY <1>4 DEF S!NewRow, S!AbstractStatus
  <2>3. first' = first /\ second' = second
    BY <1>3, <2>1, <2>2
  <2> HIDE DEF status, owner, first, second
  <2>4. S!Approval!Ask(r)
    BY <1>3, <2>1, <2>2, <2>3 DEF S!Approval!Ask, status, owner, first, second
  <2> QED
    BY <2>4 DEF S!Approval!Next, SepShows
<1>5. CASE S!Exists(r) /\ SepSound(seps[r]) /\ SepMove(seps[r], row)
  <2>1. PICK q \in S!Row : q = seps[r] /\ q.status # "DRAFT"
    BY <1>5, SepRowIsThere DEF SepSound
  <2>2. /\ status[r] = S!AbstractStatus(q) /\ owner[r] = q.initiator
        /\ first[r] = q.l1 /\ second[r] = q.l2
    BY <1>5, <2>1
  <2>3. /\ row.initiator = q.initiator => owner' = owner
        /\ row.l1 = q.l1 => first' = first
        /\ row.l2 = q.l2 => second' = second
    BY <1>3, <2>2
  <2> HIDE DEF status, owner, first, second
  <2>4. ASSUME NEW u \in Officers, S!MayApproveL1(q, u), row = S!ApprovedL1(q, u)
        PROVE  SepShows
    <3>1. /\ S!AbstractStatus(row) = "PENDING_L2" /\ row.initiator = q.initiator
          /\ row.l1 = u /\ row.l2 = q.l2
      BY <2>4 DEF S!MayApproveL1, S!ApprovedL1, S!Row, S!AbstractStatus
    <3>2. S!AbstractStatus(q) = "PENDING_L1" /\ u \in Officers \ {q.initiator}
      BY <2>1, <2>4, RequestsAssumption DEF S!MayApproveL1, S!ApprovedL1, S!Row, S!Statuses, S!Open, S!AbstractStatus
    <3>3. S!Approval!ApproveFirst(r)
      BY <1>3, <2>2, <2>3, <3>1, <3>2 DEF S!Approval!ApproveFirst, status, owner, first, second
    <3> QED
      BY <3>3 DEF S!Approval!Next, SepShows
  <2>5. ASSUME NEW u \in Officers, S!MayApproveL2(q, u), row = S!ApprovedL2(q, u)
        PROVE  SepShows
    <3>1. /\ S!AbstractStatus(row) = "APPROVED" /\ row.initiator = q.initiator
          /\ row.l1 = q.l1 /\ row.l2 = u
      BY <2>5 DEF S!MayApproveL2, S!ApprovedL2, S!Row, S!AbstractStatus
    <3>2. S!AbstractStatus(q) = "PENDING_L2" /\ u \in Officers \ {q.initiator, q.l1}
      BY <2>1, <2>5, RequestsAssumption DEF S!MayApproveL2, S!ApprovedL2, S!Row, S!Statuses, S!Open, S!AbstractStatus
    <3>3. S!Approval!ApproveSecond(r)
      BY <1>3, <2>2, <2>3, <3>1, <3>2 DEF S!Approval!ApproveSecond, status, owner, first, second
    <3> QED
      BY <3>3 DEF S!Approval!Next, SepShows
  <2>6. CASE S!MayReject(q) /\ row = S!Rejected(q)
    <3>1. /\ S!AbstractStatus(row) = "REJECTED" /\ row.initiator = q.initiator
          /\ row.l1 = q.l1 /\ row.l2 = q.l2
      BY <2>6 DEF S!MayReject, S!Rejected, S!Row, S!AbstractStatus
    <3>2. S!AbstractStatus(q) \in {"PENDING_L1", "PENDING_L2"}
      BY <2>1, <2>6, RequestsAssumption DEF S!MayReject, S!Rejected, S!Row, S!Statuses, S!Open, S!AbstractStatus
    <3>3. S!Approval!Reject(r)
      BY <1>3, <2>2, <2>3, <3>1, <3>2 DEF S!Approval!Reject, status, owner, first, second
    <3> QED
      BY <3>3 DEF S!Approval!Next, SepShows
  <2>7. CASE S!MayCancel(q) /\ row = S!Cancelled(q)
    <3>1. /\ S!AbstractStatus(row) = "CANCELLED" /\ row.initiator = q.initiator
          /\ row.l1 = q.l1 /\ row.l2 = q.l2
      BY <2>7 DEF S!MayCancel, S!Cancelled, S!Row, S!AbstractStatus
    <3>2. S!AbstractStatus(q) \in {"PENDING_L1", "PENDING_L2", "APPROVED", "REJECTED"}
      BY <2>1, <2>7, RequestsAssumption DEF S!MayCancel, S!Cancelled, S!Row, S!Statuses, S!Open, S!AbstractStatus
    <3>3. S!Approval!Withdraw(r)
      BY <1>3, <2>2, <2>3, <3>1, <3>2 DEF S!Approval!Withdraw, status, owner, first, second
    <3> QED
      BY <3>3 DEF S!Approval!Next, SepShows
  <2>8. CASE S!MayInterview(q) /\ row = S!Interviewed(q)
    <3>1. /\ S!AbstractStatus(row) = S!AbstractStatus(q) /\ row.initiator = q.initiator
          /\ row.l1 = q.l1 /\ row.l2 = q.l2
      BY <2>8 DEF S!Interviewed, S!Row, S!AbstractStatus
    <3>2. UNCHANGED <<status, owner, first, second>>
      BY <1>3, <2>2, <2>3, <3>1
    <3> QED
      BY <3>2 DEF S!Approval!vars, SepShows, status, owner, first, second
  <2>9. CASE SepExecution(q, row)
    <3>1. /\ S!AbstractStatus(row) = "EXECUTED" /\ row.initiator = q.initiator
          /\ row.l1 = q.l1 /\ row.l2 = q.l2
      BY <2>9 DEF SepExecution, S!MayExecute, S!Executed, S!Row, S!AbstractStatus
    <3>2. S!AbstractStatus(q) = "APPROVED"
      BY <2>1, <2>9, RequestsAssumption DEF SepExecution, S!MayExecute, S!Executed, S!Row, S!Statuses, S!Open, S!AbstractStatus
    <3>3. S!Approval!Carry(r)
      BY <1>3, <2>2, <2>3, <3>1, <3>2 DEF S!Approval!Carry, status, owner, first, second
    <3> QED
      BY <3>3 DEF S!Approval!Next, SepShows
  <2> QED
    BY <1>5, <2>1, <2>4, <2>5, <2>6, <2>7, <2>8, <2>9 DEF SepMove, SepDecision
<1> QED
  BY <1>4, <1>5

LEMMA SepSame ==
    ASSUME UNCHANGED <<alone, seps>>
    PROVE  UNCHANGED S!Approval!vars
  BY DEF S!Approval!vars, S!Exists

SepGoal == InTurn /\ SepInv

LEMMA SepBegins ==
    ASSUME SepGoal, part = "separation", part' = part, NEW s \in Sessions,
           NEW w, S!Begin(s, w), UNCHANGED <<seps, staff>>, SepWork(w)
    PROVE  SepGoal' /\ SepShows
<1>1. Turns(s, w)
  BY DEF SepGoal, S!Begin, S!Go, S!Idle, Turns, Idle
<1>2. InTurn' /\ SepInv'
  BY <1>1, TurnKeeps, SepRuns DEF SepGoal
<1> QED
  BY <1>1, <1>2, SepSame DEF SepGoal, SepShows, Turns

LEMMA SepLoads ==
    ASSUME SepInv, NEW r \in Seps, S!Exists(r)
    PROVE  seps[r] \in S!Row /\ SepLoaded(r, seps[r])
<1>1. seps[r] \in S!Row /\ SepSound(seps[r])
  BY SepRowIsThere DEF SepInv, SepRows
<1> QED
  BY <1>1 DEF SepLoaded, SepLater

LEMMA SepChange ==
    ASSUME SepGoal, part = "separation", part' = part, NEW s \in Sessions, NEW r \in Seps,
           NEW n, S!Exists(r), SepDecision(seps[r], n), S!Change(s, r, n)
    PROVE  SepGoal' /\ SepShows
<1>1. PICK q \in S!Row : q = seps[r] /\ SepLoaded(r, q) /\ SepSound(q)
  BY SepLoads DEF SepGoal, SepLoaded
<1>2. n \in S!Row
  BY <1>1, SepMoves DEF SepMove
<1> DEFINE w == [op |-> "edit", table |-> "seps", key |-> r, seen |-> q, new |-> n]
<1>3. SepEdits(w)
  BY <1>1, <1>2 DEF SepEdits
<1>4. S!Begin(s, w) /\ UNCHANGED <<seps, staff>>
  BY <1>1 DEF S!Change, S!Edit
<1> QED
  BY <1>3, <1>4, SepBegins DEF SepWork

\* The commit of a decision, or of an execution.
LEMMA SepUpdates ==
    ASSUME SepGoal, part = "separation", part' = part, NEW s \in Sessions, Turns(s, Idle),
           NEW r \in Seps, NEW q \in S!Row, NEW n \in S!Row, SepLoaded(r, q),
           seps' = [seps EXCEPT ![r] = S!Merge(seps[r], q, n)],
           \/ SepDecision(q, n) /\ staff' = staff
           \/ SepExecution(q, n) /\ staff' = [staff EXCEPT ![q.employee] = S!Gone(q.type)]
    PROVE  SepGoal' /\ SepShows
<1> DEFINE m == S!Merge(seps[r], q, n)
<1>1. InTurn' /\ alone' = alone /\ alone \in BOOLEAN
  BY TurnKeeps DEF SepGoal, InTurn, Turns
<1>2. S!Exists(r) /\ seps[r] \in S!Row /\ SepSound(seps[r]) /\ SepSound(q) /\ SepLater(seps[r], q)
  BY SepLoads DEF SepGoal, SepLoaded
<1>3. SepMove(q, n) /\ SepSound(n) /\ SepLater(n, q)
  BY <1>2, SepMoves DEF SepMove
<1>4. /\ m \in S!Row /\ SepSound(m) /\ SepLater(m, seps[r])
      /\ n.executed => m.executed
      /\ alone => m = n /\ q = seps[r]
  <2>1. alone => q = seps[r]
    BY DEF SepLoaded
  <2> QED
    BY <1>2, <1>3, <2>1, SepMerge
<1> HIDE DEF m
<1>5. m.employee = q.employee /\ m.type = q.type /\ m.employee = seps[r].employee
  BY <1>2, <1>4 DEF SepLater
<1>6. staff \in [Employees -> S!StaffRow]
  BY DEF SepGoal, SepInv, SepRows, S!TypeOK
<1>7. SepExecution(q, n) => /\ n.executed /\ q.status = "APPROVED" /\ n.status = "EXECUTED"
  BY DEF SepExecution, S!MayExecute, S!Executed, S!Row
<1>8. /\ staff' \in [Employees -> S!StaffRow]
      /\ \A e \in Employees :
            staff'[e] = staff[e] \/ (m.executed /\ m.employee = e /\ staff'[e] = S!Gone(m.type))
      /\ SepExecution(q, n) => \A e \in Employees \ {m.employee} : staff'[e] = staff[e]
  <2>1. S!Gone(q.type) \in S!StaffRow
    BY DEF S!Gone, S!StaffRow, S!StatusAfter, S!Left
  <2>2. CASE staff' = staff /\ SepDecision(q, n)
    <3>1. ~SepExecution(q, n)
      BY <2>2 DEF SepDecision, SepExecution, S!MayApproveL1, S!MayApproveL2, S!MayReject,
                  S!MayCancel, S!MayInterview, S!MayExecute, S!Executed, S!ApprovedL1, S!ApprovedL2,
                  S!Rejected, S!Cancelled, S!Interviewed, S!Row
    <3> QED
      BY <1>6, <2>2, <3>1
  <2>3. CASE SepExecution(q, n) /\ staff' = [staff EXCEPT ![q.employee] = S!Gone(q.type)]
    BY <1>4, <1>5, <1>6, <1>7, <2>1, <2>3
  <2> QED
    BY <2>2, <2>3
<1>9. OneOpen'
  <2>1. CASE ~alone
    BY <1>1, <2>1 DEF OneOpen
  <2>2. CASE alone /\ SepDecision(q, n) /\ staff' = staff
    <3>1. n.status \in S!Open => q.status \in S!Open
      BY <2>2 DEF SepDecision, S!MayApproveL1, S!MayApproveL2, S!MayReject,
                  S!MayCancel, S!MayInterview, S!ApprovedL1, S!ApprovedL2,
                  S!Rejected, S!Cancelled, S!Interviewed, S!Row, S!Open
    <3> QED
      BY <1>2, <1>4, <1>5, <2>2, <3>1, OneOpenKept DEF SepGoal, m
  <2>3. CASE alone /\ SepExecution(q, n)
    <3>1. q.status \in S!Open /\ n.status \notin S!Open
      BY <1>7, <2>3 DEF S!Open
    <3> QED
      BY <1>2, <1>4, <1>5, <1>8, <2>3, <3>1, OneOpenKept DEF SepGoal, m
  <2> QED
    BY <2>1, <2>2, <2>3
<1>10. SepInv'
  BY <1>4, <1>8, <1>9, SepWritten DEF SepGoal, m
<1>11. SepShows
  <2>1. CASE alone
    BY <1>1, <1>2, <1>3, <1>4, <2>1, SepShown DEF SepGoal, SepInv, SepRows, m
  <2>2. CASE ~alone
    BY <1>1, <2>2 DEF S!Approval!vars, SepShows
  <2> QED
    BY <2>1, <2>2
<1> QED
  BY <1>1, <1>10, <1>11 DEF SepGoal

LEMMA SepCommit ==
    ASSUME SepGoal, part = "separation", part' = part, NEW s \in Sessions,
           S!Commit(s) \/ S!ExecuteCommit(s)
    PROVE  SepGoal' /\ SepShows
<1>1. Turns(s, Idle)
  <2>1. sess[s].op # "idle"
    BY DEF S!Commit, S!ExecuteCommit, S!Editing, S!Adding
  <2>2. sess[s] # Idle
    BY <2>1 DEF Idle
  <2> QED
    BY <2>2 DEF S!Commit, S!ExecuteCommit, S!Finish, S!Go, S!Idle, Turns, Idle
<1>2. InTurn' /\ alone' = alone /\ alone \in BOOLEAN
  BY <1>1, TurnKeeps DEF SepGoal, InTurn, Turns
<1>3. PICK w : w = sess[s]
  OBVIOUS
<1>4. SepAdds(w) \/ SepEdits(w) \/ SepExecutes(w)
  <2>1. SepWork(w)
    BY <1>3 DEF SepGoal, SepInv
  <2> QED
    BY <1>1, <1>3, <2>1 DEF SepWork, S!Commit, S!ExecuteCommit, S!Editing, S!Adding, Idle
<1>5. CASE SepEdits(w)
  <2>1. PICK r \in Seps, q \in S!Row, n \in S!Row :
          /\ w = [op |-> "edit", table |-> "seps", key |-> r, seen |-> q, new |-> n]
          /\ SepLoaded(r, q) /\ SepDecision(q, n)
    BY <1>5 DEF SepEdits
  <2>2. seps' = [seps EXCEPT ![r] = S!Merge(seps[r], q, n)] /\ staff' = staff
    BY <1>3, <2>1 DEF S!Commit, S!ExecuteCommit, S!Editing, S!Adding, S!Edited
  <2> QED
    BY <1>1, <2>1, <2>2, SepUpdates
<1>6. CASE SepExecutes(w)
  <2>1. PICK r \in Seps, q \in S!Row, n \in S!Row :
          /\ w = [op |-> "execute", key |-> r, seen |-> q, new |-> n]
          /\ SepLoaded(r, q) /\ SepExecution(q, n)
    BY <1>6 DEF SepExecutes
  <2>2. /\ seps' = [seps EXCEPT ![r] = S!Merge(seps[r], q, n)]
        /\ staff' = [staff EXCEPT ![q.employee] = S!Gone(q.type)]
    BY <1>3, <2>1 DEF S!Commit, S!ExecuteCommit, S!Editing, S!Adding, S!Edited
  <2> QED
    BY <1>1, <2>1, <2>2, SepUpdates
<1>7. CASE SepAdds(w)
  <2>1. PICK e \in Employees, k \in Types, u \in Officers :
          /\ w = [op |-> "add", table |-> "seps", new |-> S!NewRow(e, k, u, "PENDING_APPROVAL_L1")]
          /\ alone => MayOpen(e)
    BY <1>7 DEF SepAdds
  <2> DEFINE row == S!NewRow(e, k, u, "PENDING_APPROVAL_L1")
  <2>2. PICK r \in Seps : ~S!Exists(r) /\ seps' = [seps EXCEPT ![r] = row]
    BY <1>3, <2>1 DEF S!Commit, S!ExecuteCommit, S!Editing, S!Adding
  <2>3. staff' = staff
    BY <1>3, <2>1 DEF S!Commit, S!ExecuteCommit
  <2>4. row \in S!Row /\ SepSound(row) /\ row.employee = e
    BY RequestsAssumption DEF S!NewRow, S!Row, S!Statuses, S!Open, SepSound
  <2> HIDE DEF row
  <2>5. OneOpen'
    <3>1. CASE alone
      BY <2>1, <2>2, <2>3, <2>4, <3>1, OneOpenKept DEF SepGoal
    <3>2. CASE ~alone
      BY <1>2, <3>2 DEF OneOpen
    <3> QED
      BY <1>2, <3>1, <3>2
  <2>6. staff' \in [Employees -> S!StaffRow]
    BY <2>3 DEF SepGoal, SepInv, SepRows, S!TypeOK
  <2>7. SepInv'
    BY <1>1, <2>2, <2>3, <2>4, <2>5, <2>6, SepWritten DEF SepGoal
  <2>8. SepShows
    <3>1. CASE alone
      BY <1>2, <2>2, <2>4, <3>1, SepShown DEF SepGoal, SepInv, SepRows, row
    <3>2. CASE ~alone
      BY <1>2, <3>2 DEF S!Approval!vars, SepShows
    <3> QED
      BY <1>2, <3>1, <3>2
  <2> QED
    BY <1>2, <2>7, <2>8 DEF SepGoal
<1> QED
  BY <1>4, <1>5, <1>6, <1>7

LEMMA SepStep ==
    ASSUME SepGoal, part = "separation", part' = part, NEW s \in Sessions, S!Step(s)
    PROVE  SepGoal' /\ SepShows
<1>1. ASSUME NEW e \in Employees, NEW k \in Types, NEW u \in Officers, S!Create(s, e, k, u)
      PROVE  SepGoal' /\ SepShows
  <2> DEFINE w == [op |-> "add", table |-> "seps", new |-> S!NewRow(e, k, u, "PENDING_APPROVAL_L1")]
  <2>1. S!Begin(s, w) /\ UNCHANGED <<seps, staff>>
    BY <1>1 DEF S!Create, S!Add
  <2>2. MayOpen(e)
    BY <1>1 DEF S!Create, S!MayCreate, S!NoneOpen, MayOpen, OpenFor
  <2>3. SepWork(w)
    BY <2>2 DEF SepWork, SepAdds
  <2> QED
    BY <2>1, <2>3, SepBegins
<1>2. ASSUME NEW r \in Seps, S!Exists(r),
             \/ \E u \in Officers : S!ApproveL1(s, r, u) \/ S!ApproveL2(s, r, u)
             \/ S!Reject(s, r) \/ S!Cancel(s, r) \/ S!Interview(s, r)
      PROVE  SepGoal' /\ SepShows
  <2>1. \E n : SepDecision(seps[r], n) /\ S!Change(s, r, n)
    BY <1>2 DEF S!ApproveL1, S!ApproveL2, S!Reject, S!Cancel, S!Interview, SepDecision
  <2> QED
    BY <1>2, <2>1, SepChange
<1>3. ASSUME NEW r \in Seps, S!Exists(r), S!Execute(s, r)
      PROVE  SepGoal' /\ SepShows
  <2>1. PICK q \in S!Row : q = seps[r] /\ SepLoaded(r, q) /\ SepSound(q)
    BY <1>3, SepLoads DEF SepGoal, SepLoaded
  <2> DEFINE n == S!Executed(q)
             w == [op |-> "execute", key |-> r, seen |-> q, new |-> n]
  <2>2. SepExecution(q, n)
    BY <1>3, <2>1 DEF S!Execute, SepExecution
  <2>3. n \in S!Row
    BY <2>1, <2>2, SepMoves DEF SepMove
  <2>4. S!Begin(s, w) /\ UNCHANGED <<seps, staff>>
    BY <1>3, <2>1 DEF S!Execute
  <2>5. SepWork(w)
    BY <2>1, <2>2, <2>3 DEF SepWork, SepExecutes
  <2> QED
    BY <2>4, <2>5, SepBegins
<1>4. CASE S!Commit(s) \/ S!ExecuteCommit(s)
  BY <1>4, SepCommit
<1>5. CASE S!Abort(s) /\ UNCHANGED <<seps, staff>>
  <2>1. Turns(s, Idle)
    BY <1>5 DEF S!Abort, S!Finish, S!Go, S!Idle, Turns, Idle
  <2>2. SepWork(Idle)
    BY DEF SepWork
  <2>3. InTurn' /\ SepInv'
    BY <1>5, <2>1, <2>2, TurnKeeps, SepRuns DEF SepGoal
  <2> QED
    BY <1>5, <2>1, <2>3, SepSame DEF SepGoal, SepShows, Turns
<1> QED
  BY <1>1, <1>2, <1>3, <1>4, <1>5 DEF S!Step

LEMMA SepOnce ==
    ASSUME SepInv
    PROVE  S!OneInProgress
<1> DEFINE open(e) == {x \in Seps : S!Exists(x) /\ seps[x].employee = e /\ seps[x].status \in S!Open}
<1>1. ASSUME alone, NEW e \in Employees
      PROVE  Cardinality(open(e)) <= IF staff[e].deleted THEN 0 ELSE 1
  <2>1. \A x, y \in open(e) : x = y
    BY <1>1 DEF SepInv, OneOpen, OpenFor
  <2>2. staff[e].deleted => open(e) = {}
    BY <1>1 DEF SepInv, OneOpen, OpenFor
  <2> HIDE DEF open
  <2>3. CASE open(e) = {}
    <3>1. Cardinality(open(e)) = 0
      BY <2>3, FS_EmptySet
    <3> QED
      BY <3>1
  <2>4. CASE open(e) # {}
    <3>1. PICK x \in open(e) : open(e) = {x}
      BY <2>1, <2>4
    <3>2. Cardinality(open(e)) = 1
      BY <3>1, FS_Singleton
    <3> QED
      BY <2>2, <2>4, <3>2
  <2> QED
    BY <2>3, <2>4
<1>2. ASSUME NEW e \in Employees PROVE S!Cardinality(open(e)) = Cardinality(open(e))
  BY DEF S!Cardinality, Cardinality
<1> QED
  BY <1>1, <1>2 DEF S!OneInProgress

-----------------------------------------------------------------------------
\* Change requests.  Handlers that overlap may leave any row of the right type;
\* alone, a row stands for what its approvers saw, and the numbers of a project
\* are distinct and no larger than the number of its rows.
CrSound(q) ==
    /\ q.status \in {"PENDING_L2", "APPROVED"} => q.cost = q.agreed
    /\ q.status = "APPROVED" =>
          /\ q.toFinance <=> q.cost # 0
          /\ q.toSales <=> q.project \in ClientProjects
CrMove(q, n) ==
    \/ \E cost \in Costs : C!MayUpdate(q) /\ n = C!Updated(q, cost)
    \/ C!MaySubmit(q) /\ n = C!Submitted(q)
    \/ n = C!Deleted(q)
    \/ \E u \in Editors : C!MayApproveL1(q, u) /\ n = C!ApprovedL1(q, u)
    \/ \E u \in Editors : C!MayApproveL2(q, u) /\ n = C!ApprovedL2(q, u)
    \/ \E u \in Editors : C!MayReject(q, u) /\ n = C!Rejected(q)
    \/ \E u \in Editors : C!MayCancel(q, u) /\ n = C!Cancelled(q)

CrsOf(p) == {c \in Crs : C!Stored(c) /\ crs[c].project = p}
CrNumbered ==
    /\ \A c \in Crs : C!Stored(c) =>
          crs[c].number >= 1 /\ crs[c].number <= Cardinality(CrsOf(crs[c].project))
    /\ \A c, d \in Crs : c # d /\ C!Stored(c) /\ C!Stored(d) /\ crs[c].project = crs[d].project
          => crs[c].number # crs[d].number

CrNewRow(p, u, cost, k) ==
    [status |-> "DRAFT", project |-> p, number |-> k, cost |-> cost,
     requester |-> u, l1 |-> NoUser, l2 |-> NoUser, toFinance |-> FALSE,
     toSales |-> FALSE, deleted |-> FALSE, agreed |-> cost]
CrAdds(w) ==
    \E p \in Projects, u \in Editors, cost \in Costs, k \in Nat :
        /\ w = [op |-> "add", table |-> "crs", new |-> CrNewRow(p, u, cost, k)]
        /\ alone => k = 1 + Cardinality(CrsOf(p))
CrEdits(w) ==
    \E c \in Crs : \E q, n \in C!Row :
        /\ w = [op |-> "edit", table |-> "crs", key |-> c, seen |-> q, new |-> n]
        /\ C!Stored(c) /\ CrMove(q, n)
        /\ alone => q = crs[c]
CrWork(w) == w = Idle \/ CrAdds(w) \/ CrEdits(w)

CrKept == alone => CrNumbered /\ \A c \in Crs : C!Stored(c) => CrSound(crs[c])
CrInv ==
    /\ C!TypeOK /\ CrKept
    /\ part = "change" => \A s \in Sessions : CrWork(sess[s])

LEMMA CrRowIsThere ==
    ASSUME C!TypeOK, NEW c \in Crs
    PROVE  /\ C!NoRow \notin C!Row
           /\ C!Stored(c) <=> crs[c] \in C!Row
  BY DEF C!TypeOK, C!Stored, C!NoRow, C!Row

LEMMA Truths == \A x, y : (x # y) \in BOOLEAN /\ (x \in y) \in BOOLEAN
<1>1. \A x, y : (x # y) \in BOOLEAN
  BY Zenon
<1>2. \A x, y : (x \in y) \in BOOLEAN
  BY SMT
<1> QED
  BY <1>1, <1>2, Zenon

LEMMA CrMoves ==
    ASSUME NEW q \in C!Row, NEW n, CrMove(q, n)
    PROVE  /\ n \in C!Row /\ n.project = q.project /\ n.number = q.number
           /\ CrSound(q) => CrSound(n)
<1>0. (q.cost # 0) \in BOOLEAN /\ (q.project \in ClientProjects) \in BOOLEAN
  BY Truths, Zenon
<1>8. PICK a \in BOOLEAN, b \in BOOLEAN : a = (q.cost # 0) /\ b = (q.project \in ClientProjects)
  BY <1>0, Zenon
<1> USE RequestsAssumption DEF C!Row, C!Statuses, CrSound
<1>1. ASSUME NEW cost \in Costs, C!MayUpdate(q), n = C!Updated(q, cost)
      PROVE  n \in C!Row /\ n.project = q.project /\ n.number = q.number /\ CrSound(n)
  BY <1>1 DEF C!MayUpdate, C!Updated
<1>2. CASE C!MaySubmit(q) /\ n = C!Submitted(q)
  BY <1>2 DEF C!MaySubmit, C!Submitted
<1>3. CASE n = C!Deleted(q)
  BY <1>3 DEF C!Deleted
<1>4. ASSUME NEW u \in Editors, C!MayApproveL1(q, u), n = C!ApprovedL1(q, u)
      PROVE  n \in C!Row /\ n.project = q.project /\ n.number = q.number /\ CrSound(n)
  BY <1>4 DEF C!MayApproveL1, C!ApprovedL1
<1>5. ASSUME NEW u \in Editors, C!MayApproveL2(q, u), n = C!ApprovedL2(q, u)
      PROVE  /\ n \in C!Row /\ n.project = q.project /\ n.number = q.number
             /\ CrSound(q) => CrSound(n)
  <2>3. n = [q EXCEPT !.status = "APPROVED", !.l2 = u, !.toFinance = a, !.toSales = b]
    BY <1>5, <1>8, Zenon DEF C!ApprovedL2
  <2>4. (a <=> q.cost # 0) /\ (b <=> q.project \in ClientProjects)
    BY <1>8, Zenon
  <2>5. n \in C!Row
    BY <2>3
  <2>6. /\ n.project = q.project /\ n.number = q.number /\ n.cost = q.cost
        /\ n.agreed = q.agreed /\ n.status = "APPROVED"
        /\ (n.toFinance <=> a) /\ (n.toSales <=> b)
    BY <2>3
  <2>7. CrSound(q) => q.cost = q.agreed
    BY <1>5 DEF C!MayApproveL2
  <2> QED
    BY <2>4, <2>5, <2>6, <2>7
<1>6. CASE n = C!Rejected(q)
  BY <1>6 DEF C!Rejected
<1>7. CASE n = C!Cancelled(q)
  BY <1>7 DEF C!Cancelled
<1> QED
  BY <1>1, <1>2, <1>3, <1>4, <1>5, <1>6, <1>7 DEF CrMove

LEMMA CrMerge ==
    ASSUME NEW now \in C!Row, NEW q \in C!Row, NEW n \in C!Row
    PROVE  /\ C!Merge(now, q, n) \in C!Row
           /\ now = q => C!Merge(now, q, n) = n
<1> DEFINE m == C!Merge(now, q, n)
<1>1. /\ DOMAIN now = {"status", "project", "number", "cost", "requester", "l1", "l2",
                       "toFinance", "toSales", "deleted", "agreed"}
      /\ DOMAIN n = DOMAIN now
  BY DEF C!Row
<1>2. m = [status    |-> IF n.status = q.status THEN now.status ELSE n.status,
           project   |-> IF n.project = q.project THEN now.project ELSE n.project,
           number    |-> IF n.number = q.number THEN now.number ELSE n.number,
           cost      |-> IF n.cost = q.cost THEN now.cost ELSE n.cost,
           requester |-> IF n.requester = q.requester THEN now.requester ELSE n.requester,
           l1        |-> IF n.l1 = q.l1 THEN now.l1 ELSE n.l1,
           l2        |-> IF n.l2 = q.l2 THEN now.l2 ELSE n.l2,
           toFinance |-> IF n.toFinance = q.toFinance THEN now.toFinance ELSE n.toFinance,
           toSales   |-> IF n.toSales = q.toSales THEN now.toSales ELSE n.toSales,
           deleted   |-> IF n.deleted = q.deleted THEN now.deleted ELSE n.deleted,
           agreed    |-> IF n.agreed = q.agreed THEN now.agreed ELSE n.agreed]
  BY <1>1 DEF C!Merge
<1> HIDE DEF m
<1>3. m \in C!Row
  BY <1>2 DEF C!Row
<1>4. now = q => m = n
  BY <1>2 DEF C!Row
<1> QED
  BY <1>3, <1>4 DEF m

LEMMA CrRuns ==
    ASSUME InTurn, CrInv, part = "change", NEW s \in Sessions, NEW w, Turns(s, w),
           UNCHANGED <<part, crs>>, CrWork(w)
    PROVE  CrInv'
<1>1. alone' = alone /\ crs' = crs
  BY DEF Turns
<1>2. C!TypeOK'
  BY <1>1 DEF CrInv, C!TypeOK
<1>3. CrKept'
  BY <1>1 DEF CrInv, CrKept, CrNumbered, CrsOf, C!Stored
<1>4. ASSUME NEW t \in Sessions PROVE CrWork(sess[t])'
  <2>1. PICK v : v = sess'[t]
    OBVIOUS
  <2>2. CrWork(v)
    BY <2>1, TurnKeeps DEF CrInv
  <2>3. CrWork(v)'
    BY <1>1, <2>2 DEF CrWork, CrAdds, CrEdits, CrsOf, C!Stored
  <2> QED
    BY <2>1, <2>3
<1> QED
  BY <1>2, <1>3, <1>4 DEF CrInv

LEMMA CrWritten ==
    ASSUME InTurn, CrInv, part = "change", NEW s \in Sessions, Turns(s, Idle),
           part' = part, NEW c \in Crs, NEW row \in C!Row,
           crs' = [crs EXCEPT ![c] = row], CrKept'
    PROVE  CrInv'
<1>1. C!TypeOK'
  BY DEF CrInv, C!TypeOK
<1>2. \A x \in Crs : C!Stored(x) => C!Stored(x)'
  BY CrRowIsThere DEF CrInv, C!TypeOK, C!Stored
<1>3. ASSUME NEW t \in Sessions PROVE CrWork(sess[t])'
  <2>1. PICK v : v = sess'[t]
    OBVIOUS
  <2>2. v = Idle \/ (CrWork(v) /\ ~alone)
    BY <2>1, TurnKeeps DEF CrInv, InTurn
  <2>3. ~alone => ~alone'
    BY DEF Turns
  <2>4. ~alone /\ CrAdds(v) => CrAdds(v)'
    BY <2>3 DEF CrAdds
  <2>5. ~alone /\ CrEdits(v) => CrEdits(v)'
    BY <1>2, <2>3 DEF CrEdits
  <2>6. CrWork(v)'
    BY <2>2, <2>4, <2>5 DEF CrWork
  <2> QED
    BY <2>1, <2>6
<1> QED
  BY <1>1, <1>3 DEF CrInv

\* The numbers after a row is edited, and after one is added.
LEMMA CrNumbers ==
    ASSUME C!TypeOK, CrNumbered, NEW c \in Crs, NEW row \in C!Row,
           crs' = [crs EXCEPT ![c] = row],
           \/ C!Stored(c) /\ row.project = crs[c].project /\ row.number = crs[c].number
           \/ ~C!Stored(c) /\ row.number = 1 + Cardinality(CrsOf(row.project))
    PROVE  CrNumbered'
<1> DEFINE After(x) == crs'[x] # C!NoRow
           Of(p) == {x \in Crs : After(x) /\ crs'[x].project = p}
<1>1. /\ crs'[c] = row /\ row # C!NoRow
      /\ \A x \in Crs \ {c} : crs'[x] = crs[x]
  BY CrRowIsThere DEF C!TypeOK
<1>2. \A x \in Crs : After(x) <=> (x = c \/ C!Stored(x))
  BY <1>1 DEF C!Stored
<1>3. \A p : IsFiniteSet(CrsOf(p)) /\ Cardinality(CrsOf(p)) \in Nat
  <2>1. ASSUME NEW p PROVE IsFiniteSet(CrsOf(p)) /\ Cardinality(CrsOf(p)) \in Nat
    <3>1. CrsOf(p) \subseteq Crs
      BY DEF CrsOf
    <3>2. IsFiniteSet(CrsOf(p))
      BY <3>1, FS_Subset, RequestsAssumption
    <3> QED
      BY <3>2, FS_CardinalityType
  <2> QED
    BY <2>1
<1>4. \A x \in Crs : C!Stored(x) => crs[x].number \in Nat /\ crs[x] \in C!Row
  BY CrRowIsThere DEF C!Row
<1>5. /\ \A x \in Crs : After(x) =>
            crs'[x].number >= 1 /\ crs'[x].number <= Cardinality(Of(crs'[x].project))
      /\ \A x, y \in Crs : x # y /\ After(x) /\ After(y) /\ crs'[x].project = crs'[y].project
            => crs'[x].number # crs'[y].number
  <2>1. CASE C!Stored(c) /\ row.project = crs[c].project /\ row.number = crs[c].number
    <3>1. \A x \in Crs : /\ After(x) <=> C!Stored(x)
                         /\ After(x) => crs'[x].project = crs[x].project /\ crs'[x].number = crs[x].number
      BY <1>1, <1>2, <2>1
    <3>2. ASSUME NEW p PROVE Of(p) = CrsOf(p)
      BY <3>1 DEF CrsOf
    <3> HIDE DEF After, Of
    <3> QED
      BY <3>1, <3>2 DEF CrNumbered
  <2>2. CASE ~C!Stored(c) /\ row.number = 1 + Cardinality(CrsOf(row.project))
    <3>1. ASSUME NEW p, p # row.project PROVE Of(p) = CrsOf(p)
      BY <1>1, <1>2, <2>2, <3>1 DEF CrsOf
    <3>2. Of(row.project) = CrsOf(row.project) \cup {c} /\ c \notin CrsOf(row.project)
      BY <1>1, <1>2, <2>2 DEF CrsOf
    <3>3. Cardinality(Of(row.project)) = Cardinality(CrsOf(row.project)) + 1
      BY <1>3, <3>2, FS_AddElement
    <3> HIDE DEF After, Of
    <3>4. \A x \in Crs \ {c} : After(x) =>
            /\ C!Stored(x) /\ crs'[x] = crs[x]
            /\ crs[x].number \in Nat /\ crs[x].number >= 1
            /\ crs[x].number <= Cardinality(CrsOf(crs[x].project))
      BY <1>1, <1>2, <1>4 DEF CrNumbered
    <3>5. ASSUME NEW x \in Crs, After(x)
          PROVE  crs'[x].number >= 1 /\ crs'[x].number <= Cardinality(Of(crs'[x].project))
      <4>1. CASE x = c
        BY <1>1, <1>3, <2>2, <3>3, <4>1
      <4>2. CASE x # c /\ crs[x].project = row.project
        BY <1>3, <3>3, <3>4, <3>5, <4>2
      <4>3. CASE x # c /\ crs[x].project # row.project
        BY <3>1, <3>4, <3>5, <4>3
      <4> QED
        BY <4>1, <4>2, <4>3
    <3>6. ASSUME NEW x \in Crs \ {c}, After(x), crs'[x].project = row.project
          PROVE  crs'[x].number # row.number
      BY <1>3, <2>2, <3>4, <3>6
    <3>7. ASSUME NEW x \in Crs \ {c}, NEW y \in Crs \ {c}, x # y, After(x), After(y),
                 crs'[x].project = crs'[y].project
          PROVE  crs'[x].number # crs'[y].number
      BY <3>4, <3>7 DEF CrNumbered
    <3>8. ASSUME NEW x \in Crs, NEW y \in Crs, x # y, After(x), After(y),
                 crs'[x].project = crs'[y].project
          PROVE  crs'[x].number # crs'[y].number
      BY <1>1, <3>6, <3>7, <3>8
    <3> QED
      BY <3>5, <3>8
  <2> QED
    BY <2>1, <2>2
<1> QED
  BY <1>5 DEF CrNumbered, CrsOf, C!Stored

LEMMA CrSoundAfter ==
    ASSUME C!TypeOK, \A x \in Crs : C!Stored(x) => CrSound(crs[x]),
           NEW c \in Crs, NEW row \in C!Row, crs' = [crs EXCEPT ![c] = row], CrSound(row)
    PROVE  (\A x \in Crs : C!Stored(x) => CrSound(crs[x]))'
<1>1. crs'[c] = row /\ \A x \in Crs \ {c} : crs'[x] = crs[x]
  BY DEF C!TypeOK
<1>2. \A x \in Crs : crs'[x] # C!NoRow => CrSound(crs'[x])
  BY <1>1 DEF C!Stored
<1> QED
  BY <1>2 DEF C!Stored, CrSound

CrShows == C!Approval!Next \/ UNCHANGED C!Approval!vars
\* What the change of one row is, seen as a two-layer approval: an edit of the
\* content or a deletion is nothing there.
LEMMA CrShown ==
    ASSUME C!TypeOK, alone, alone', NEW c \in Crs, NEW row \in C!Row,
           crs' = [crs EXCEPT ![c] = row],
           \/ /\ ~C!Stored(c)
              /\ row.status = "DRAFT" /\ row.l1 = NoUser /\ row.l2 = NoUser
           \/ C!Stored(c) /\ CrMove(crs[c], row)
    PROVE  CrShows
<1> DEFINE status == [x \in Crs |-> IF alone THEN crs[x].status ELSE "NONE"]
           owner  == [x \in Crs |-> IF alone /\ C!Stored(x) THEN crs[x].requester ELSE NoUser]
           first  == [x \in Crs |-> IF alone /\ C!Stored(x) THEN crs[x].l1 ELSE NoUser]
           second == [x \in Crs |-> IF alone /\ C!Stored(x) THEN crs[x].l2 ELSE NoUser]
<1>1. /\ crs'[c] = row
      /\ \A x \in Crs \ {c} : crs'[x] = crs[x]
      /\ row # C!NoRow
  BY CrRowIsThere DEF C!TypeOK
<1>2. \A x \in Crs : C!Stored(x)' <=> (x = c \/ C!Stored(x))
  BY <1>1 DEF C!Stored
<1>3. /\ status' = [status EXCEPT ![c] = row.status]
      /\ owner' = [owner EXCEPT ![c] = row.requester]
      /\ first' = [first EXCEPT ![c] = row.l1]
      /\ second' = [second EXCEPT ![c] = row.l2]
      /\ status[c] = row.status => status' = status
      /\ owner[c] = row.requester => owner' = owner
      /\ first[c] = row.l1 => first' = first
      /\ second[c] = row.l2 => second' = second
  <2>1. /\ status'[c] = row.status /\ owner'[c] = row.requester
        /\ first'[c] = row.l1 /\ second'[c] = row.l2
    BY <1>1, <1>2
  <2>2. \A x \in Crs \ {c} : /\ status'[x] = status[x] /\ owner'[x] = owner[x]
                            /\ first'[x] = first[x] /\ second'[x] = second[x]
    BY <1>1, <1>2
  <2>3. /\ status = [x \in Crs |-> status[x]] /\ status' = [x \in Crs |-> status'[x]]
        /\ owner = [x \in Crs |-> owner[x]] /\ owner' = [x \in Crs |-> owner'[x]]
        /\ first = [x \in Crs |-> first[x]] /\ first' = [x \in Crs |-> first'[x]]
        /\ second = [x \in Crs |-> second[x]] /\ second' = [x \in Crs |-> second'[x]]
    OBVIOUS
  <2> HIDE DEF status, owner, first, second
  <2> QED
    BY <2>1, <2>2, <2>3, Replaced
<1>4. CASE ~C!Stored(c) /\ row.status = "DRAFT" /\ row.l1 = NoUser /\ row.l2 = NoUser
  <2>1. /\ status[c] = "NONE" /\ owner[c] = NoUser /\ first[c] = NoUser /\ second[c] = NoUser
    BY <1>4 DEF C!Stored, C!NoRow
  <2>2. row.requester \in Editors
    BY DEF C!Row
  <2>3. first' = first /\ second' = second
    BY <1>3, <1>4, <2>1
  <2> HIDE DEF status, owner, first, second
  <2>4. C!Approval!Ask(c)
    BY <1>3, <1>4, <2>1, <2>2, <2>3 DEF C!Approval!Ask, status, owner, first, second
  <2> QED
    BY <2>4 DEF C!Approval!Next, CrShows
<1>5. CASE C!Stored(c) /\ CrMove(crs[c], row)
  <2>1. PICK q \in C!Row : q = crs[c]
    BY <1>5, CrRowIsThere
  <2>2. /\ status[c] = q.status /\ owner[c] = q.requester
        /\ first[c] = q.l1 /\ second[c] = q.l2
    BY <1>5, <2>1
  <2>3. /\ row.status = q.status => status' = status
        /\ row.requester = q.requester => owner' = owner
        /\ row.l1 = q.l1 => first' = first
        /\ row.l2 = q.l2 => second' = second
    BY <1>3, <2>2
  <2> HIDE DEF status, owner, first, second
  <2>4. ASSUME (\E cost \in Costs : row = C!Updated(q, cost)) \/ row = C!Deleted(q)
        PROVE  CrShows
    <3>1. /\ row.status = q.status /\ row.requester = q.requester
          /\ row.l1 = q.l1 /\ row.l2 = q.l2
      BY <2>4 DEF C!Updated, C!Deleted, C!Row
    <3>2. UNCHANGED C!Approval!vars
      BY <2>3, <3>1 DEF C!Approval!vars, status, owner, first, second
    <3> QED
      BY <3>2 DEF CrShows
  <2>5. CASE C!MaySubmit(q) /\ row = C!Submitted(q)
    <3>1. /\ row.status = "PENDING_L1" /\ row.requester = q.requester
          /\ row.l1 = q.l1 /\ row.l2 = q.l2
      BY <2>5 DEF C!Submitted, C!Row
    <3>2. C!Approval!Submit(c)
      BY <1>3, <2>2, <2>3, <2>5, <3>1
         DEF C!MaySubmit, C!Approval!Submit, status, owner, first, second
    <3> QED
      BY <3>2 DEF C!Approval!Next, CrShows
  <2>6. ASSUME NEW u \in Editors, C!MayApproveL1(q, u), row = C!ApprovedL1(q, u)
        PROVE  CrShows
    <3>1. /\ row.status = "PENDING_L2" /\ row.l1 = u
          /\ row.requester = q.requester /\ row.l2 = q.l2
      BY <2>6 DEF C!ApprovedL1, C!Row
    <3>2. q.status = "PENDING_L1" /\ u \in Editors \ {q.requester}
      BY <2>6 DEF C!MayApproveL1
    <3>3. C!Approval!ApproveFirst(c)
      BY <1>3, <2>2, <2>3, <3>1, <3>2 DEF C!Approval!ApproveFirst, status, owner, first, second
    <3> QED
      BY <3>3 DEF C!Approval!Next, CrShows
  <2>7. ASSUME NEW u \in Editors, C!MayApproveL2(q, u), row = C!ApprovedL2(q, u)
        PROVE  CrShows
    <3>1. /\ row.status = "APPROVED" /\ row.l2 = u
          /\ row.requester = q.requester /\ row.l1 = q.l1
      <4>1. PICK a, b : row = [q EXCEPT !.status = "APPROVED", !.l2 = u, !.toFinance = a, !.toSales = b]
        BY <2>7, Zenon DEF C!ApprovedL2
      <4> QED
        BY <4>1 DEF C!Row
    <3>2. q.status = "PENDING_L2" /\ u \in Editors \ {q.requester, q.l1}
      BY <2>7 DEF C!MayApproveL2
    <3>3. C!Approval!ApproveSecond(c)
      BY <1>3, <2>2, <2>3, <3>1, <3>2 DEF C!Approval!ApproveSecond, status, owner, first, second
    <3> QED
      BY <3>3 DEF C!Approval!Next, CrShows
  <2>8. ASSUME NEW u \in Editors, C!MayReject(q, u), row = C!Rejected(q)
        PROVE  CrShows
    <3>1. /\ row.status = "REJECTED" /\ row.requester = q.requester
          /\ row.l1 = q.l1 /\ row.l2 = q.l2
      BY <2>8 DEF C!Rejected, C!Row
    <3>2. C!Approval!Reject(c)
      BY <1>3, <2>2, <2>3, <2>8, <3>1 DEF C!MayReject, C!Approval!Reject, status, owner, first, second
    <3> QED
      BY <3>2 DEF C!Approval!Next, CrShows
  <2>9. ASSUME NEW u \in Editors, C!MayCancel(q, u), row = C!Cancelled(q)
        PROVE  CrShows
    <3>1. /\ row.status = "CANCELLED" /\ row.requester = q.requester
          /\ row.l1 = q.l1 /\ row.l2 = q.l2
      BY <2>9 DEF C!Cancelled, C!Row
    <3>2. C!Approval!Withdraw(c)
      BY <1>3, <2>2, <2>3, <2>9, <3>1 DEF C!MayCancel, C!Approval!Withdraw, status, owner, first, second
    <3> QED
      BY <3>2 DEF C!Approval!Next, CrShows
  <2> QED
    BY <1>5, <2>1, <2>4, <2>5, <2>6, <2>7, <2>8, <2>9 DEF CrMove
<1> QED
  BY <1>4, <1>5

LEMMA CrSame ==
    ASSUME UNCHANGED <<alone, crs>>
    PROVE  UNCHANGED C!Approval!vars
  BY DEF C!Approval!vars, C!Stored

CrGoal == InTurn /\ CrInv

LEMMA CrBegins ==
    ASSUME CrGoal, part = "change", part' = part, NEW s \in Sessions,
           NEW w, C!Begin(s, w), UNCHANGED crs, CrWork(w)
    PROVE  CrGoal' /\ CrShows
<1>1. Turns(s, w)
  BY DEF CrGoal, C!Begin, C!Go, C!Idle, Turns, Idle
<1>2. InTurn' /\ CrInv'
  BY <1>1, TurnKeeps, CrRuns DEF CrGoal
<1> QED
  BY <1>1, <1>2, CrSame DEF CrGoal, CrShows, Turns

LEMMA CrChange ==
    ASSUME CrGoal, part = "change", part' = part, NEW s \in Sessions, NEW c \in Crs,
           NEW n, C!Stored(c), CrMove(crs[c], n), C!Change(s, c, n)
    PROVE  CrGoal' /\ CrShows
<1>1. PICK q \in C!Row : q = crs[c]
  BY CrRowIsThere DEF CrGoal, CrInv
<1>2. n \in C!Row
  BY <1>1, CrMoves
<1> DEFINE w == [op |-> "edit", table |-> "crs", key |-> c, seen |-> q, new |-> n]
<1>3. CrEdits(w)
  BY <1>1, <1>2 DEF CrEdits
<1>4. C!Begin(s, w) /\ UNCHANGED crs
  BY <1>1 DEF C!Change, C!Edit
<1> QED
  BY <1>3, <1>4, CrBegins DEF CrWork

LEMMA CrCommit ==
    ASSUME CrGoal, part = "change", part' = part, NEW s \in Sessions, C!Commit(s)
    PROVE  CrGoal' /\ CrShows
<1>1. Turns(s, Idle)
  <2>1. sess[s].op # "idle"
    BY DEF C!Commit, C!Editing, C!Adding
  <2>2. sess[s] # Idle
    BY <2>1 DEF Idle
  <2> QED
    BY <2>2 DEF C!Commit, C!Finish, C!Go, C!Idle, Turns, Idle
<1>2. InTurn' /\ alone' = alone /\ alone \in BOOLEAN
  BY <1>1, TurnKeeps DEF CrGoal, InTurn, Turns
<1>3. PICK w : w = sess[s]
  OBVIOUS
<1>4. CrAdds(w) \/ CrEdits(w)
  <2>1. CrWork(w)
    BY <1>3 DEF CrGoal, CrInv
  <2> QED
    BY <1>1, <1>3, <2>1 DEF CrWork, C!Commit, C!Editing, C!Adding, Idle
<1>5. C!TypeOK
  BY DEF CrGoal, CrInv
<1>6. CASE CrEdits(w)
  <2>1. PICK c \in Crs, q \in C!Row, n \in C!Row :
          /\ w = [op |-> "edit", table |-> "crs", key |-> c, seen |-> q, new |-> n]
          /\ C!Stored(c) /\ CrMove(q, n)
          /\ alone => q = crs[c]
    BY <1>6 DEF CrEdits
  <2> DEFINE m == C!Merge(crs[c], q, n)
  <2>2. crs' = [crs EXCEPT ![c] = m]
    BY <1>3, <2>1 DEF C!Commit, C!Editing, C!Adding, C!Edited
  <2>3. crs[c] \in C!Row
    BY <1>5, <2>1, CrRowIsThere
  <2>4. m \in C!Row /\ (alone => m = n)
    BY <2>1, <2>3, CrMerge
  <2> HIDE DEF m
  <2>5. CASE ~alone
    <3>1. CrKept'
      BY <1>2, <2>5 DEF CrKept
    <3>2. CrInv'
      BY <1>1, <2>2, <2>4, <3>1, CrWritten DEF CrGoal
    <3>3. CrShows
      BY <1>2, <2>5 DEF C!Approval!vars, CrShows
    <3> QED
      BY <1>2, <3>2, <3>3 DEF CrGoal
  <2>6. CASE alone
    <3>1. /\ m = n /\ CrMove(crs[c], m) /\ m.project = crs[c].project /\ m.number = crs[c].number
          /\ CrSound(crs[c]) => CrSound(m)
      BY <2>1, <2>3, <2>4, <2>6, CrMoves
    <3>2. CrNumbered /\ \A x \in Crs : C!Stored(x) => CrSound(crs[x])
      BY <2>6 DEF CrGoal, CrInv, CrKept
    <3>3. CrNumbered'
      BY <1>5, <2>1, <2>2, <2>4, <3>1, <3>2, CrNumbers
    <3>4. CrSound(m)
      BY <2>1, <3>1, <3>2
    <3>5. (\A x \in Crs : C!Stored(x) => CrSound(crs[x]))'
      BY <1>5, <2>2, <2>4, <3>2, <3>4, CrSoundAfter
    <3>6. CrKept'
      BY <3>3, <3>5 DEF CrKept
    <3>7. CrInv'
      BY <1>1, <2>2, <2>4, <3>6, CrWritten DEF CrGoal
    <3>8. CrShows
      BY <1>2, <1>5, <2>1, <2>2, <2>4, <2>6, <3>1, CrShown
    <3> QED
      BY <1>2, <3>7, <3>8 DEF CrGoal
  <2> QED
    BY <1>2, <2>5, <2>6
<1>7. CASE CrAdds(w)
  <2>1. PICK p \in Projects, u \in Editors, cost \in Costs, k \in Nat :
          /\ w = [op |-> "add", table |-> "crs", new |-> CrNewRow(p, u, cost, k)]
          /\ alone => k = 1 + Cardinality(CrsOf(p))
    BY <1>7 DEF CrAdds
  <2> DEFINE row == CrNewRow(p, u, cost, k)
  <2>2. PICK c \in Crs : ~C!Stored(c) /\ crs' = [crs EXCEPT ![c] = row]
    BY <1>3, <2>1 DEF C!Commit, C!Editing, C!Adding
  <2>3. /\ row \in C!Row /\ CrSound(row) /\ row.project = p /\ row.number = k
        /\ row.status = "DRAFT" /\ row.l1 = NoUser /\ row.l2 = NoUser
    BY DEF CrNewRow, C!Row, C!Statuses, CrSound
  <2> HIDE DEF row
  <2>4. CASE ~alone
    <3>1. CrKept'
      BY <1>2, <2>4 DEF CrKept
    <3>2. CrInv'
      BY <1>1, <2>2, <2>3, <3>1, CrWritten DEF CrGoal
    <3>3. CrShows
      BY <1>2, <2>4 DEF C!Approval!vars, CrShows
    <3> QED
      BY <1>2, <3>2, <3>3 DEF CrGoal
  <2>5. CASE alone
    <3>1. CrNumbered /\ \A x \in Crs : C!Stored(x) => CrSound(crs[x])
      BY <2>5 DEF CrGoal, CrInv, CrKept
    <3>2. CrNumbered'
      BY <1>5, <2>1, <2>2, <2>3, <2>5, <3>1, CrNumbers
    <3>3. (\A x \in Crs : C!Stored(x) => CrSound(crs[x]))'
      BY <1>5, <2>2, <2>3, <3>1, CrSoundAfter
    <3>4. CrKept'
      BY <3>2, <3>3 DEF CrKept
    <3>5. CrInv'
      BY <1>1, <2>2, <2>3, <3>4, CrWritten DEF CrGoal
    <3>6. CrShows
      BY <1>2, <1>5, <2>2, <2>3, <2>5, CrShown
    <3> QED
      BY <1>2, <3>5, <3>6 DEF CrGoal
  <2> QED
    BY <1>2, <2>4, <2>5
<1> QED
  BY <1>4, <1>6, <1>7

\* The number a new change request is given.
LEMMA CrNext ==
    ASSUME C!TypeOK, NEW p \in Projects
    PROVE  C!NextNumber(p) = 1 + Cardinality(CrsOf(p)) /\ C!NextNumber(p) \in Nat
<1>1. C!NextNumber(p) = 1 + C!Cardinality(CrsOf(p))
  BY DEF C!NextNumber, CrsOf
<1>2. C!Cardinality(CrsOf(p)) = Cardinality(CrsOf(p))
  BY DEF C!Cardinality, Cardinality
<1>3. CrsOf(p) \subseteq Crs
  BY DEF CrsOf
<1>4. Cardinality(CrsOf(p)) \in Nat
  BY <1>3, FS_Subset, FS_CardinalityType, RequestsAssumption
<1> QED
  BY <1>1, <1>2, <1>4

LEMMA CrStep ==
    ASSUME CrGoal, part = "change", part' = part, NEW s \in Sessions, C!Step(s)
    PROVE  CrGoal' /\ CrShows
<1>1. ASSUME NEW p \in Projects, NEW u \in Editors, NEW cost \in Costs, C!Create(s, p, u, cost)
      PROVE  CrGoal' /\ CrShows
  <2> DEFINE w == [op |-> "add", table |-> "crs", new |-> C!NewRow(p, u, cost)]
  <2>1. C!Begin(s, w) /\ UNCHANGED crs
    BY <1>1 DEF C!Create, C!Add
  <2>2. PICK k \in Nat : k = C!NextNumber(p) /\ k = 1 + Cardinality(CrsOf(p))
    BY CrNext DEF CrGoal, CrInv
  <2>3. C!NewRow(p, u, cost) = CrNewRow(p, u, cost, k)
    BY <2>2 DEF C!NewRow, CrNewRow
  <2>4. CrWork(w)
    BY <2>2, <2>3 DEF CrWork, CrAdds
  <2> QED
    BY <2>1, <2>4, CrBegins
<1>2. ASSUME NEW c \in Crs, C!Exists(c),
             \/ \E cost \in Costs : C!Update(s, c, cost)
             \/ C!Submit(s, c) \/ C!Delete(s, c)
             \/ \E u \in Editors : \/ C!ApproveL1(s, c, u) \/ C!ApproveL2(s, c, u)
                                   \/ C!Reject(s, c, u) \/ C!Cancel(s, c, u)
      PROVE  CrGoal' /\ CrShows
  <2>1. \E n : CrMove(crs[c], n) /\ C!Change(s, c, n)
    BY <1>2 DEF C!Update, C!Submit, C!Delete, C!ApproveL1, C!ApproveL2, C!Reject, C!Cancel, CrMove
  <2>2. C!Stored(c)
    BY <1>2 DEF C!Exists
  <2> QED
    BY <2>1, <2>2, CrChange
<1>3. CASE C!Commit(s)
  BY <1>3, CrCommit
<1>4. CASE C!Abort(s) /\ UNCHANGED crs
  <2>1. Turns(s, Idle)
    BY <1>4 DEF C!Abort, C!Finish, C!Go, C!Idle, Turns, Idle
  <2>2. CrWork(Idle)
    BY DEF CrWork
  <2>3. InTurn' /\ CrInv'
    BY <1>4, <2>1, <2>2, TurnKeeps, CrRuns DEF CrGoal
  <2> QED
    BY <1>4, <2>1, <2>3, CrSame DEF CrGoal, CrShows, Turns
<1> QED
  BY <1>1, <1>2, <1>3, <1>4 DEF C!Step

-----------------------------------------------------------------------------
\* The holiday allowance.  First, what the arithmetic yields.
LEMMA Products == \A a, b \in Int : a * b \in Int /\ (a >= 0 /\ b >= 0 => a * b >= 0)
  OBVIOUS

LEMMA RoundedType ==
    ASSUME NEW n \in Nat, NEW d \in Nat, d > 0
    PROVE  T!Rounded(n, d) \in Nat
<1>1. \A a, b \in Nat : b > 0 => a \div b \in Nat
  OBVIOUS
<1>2. 2 * n + d \in Nat /\ 2 * d \in Nat /\ 2 * d > 0
  OBVIOUS
<1> QED
  BY <1>1, <1>2 DEF T!Rounded

LEMMA MonthsWorkedType ==
    ASSUME NEW joined \in Date, NEW ref \in Date
    PROVE  T!MonthsWorked(joined, ref) \in Nat
<1>1. /\ joined.y \in Int /\ joined.m \in Int /\ joined.d \in Int
      /\ ref.y \in Int /\ ref.m \in Int /\ ref.d \in Int
  BY DEF Date
<1> DEFINE months == 12 * (ref.y - joined.y) + ref.m - joined.m
           days   == ref.d - joined.d
           len    == T!DaysIn(ref)
           total  == months * len + days
<1>2. len \in Nat /\ len > 0
  BY DEF T!DaysIn
<1>3. months \in Int /\ days \in Int
  BY <1>1
<1> HIDE DEF months, days, len
<1>4. months * len \in Int
  BY <1>2, <1>3, Products
<1>5. total \in Int
  BY <1>3, <1>4
<1> HIDE DEF total
<1>6. total > 0 => T!Rounded(100 * total, len) \in Nat
  BY <1>2, <1>5, RoundedType
<1>7. T!MonthsWorked(joined, ref) =
        IF T!Before(ref, joined) \/ total <= 0 THEN 0 ELSE T!Rounded(100 * total, len)
  BY DEF T!MonthsWorked, total, months, days, len
<1> QED
  BY <1>5, <1>6, <1>7

LEMMA AmountType ==
    ASSUME NEW base \in Nat, NEW months \in Nat
    PROVE  T!Amount(base, months) \in Nat
<1> DEFINE counted == IF months > 1200 THEN 1200 ELSE months
<1>1. counted \in Nat /\ base * 100 \in Nat
  OBVIOUS
<1>2. base * 100 * counted \in Nat
  BY <1>1, Products
<1> QED
  BY <1>2, RoundedType DEF T!Amount

LEMMA NewThrType ==
    ASSUME NEW e \in Eligible, NEW ref \in References
    PROVE  T!NewRow(e, ref) \in T!Row
<1> DEFINE base   == SalaryAt[e][ref]
           months == T!MonthsWorked(Joined[e], ref)
<1>1. base \in Nat
  BY CalendarAssumption
<1>2. Joined[e] \in Date /\ ref \in Date
  BY CalendarAssumption
<1>3. months \in Nat
  BY <1>2, MonthsWorkedType
<1> HIDE DEF base, months
<1>4. T!Amount(base, months) \in Nat
  BY <1>1, <1>3, AmountType
<1> HIDE DEF base, months
<1>5. T!NewRow(e, ref) = [status |-> "GENERATED", base |-> base, months |-> months,
                         amount |-> T!Amount(base, months), ref |-> ref]
  BY DEF T!NewRow, base, months
<1> QED
  BY <1>1, <1>3, <1>4, <1>5 DEF T!Row

\* What a handler will write: a bulk generation holds the rows of its year, a
\* payment one row.  Alone, what it holds is what is stored.
Stored(x) == x # T!NoRow
ThrGenerates(w) ==
    \E y \in Years : \E seen, new \in [Eligible -> T!Row \cup {T!NoRow}] :
        /\ w = [op |-> "generate", year |-> y, seen |-> seen, new |-> new]
        /\ \A e \in Eligible : Stored(seen[e]) => Stored(new[e]) /\ Stored(thr[<<e, y>>])
        /\ alone => \A e \in Eligible :
              seen[e] = thr[<<e, y>>] /\ (seen[e].status = "PAID" => new[e] = seen[e])
ThrPays(w) ==
    \E k \in T!Keys : \E q, n \in T!Row :
        /\ w = [op |-> "edit", table |-> "thr", key |-> k, seen |-> q, new |-> n]
        /\ Stored(thr[k])
        /\ alone => q = thr[k] /\ q.status = "GENERATED"
ThrWork(w) == w = Idle \/ ThrGenerates(w) \/ ThrPays(w)
ThrInv ==
    /\ T!TypeOK
    /\ part = "thr" => \A s \in Sessions : ThrWork(sess[s])
ThrGoal == InTurn /\ ThrInv
PaidKept == alone => \A k \in T!Keys : thr[k].status = "PAID" => thr'[k] = thr[k]

LEMMA ThrRowIsThere ==
    /\ T!NoRow \notin T!Row
    /\ \A x \in T!Row \cup {T!NoRow} : Stored(x) <=> x \in T!Row
  BY DEF Stored, T!NoRow, T!Row

LEMMA ThrMerge ==
    ASSUME NEW now \in T!Row, NEW q \in T!Row, NEW n \in T!Row
    PROVE  /\ T!Merge(now, q, n) \in T!Row
           /\ now = q => T!Merge(now, q, n) = n
<1> DEFINE m == T!Merge(now, q, n)
<1>1. DOMAIN now = {"status", "base", "months", "amount", "ref"} /\ DOMAIN n = DOMAIN now
  BY DEF T!Row
<1>2. m = [status |-> IF n.status = q.status THEN now.status ELSE n.status,
           base   |-> IF n.base = q.base THEN now.base ELSE n.base,
           months |-> IF n.months = q.months THEN now.months ELSE n.months,
           amount |-> IF n.amount = q.amount THEN now.amount ELSE n.amount,
           ref    |-> IF n.ref = q.ref THEN now.ref ELSE n.ref]
  BY <1>1 DEF T!Merge
<1> HIDE DEF m
<1>3. m \in T!Row
  BY <1>2 DEF T!Row
<1>4. now = q => m = n
  BY <1>2 DEF T!Row
<1> QED
  BY <1>3, <1>4 DEF m

LEMMA ThrRuns ==
    ASSUME InTurn, ThrInv, part = "thr", NEW s \in Sessions, NEW w, Turns(s, w),
           UNCHANGED <<part, thr>>, ThrWork(w)
    PROVE  ThrInv' /\ PaidKept
<1>1. T!TypeOK' /\ PaidKept
  BY DEF ThrInv, T!TypeOK, PaidKept
<1>2. ASSUME NEW t \in Sessions PROVE ThrWork(sess[t])'
  <2>1. PICK v : v = sess'[t]
    OBVIOUS
  <2>2. ThrWork(v)
    BY <2>1, TurnKeeps DEF ThrInv
  <2>3. ThrWork(v)'
    BY <2>2 DEF ThrWork, ThrGenerates, ThrPays, Turns
  <2> QED
    BY <2>1, <2>3
<1> QED
  BY <1>1, <1>2 DEF ThrInv

LEMMA ThrWritten ==
    ASSUME InTurn, ThrInv, part = "thr", NEW s \in Sessions, Turns(s, Idle),
           part' = part, thr' \in [T!Keys -> T!Row \cup {T!NoRow}],
           \A k \in T!Keys : Stored(thr[k]) => Stored(thr'[k])
    PROVE  ThrInv'
<1>1. T!TypeOK'
  BY DEF T!TypeOK
<1>2. ASSUME NEW t \in Sessions PROVE ThrWork(sess[t])'
  <2>1. PICK v : v = sess'[t]
    OBVIOUS
  <2>2. v = Idle \/ (ThrWork(v) /\ ~alone)
    BY <2>1, TurnKeeps DEF ThrInv, InTurn
  <2>3. ~alone => ~alone'
    BY DEF Turns
  <2>4. ~alone /\ ThrGenerates(v) => ThrGenerates(v)'
    <3>1. \A e \in Eligible, y \in Years : <<e, y>> \in T!Keys
      BY DEF T!Keys
    <3> QED
      BY <2>3, <3>1 DEF ThrGenerates
  <2>5. ~alone /\ ThrPays(v) => ThrPays(v)'
    BY <2>3 DEF ThrPays
  <2>6. ThrWork(v)'
    BY <2>2, <2>4, <2>5 DEF ThrWork
  <2> QED
    BY <2>1, <2>6
<1> QED
  BY <1>1, <1>2 DEF ThrInv

LEMMA ThrGenerateCommit ==
    ASSUME ThrGoal, part = "thr", part' = part, NEW s \in Sessions, T!GenerateCommit(s)
    PROVE  ThrGoal' /\ PaidKept
<1>1. Turns(s, Idle)
  <2>1. sess[s] # Idle
    BY DEF T!GenerateCommit, Idle
  <2> QED
    BY <2>1 DEF T!GenerateCommit, T!Finish, T!Go, T!Idle, Turns, Idle
<1>2. InTurn' /\ alone' = alone /\ alone \in BOOLEAN
  BY <1>1, TurnKeeps DEF ThrGoal, InTurn, Turns
<1>3. PICK w : w = sess[s]
  OBVIOUS
<1>4. ThrGenerates(w)
  <2>1. ThrWork(w)
    BY <1>3 DEF ThrGoal, ThrInv
  <2>2. w.op = "generate"
    BY <1>3 DEF T!GenerateCommit
  <2> QED
    BY <2>1, <2>2 DEF ThrWork, ThrPays, Idle
<1>5. PICK y \in Years, seen \in [Eligible -> T!Row \cup {T!NoRow}],
           new \in [Eligible -> T!Row \cup {T!NoRow}] :
        /\ w = [op |-> "generate", year |-> y, seen |-> seen, new |-> new]
        /\ \A e \in Eligible : Stored(seen[e]) => Stored(new[e]) /\ Stored(thr[<<e, y>>])
        /\ alone => \A e \in Eligible :
              seen[e] = thr[<<e, y>>] /\ (seen[e].status = "PAID" => new[e] = seen[e])
  BY <1>4 DEF ThrGenerates
<1> DEFINE Inserted == {e \in Eligible : seen[e] = T!NoRow /\ new[e] # T!NoRow}
           clash == \E e \in Inserted : thr[<<e, y>>] # T!NoRow
           Result(e) == IF e \in Inserted THEN new[e]
                        ELSE IF seen[e] = T!NoRow THEN thr[<<e, y>>]
                        ELSE T!Merge(thr[<<e, y>>], seen[e], new[e])
<1>6. T!Inserted(s) = Inserted
  BY <1>3, <1>5 DEF T!Inserted
<1>7. thr' = IF clash THEN thr
             ELSE [k \in T!Keys |-> IF k[2] = y THEN Result(k[1]) ELSE thr[k]]
  BY <1>3, <1>5, <1>6 DEF T!GenerateCommit
<1>8. thr \in [T!Keys -> T!Row \cup {T!NoRow}]
  BY DEF ThrGoal, ThrInv, T!TypeOK
<1>9. ASSUME NEW e \in Eligible
      PROVE  /\ Result(e) \in T!Row \cup {T!NoRow}
             /\ Stored(thr[<<e, y>>]) /\ ~clash => Stored(Result(e))
             /\ alone /\ thr[<<e, y>>].status = "PAID" => Result(e) = thr[<<e, y>>]
  <2>1. <<e, y>> \in T!Keys
    BY DEF T!Keys
  <2>2. thr[<<e, y>>] \in T!Row \cup {T!NoRow} /\ seen[e] \in T!Row \cup {T!NoRow}
        /\ new[e] \in T!Row \cup {T!NoRow}
    BY <1>8, <2>1
  <2>3. CASE e \in Inserted
    <3>1. Result(e) = new[e] /\ Stored(new[e]) /\ seen[e] = T!NoRow
      BY <2>3 DEF Stored
    <3>2. alone => thr[<<e, y>>].status # "PAID"
      BY <1>5, <3>1 DEF T!NoRow
    <3> QED
      BY <2>2, <3>1, <3>2
  <2>4. CASE e \notin Inserted /\ seen[e] = T!NoRow
    BY <2>2, <2>4
  <2>5. CASE e \notin Inserted /\ seen[e] # T!NoRow
    <3>1. Result(e) = T!Merge(thr[<<e, y>>], seen[e], new[e])
      BY <2>5
    <3>2. thr[<<e, y>>] \in T!Row /\ seen[e] \in T!Row /\ new[e] \in T!Row
      BY <1>5, <2>2, <2>5, ThrRowIsThere DEF Stored
    <3>3. /\ Result(e) \in T!Row
          /\ thr[<<e, y>>] = seen[e] => Result(e) = new[e]
      BY <3>1, <3>2, ThrMerge
    <3> HIDE DEF Result
    <3> QED
      BY <1>5, <3>2, <3>3, ThrRowIsThere
  <2> QED
    BY <2>3, <2>4, <2>5
<1> HIDE DEF Result, clash
<1>10. \A k \in T!Keys : k[1] \in Eligible /\ k[2] \in Years /\ k = <<k[1], k[2]>>
  BY DEF T!Keys
<1>11. thr' \in [T!Keys -> T!Row \cup {T!NoRow}]
  BY <1>7, <1>8, <1>9, <1>10
<1>12. \A k \in T!Keys : Stored(thr[k]) => Stored(thr'[k])
  BY <1>7, <1>8, <1>9, <1>10
<1>13. PaidKept
  BY <1>7, <1>8, <1>9, <1>10 DEF PaidKept
<1>14. ThrInv'
  BY <1>1, <1>11, <1>12, ThrWritten DEF ThrGoal
<1> QED
  BY <1>2, <1>13, <1>14 DEF ThrGoal

LEMMA ThrPaidCommit ==
    ASSUME ThrGoal, part = "thr", part' = part, NEW s \in Sessions, T!MarkPaidCommit(s)
    PROVE  ThrGoal' /\ PaidKept
<1>1. Turns(s, Idle)
  <2>1. sess[s] # Idle
    BY DEF T!MarkPaidCommit, T!Editing, Idle
  <2> QED
    BY <2>1 DEF T!MarkPaidCommit, T!Finish, T!Go, T!Idle, Turns, Idle
<1>2. InTurn' /\ alone' = alone /\ alone \in BOOLEAN
  BY <1>1, TurnKeeps DEF ThrGoal, InTurn, Turns
<1>3. PICK w : w = sess[s]
  OBVIOUS
<1>4. ThrPays(w)
  <2>1. ThrWork(w)
    BY <1>3 DEF ThrGoal, ThrInv
  <2>2. w.op = "edit"
    BY <1>3 DEF T!MarkPaidCommit, T!Editing
  <2> QED
    BY <2>1, <2>2 DEF ThrWork, ThrGenerates, Idle
<1>5. PICK k \in T!Keys, q \in T!Row, n \in T!Row :
        /\ w = [op |-> "edit", table |-> "thr", key |-> k, seen |-> q, new |-> n]
        /\ Stored(thr[k])
        /\ alone => q = thr[k] /\ q.status = "GENERATED"
  BY <1>4 DEF ThrPays
<1> DEFINE m == T!Merge(thr[k], q, n)
<1>6. thr' = [thr EXCEPT ![k] = m]
  BY <1>3, <1>5 DEF T!MarkPaidCommit, T!Edited
<1>7. thr \in [T!Keys -> T!Row \cup {T!NoRow}]
  BY DEF ThrGoal, ThrInv, T!TypeOK
<1>8. m \in T!Row
  BY <1>5, <1>7, ThrMerge, ThrRowIsThere
<1> HIDE DEF m
<1>9. thr' \in [T!Keys -> T!Row \cup {T!NoRow}]
  BY <1>6, <1>7, <1>8
<1>10. \A x \in T!Keys : Stored(thr[x]) => Stored(thr'[x])
  BY <1>6, <1>7, <1>8, ThrRowIsThere
<1>11. PaidKept
  BY <1>5, <1>6, <1>7 DEF PaidKept
<1>12. ThrInv'
  BY <1>1, <1>9, <1>10, ThrWritten DEF ThrGoal
<1> QED
  BY <1>2, <1>11, <1>12 DEF ThrGoal

LEMMA ThrBegins ==
    ASSUME ThrGoal, part = "thr", part' = part, NEW s \in Sessions,
           NEW w, T!Begin(s, w), UNCHANGED thr, ThrWork(w)
    PROVE  ThrGoal' /\ PaidKept
<1>1. Turns(s, w)
  BY DEF ThrGoal, T!Begin, T!Go, T!Idle, Turns, Idle
<1> QED
  BY <1>1, TurnKeeps, ThrRuns DEF ThrGoal

LEMMA ThrStep ==
    ASSUME ThrGoal, part = "thr", part' = part, NEW s \in Sessions, T!Step(s)
    PROVE  ThrGoal' /\ PaidKept
<1>1. thr \in [T!Keys -> T!Row \cup {T!NoRow}]
  BY DEF ThrGoal, ThrInv, T!TypeOK
<1>2. ASSUME NEW y \in Years, NEW ref \in References, NEW o \in BOOLEAN, T!Generate(s, y, ref, o)
      PROVE  ThrGoal' /\ PaidKept
  <2> DEFINE rows == [e \in Eligible |-> thr[<<e, y>>]]
             new  == [e \in Eligible |-> T!Generated(rows[e], e, ref, o)]
             w    == [op |-> "generate", year |-> y, seen |-> rows, new |-> new]
  <2>1. T!Begin(s, w) /\ UNCHANGED thr
    BY <1>2 DEF T!Generate
  <2>2. \A e \in Eligible : rows[e] = thr[<<e, y>>] /\ rows[e] \in T!Row \cup {T!NoRow}
    BY <1>1 DEF T!Keys
  <2>3. ASSUME NEW e \in Eligible
        PROVE  /\ new[e] \in T!Row \cup {T!NoRow}
               /\ Stored(rows[e]) => Stored(new[e])
               /\ rows[e].status = "PAID" => new[e] = rows[e]
    <3>1. new[e] = T!Generated(rows[e], e, ref, o)
      OBVIOUS
    <3>2. T!NewRow(e, ref) \in T!Row
      BY NewThrType
    <3> HIDE DEF rows, new
    <3> QED
      BY <2>2, <3>1, <3>2, ThrRowIsThere DEF T!Generated
  <2>4. rows \in [Eligible -> T!Row \cup {T!NoRow}] /\ new \in [Eligible -> T!Row \cup {T!NoRow}]
    BY <2>2, <2>3
  <2> HIDE DEF rows, new
  <2>5. ThrGenerates(w)
    BY <2>2, <2>3, <2>4 DEF ThrGenerates
  <2> QED
    BY <2>1, <2>5, ThrBegins DEF ThrWork
<1>3. CASE T!GenerateCommit(s)
  BY <1>3, ThrGenerateCommit
<1>4. ASSUME NEW k \in T!Keys, T!MarkPaid(s, k)
      PROVE  ThrGoal' /\ PaidKept
  <2>1. PICK q \in T!Row : q = thr[k] /\ q.status = "GENERATED" /\ Stored(q)
    BY <1>1, <1>4, ThrRowIsThere DEF T!MarkPaid, T!NoRow
  <2>2. PICK n \in T!Row : n = [q EXCEPT !.status = "PAID"]
    BY DEF T!Row
  <2> DEFINE w == [op |-> "edit", table |-> "thr", key |-> k, seen |-> q, new |-> n]
  <2>3. T!Begin(s, w) /\ UNCHANGED thr
    BY <1>4, <2>1, <2>2 DEF T!MarkPaid, T!Edit
  <2>4. ThrPays(w)
    BY <2>1, <2>2 DEF ThrPays
  <2> QED
    BY <2>3, <2>4, ThrBegins DEF ThrWork
<1>5. CASE T!MarkPaidCommit(s)
  BY <1>5, ThrPaidCommit
<1>6. CASE T!Abort(s) /\ UNCHANGED thr
  <2>1. Turns(s, Idle)
    BY <1>6 DEF T!Abort, T!Finish, T!Go, T!Idle, Turns, Idle
  <2>2. ThrWork(Idle)
    BY DEF ThrWork
  <2> QED
    BY <1>6, <2>1, <2>2, TurnKeeps, ThrRuns DEF ThrGoal
<1> QED
  BY <1>2, <1>3, <1>4, <1>5, <1>6 DEF T!Step

-----------------------------------------------------------------------------
\* Salaries.  First, rounding: it keeps the order, and whole numbers.
LEMMA DivMod ==
    ASSUME NEW n \in Nat, NEW d \in Nat, d > 0
    PROVE  /\ n \div d \in Nat /\ n % d \in Nat /\ n % d < d
           /\ n = d * (n \div d) + (n % d)
<1>1. n \div d \in Nat
  OBVIOUS
<1>2. n % d \in Nat /\ n % d < d
  OBVIOUS
<1>3. n = d * (n \div d) + (n % d)
  OBVIOUS
<1> QED
  BY <1>1, <1>2, <1>3

LEMMA DivModUnique ==
    ASSUME NEW d \in Nat, NEW q \in Int, NEW r \in Int, NEW p \in Int, NEW s \in Int,
           d * q + r <= d * p + s, 0 <= r, r < d, 0 <= s, s < d
    PROVE  q <= p /\ (q = p => r <= s)
<1>1. CASE q <= p
  <2>1. q = p => d * q = d * p
    OBVIOUS
  <2>2. d * q \in Int /\ d * p \in Int
    BY Products
  <2> QED
    BY <1>1, <2>1, <2>2
<1>2. CASE q > p
  <2>1. PICK k \in Nat : q = p + 1 + k
    <3>1. q - p - 1 \in Nat /\ q = p + 1 + (q - p - 1)
      BY <1>2
    <3> QED
      BY <3>1
  <2>2. d * q = d * p + d + d * k
    BY <2>1
  <2>3. d * k >= 0 /\ d * k \in Int /\ d * q \in Int /\ d * p \in Int
    BY Products
  <2> QED
    BY <2>2, <2>3
<1> QED
  BY <1>1, <1>2

LEMMA NearestMonotone ==
    ASSUME NEW n \in Nat, NEW k \in Nat, n <= k, NEW d \in Nat, d > 0
    PROVE  Y!Nearest(n, d) \in Nat /\ Y!Nearest(k, d) \in Nat /\ Y!Nearest(n, d) <= Y!Nearest(k, d)
<1> DEFINE q == n \div d
           r == n % d
           p == k \div d
           s == k % d
<1>1. /\ q \in Nat /\ r \in Nat /\ r < d /\ n = d * q + r
      /\ p \in Nat /\ s \in Nat /\ s < d /\ k = d * p + s
  BY DivMod
<1>2. /\ Y!Nearest(n, d) = IF 2 * r < d \/ (2 * r = d /\ q % 2 = 0) THEN q ELSE q + 1
      /\ Y!Nearest(k, d) = IF 2 * s < d \/ (2 * s = d /\ p % 2 = 0) THEN p ELSE p + 1
  BY DEF Y!Nearest
<1> HIDE DEF q, r, p, s
<1>3. q <= p /\ (q = p => r <= s)
  BY <1>1, DivModUnique
<1>4. CASE q = p
  BY <1>1, <1>2, <1>3, <1>4
<1>5. CASE q < p
  BY <1>1, <1>2, <1>5
<1> QED
  BY <1>1, <1>3, <1>4, <1>5

LEMMA NearestExact ==
    ASSUME NEW a \in Nat, NEW d \in Nat, d > 0
    PROVE  Y!Nearest(a * d, d) = a
<1>0. a * d \in Nat
  BY Products
<1> DEFINE q == (a * d) \div d
           r == (a * d) % d
<1>1. q \in Nat /\ r \in Nat /\ r < d /\ a * d = d * q + r
  BY <1>0, DivMod
<1>2. Y!Nearest(a * d, d) = IF 2 * r < d \/ (2 * r = d /\ q % 2 = 0) THEN q ELSE q + 1
  BY DEF Y!Nearest
<1> HIDE DEF q, r
<1>3. a * d = d * a + 0
  OBVIOUS
<1>4. d * q + r = d * a + 0
  BY <1>1, <1>3
<1>5. d * q + r <= d * a + 0 /\ d * a + 0 <= d * q + r
  <2>1. d * q + r \in Int
    BY <1>1, Products
  <2> QED
    BY <1>4, <2>1
<1>6. q <= a /\ a <= q /\ (q = a => r <= 0)
  BY <1>1, <1>5, DivModUnique
<1> QED
  BY <1>1, <1>2, <1>6

LEMMA TimesGrows ==
    ASSUME NEW a \in Nat, NEW n \in Nat, NEW k \in Nat, n <= k
    PROVE  a * n <= a * k
<1>1. PICK i \in Nat : k = n + i
  <2>1. k - n \in Nat /\ k = n + (k - n)
    OBVIOUS
  <2> QED
    BY <2>1
<1>2. a * k = a * n + a * i
  BY <1>1
<1>3. a * i >= 0 /\ a * n \in Int /\ a * i \in Int
  BY Products
<1> QED
  BY <1>2, <1>3

LEMMA MonthHasDays ==
    /\ Y!InMonth \in Nat /\ Y!InMonth > 0 /\ LastDay \in 1 .. LastDay
    /\ \A until : Y!Worked(until) \in 0 .. Y!InMonth
<1>1. IsFiniteSet(WorkingDays) /\ Cardinality(WorkingDays) \in Nat
  <2>1. IsFiniteSet(1 .. LastDay)
    BY CalendarAssumption, FS_Interval
  <2>2. IsFiniteSet(WorkingDays)
    BY <2>1, CalendarAssumption, FS_Subset
  <2> QED
    BY <2>2, FS_CardinalityType
<1>2. Cardinality(WorkingDays) > 0
  BY <1>1, FS_EmptySet, CalendarAssumption
<1>3. Y!InMonth = Cardinality(WorkingDays)
  BY DEF Y!InMonth, Y!Cardinality, Cardinality
<1>4. LastDay \in 1 .. LastDay
  <2>1. PICK d : d \in 1 .. LastDay
    BY CalendarAssumption
  <2> QED
    BY <2>1, CalendarAssumption
<1>5. ASSUME NEW until PROVE Y!Worked(until) \in 0 .. Y!InMonth
  <2> DEFINE days == {d \in WorkingDays : d <= until}
  <2>1. Cardinality(days) \in Nat /\ Cardinality(days) <= Cardinality(WorkingDays)
    <3>1. days \subseteq WorkingDays
      OBVIOUS
    <3> HIDE DEF days
    <3> QED
      BY <1>1, <3>1, FS_Subset, FS_CardinalityType
  <2>2. Y!Worked(until) = Cardinality(days)
    BY DEF Y!Worked, Y!Cardinality, Cardinality
  <2> QED
    BY <1>1, <1>3, <2>1, <2>2
<1> QED
  BY <1>1, <1>2, <1>3, <1>4, <1>5

\* What is paid for some of the days is no more than for more of them, or than
\* the whole.
LEMMA PartGrows ==
    ASSUME NEW amount \in Nat, NEW days \in Nat, NEW more \in Nat, days <= more
    PROVE  /\ Y!Part(amount, days) \in Nat /\ Y!Part(amount, more) \in Nat
           /\ Y!Part(amount, days) <= Y!Part(amount, more)
           /\ Y!Part(amount, days) <= amount /\ Y!Part(amount, more) <= amount
<1>1. Y!InMonth \in Nat /\ Y!InMonth > 0
  BY MonthHasDays
<1>2. ASSUME NEW n \in Nat, n <= Y!InMonth
      PROVE  /\ Y!Nearest(amount * n, Y!InMonth) \in Nat
             /\ Y!Nearest(amount * n, Y!InMonth) <= amount
  <2>1. amount * n \in Nat /\ amount * Y!InMonth \in Nat
    BY <1>1, Products
  <2>2. amount * n <= amount * Y!InMonth
    BY <1>1, <1>2, TimesGrows
  <2>3. PICK a \in Nat, b \in Nat : a = amount * n /\ b = amount * Y!InMonth /\ a <= b
    BY <2>1, <2>2
  <2>4. Y!Nearest(b, Y!InMonth) = amount
    BY <1>1, <2>3, NearestExact
  <2>5. Y!Nearest(a, Y!InMonth) \in Nat /\ Y!Nearest(a, Y!InMonth) <= Y!Nearest(b, Y!InMonth)
    BY <1>1, <2>3, NearestMonotone
  <2> QED
    BY <2>3, <2>4, <2>5
<1>3. more <= Y!InMonth => Y!Nearest(amount * days, Y!InMonth) <= Y!Nearest(amount * more, Y!InMonth)
  <2>1. amount * days \in Nat /\ amount * more \in Nat
    BY Products
  <2>2. amount * days <= amount * more
    BY TimesGrows
  <2> QED
    BY <1>1, <2>1, <2>2, NearestMonotone
<1> QED
  BY <1>1, <1>2, <1>3 DEF Y!Part

LEMMA SalaryAmounts ==
    ASSUME NEW rate \in Pays
    PROVE  /\ rate.basic \in Nat /\ rate.allowance \in Nat
           /\ Y!Contributions(rate) \in Nat
           /\ \A hours \in Overtimes : Y!Overtime(rate, hours) \in Nat
<1>1. rate.basic \in Nat /\ rate.allowance \in Nat /\ rate.health \in Nat /\ rate.jht \in Nat
  BY CalendarAssumption
<1>2. rate.basic * rate.health \in Nat /\ rate.basic * rate.jht \in Nat
  BY <1>1, Products
<1>3. Y!Contributions(rate) \in Nat
  BY <1>2, NearestMonotone DEF Y!Contributions
<1>4. ASSUME NEW hours \in Overtimes PROVE Y!Overtime(rate, hours) \in Nat
  <2>1. PICK thrice \in Nat : thrice = 3 * hours
    BY CalendarAssumption
  <2>3. 3 * hours * rate.basic = thrice * rate.basic /\ thrice * rate.basic \in Nat
    <3>1. thrice * rate.basic \in Nat
      BY <1>1, Products
    <3> QED
      BY <2>1, <3>1
  <2>2. 16 * Y!InMonth \in Nat /\ 16 * Y!InMonth > 0
    BY MonthHasDays
  <2> QED
    BY <2>2, <2>3, NearestMonotone DEF Y!Overtime
<1> QED
  BY <1>1, <1>3, <1>4

LEMMA SalaryTotals ==
    ASSUME NEW rate \in Pays, NEW att \in Y!Attendances, NEW until
    PROVE  /\ Y!Calculated(rate, att) \in Y!Amounts
           /\ Y!Generated(rate) \in Y!Amounts
           /\ Y!Final(rate, until) \in Y!Amounts
<1>1. /\ rate.basic \in Nat /\ rate.allowance \in Nat /\ Y!Contributions(rate) \in Nat
      /\ Y!Overtime(rate, att.overtime) \in Nat
  BY SalaryAmounts DEF Y!Attendances
<1>2. att.paid \in Nat /\ Y!Worked(until) \in Nat
  BY MonthHasDays DEF Y!Attendances
<1>3. /\ Y!Part(rate.basic, att.paid) \in Nat
      /\ Y!Part(rate.basic, Y!Worked(until)) \in Nat
      /\ Y!Part(rate.allowance, Y!Worked(until)) \in Nat
  <2>1. ASSUME NEW amount \in Nat, NEW days \in Nat PROVE Y!Part(amount, days) \in Nat
    BY PartGrows
  <2>2. Y!Part(rate.basic, att.paid) \in Nat
    BY <1>1, <1>2, <2>1
  <2>3. Y!Part(rate.basic, Y!Worked(until)) \in Nat
    BY <1>1, <1>2, <2>1
  <2>4. Y!Part(rate.allowance, Y!Worked(until)) \in Nat
    BY <1>1, <1>2, <2>1
  <2> QED
    BY <2>2, <2>3, <2>4
<1>4. ASSUME NEW gross \in Nat PROVE Y!Total(rate, gross) \in Y!Amounts
  BY <1>1 DEF Y!Total, Y!Amounts
<1> QED
  BY <1>1, <1>3, <1>4 DEF Y!Calculated, Y!Generated, Y!Final

\* What each operation has stored.
SlipMade(m) ==
    \/ m.by = "calculate" /\ m.total = Y!Calculated(m.pay, m.att) /\ m.total.net >= 0
    \/ m.by = "generate" /\ m.total = Y!Generated(m.pay)
FinalMade(m) ==
    /\ m.by = "final" /\ m.att.paid = Y!Worked(m.until)
    /\ m.total = Y!Final(m.pay, m.until) /\ m.total.net >= 0
SalaryInv ==
    /\ Y!TypeOK
    /\ slip # Y!NoRow => SlipMade(slip)
    /\ leaving # Y!NoRow => FinalMade(leaving)

LEMMA SalaryStep ==
    ASSUME SalaryInv, Y!Next
    PROVE  SalaryInv'
<1> USE DEF SalaryInv, Y!TypeOK
<1>1. ASSUME NEW d \in Dates, Y!Pass(d) PROVE SalaryInv'
  BY <1>1 DEF Y!Pass
<1>2. ASSUME NEW c \in Configs, NEW row \in Y!Row, Y!UpsertConfig(c, row) \/ Y!UpdateConfig(c, row)
      PROVE  SalaryInv'
  BY <1>2 DEF Y!UpsertConfig, Y!UpdateConfig
<1>3. ASSUME NEW att \in Y!Attendances, Y!EnterAttendance(att) PROVE SalaryInv'
  BY <1>3 DEF Y!EnterAttendance
<1>4. ASSUME NEW row \in Y!Row, Y!Calculate(row) PROVE SalaryInv'
  <2>1. row.pay \in Pays /\ attendance \in Y!Attendances
    BY <1>4 DEF Y!Row, Y!Calculate
  <2>2. PICK total \in Y!Amounts : total = Y!Calculated(row.pay, attendance)
    BY <2>1, SalaryTotals
  <2>3. slip' = [by |-> "calculate", pay |-> row.pay, att |-> attendance, until |-> LastDay,
                 total |-> total]
    BY <1>4, <2>2 DEF Y!Calculate
  <2>4. slip' \in Y!Slips
    BY <2>1, <2>2, <2>3, MonthHasDays DEF Y!Slips
  <2>5. total.net >= 0
    BY <1>4, <2>2 DEF Y!Calculate, Y!Borne
  <2>6. SlipMade(slip')
    <3>1. /\ slip'.by = "calculate" /\ slip'.pay = row.pay /\ slip'.att = attendance
          /\ slip'.total = total
      BY <2>3
    <3>2. slip'.total = Y!Calculated(slip'.pay, slip'.att)
      BY <2>2, <3>1
    <3> QED
      BY <2>5, <3>1, <3>2 DEF SlipMade
  <2> QED
    BY <1>4, <2>4, <2>6 DEF Y!Calculate, SlipMade
<1>5. ASSUME NEW row \in Y!Row, Y!Generate(row) PROVE SalaryInv'
  <2> DEFINE att == [paid |-> Y!InMonth, overtime |-> 0]
  <2>1. row.pay \in Pays /\ att \in Y!Attendances
    BY MonthHasDays, CalendarAssumption DEF Y!Row, Y!Attendances
  <2>2. PICK total \in Y!Amounts : total = Y!Generated(row.pay)
    BY <2>1, SalaryTotals
  <2> HIDE DEF att
  <2>3. slip' = [by |-> "generate", pay |-> row.pay, att |-> att, until |-> LastDay, total |-> total]
    BY <1>5, <2>2 DEF Y!Generate, att
  <2>4. slip' \in Y!Slips
    BY <2>1, <2>2, <2>3, MonthHasDays DEF Y!Slips
  <2>5. SlipMade(slip')
    BY <2>2, <2>3 DEF SlipMade
  <2> QED
    BY <1>5, <2>4, <2>5 DEF Y!Generate, SlipMade
<1>6. ASSUME NEW row \in Y!Row, NEW until \in 1 .. LastDay, Y!GenerateFinal(row, until)
      PROVE  SalaryInv'
  <2> DEFINE att == [paid |-> Y!Worked(until), overtime |-> 0]
  <2>1. row.pay \in Pays /\ att \in Y!Attendances /\ att.paid = Y!Worked(until)
    BY MonthHasDays, CalendarAssumption DEF Y!Row, Y!Attendances
  <2>2. PICK total \in Y!Amounts : total = Y!Final(row.pay, until)
    BY <2>1, SalaryTotals
  <2> HIDE DEF att
  <2>3. leaving' = [by |-> "final", pay |-> row.pay, att |-> att, until |-> until, total |-> total]
    BY <1>6, <2>2 DEF Y!GenerateFinal, att
  <2>4. leaving' \in Y!Slips
    BY <2>1, <2>2, <2>3 DEF Y!Slips
  <2>5. FinalMade(leaving')
    BY <1>6, <2>1, <2>2, <2>3 DEF FinalMade, Y!GenerateFinal, Y!Borne
  <2> QED
    BY <1>6, <2>4, <2>5 DEF Y!GenerateFinal, FinalMade
<1> QED
  BY <1>1, <1>2, <1>3, <1>4, <1>5, <1>6 DEF Y!Next

LEMMA SalarySame ==
    ASSUME SalaryInv, UNCHANGED pay
    PROVE  SalaryInv'
  BY DEF SalaryInv, Y!TypeOK, pay, SlipMade, FinalMade

\* No slip that is paid by days is negative, and a final one pays no more than
\* a monthly one of the same salary with as many days.
LEMMA SalaryOwes ==
    ASSUME SalaryInv
    PROVE  Y!NothingOwed /\ Y!DaysDecide
<1>1. \A p \in Pays, gross \in Nat :
        /\ Y!Total(p, gross).net = gross - Y!Contributions(p)
        /\ Y!Contributions(p) \in Nat
  BY SalaryAmounts DEF Y!Total
<1>2. \A m \in Y!Made : m.by # "generate" => m.total.net >= 0
  BY DEF SalaryInv, Y!Made, SlipMade, FinalMade
<1>3. ASSUME slip # Y!NoRow, leaving # Y!NoRow, slip.pay = leaving.pay,
             leaving.att.paid <= slip.att.paid
      PROVE  leaving.total.net <= slip.total.net
  <2>1. slip \in Y!Slips /\ leaving \in Y!Slips /\ SlipMade(slip) /\ FinalMade(leaving)
    BY <1>3 DEF SalaryInv, Y!TypeOK
  <2>2. PICK p \in Pays, att \in Y!Attendances, until \in 1 .. LastDay :
          /\ p = slip.pay /\ p = leaving.pay /\ att = slip.att /\ until = leaving.until
          /\ att.paid \in Nat /\ Y!Worked(until) <= att.paid
    BY <1>3, <2>1, MonthHasDays DEF Y!Slips, Y!Attendances, FinalMade
  <2> DEFINE days == Y!Worked(until)
             less == Y!Part(p.basic, days) + Y!Part(p.allowance, days)
             some == Y!Part(p.basic, att.paid) + p.allowance + Y!Overtime(p, att.overtime)
             all  == p.basic + p.allowance
  <2>3. days \in Nat
    BY MonthHasDays
  <2> HIDE DEF days
  <2>4. /\ p.basic \in Nat /\ p.allowance \in Nat /\ Y!Overtime(p, att.overtime) \in Nat
    BY <2>2, SalaryAmounts DEF Y!Attendances
  <2>5. /\ Y!Part(p.basic, days) \in Nat /\ Y!Part(p.basic, att.paid) \in Nat
        /\ Y!Part(p.basic, days) <= Y!Part(p.basic, att.paid)
        /\ Y!Part(p.basic, att.paid) <= p.basic
    BY <2>2, <2>3, <2>4, PartGrows DEF days
  <2>6. Y!Part(p.allowance, days) \in Nat /\ Y!Part(p.allowance, days) <= p.allowance
    <3>1. days <= days
      BY <2>3
    <3> QED
      BY <2>3, <2>4, <3>1, PartGrows
  <2>7. less \in Nat /\ some \in Nat /\ all \in Nat /\ less <= some /\ less <= all
    BY <2>4, <2>5, <2>6
  <2>8. leaving.total = Y!Total(p, less)
    BY <2>1, <2>2 DEF FinalMade, Y!Final, days
  <2>9. slip.total = Y!Total(p, some) \/ slip.total = Y!Total(p, all)
    BY <2>1, <2>2 DEF SlipMade, Y!Calculated, Y!Generated
  <2> HIDE DEF less, some, all
  <2> QED
    BY <1>1, <2>2, <2>7, <2>8, <2>9
<1>4. ASSUME NEW row \in Y!Effective, NEW o \in Overtimes, NEW n \in 1 .. Y!InMonth
      PROVE  Y!Calculated(row.pay, [paid |-> n - 1, overtime |-> o]).net
                <= Y!Calculated(row.pay, [paid |-> n, overtime |-> o]).net
  <2>1. PICK p \in Pays : p = row.pay
    BY DEF SalaryInv, Y!TypeOK, Y!Effective, Y!Row
  <2>2. n \in Nat /\ n - 1 \in Nat
    BY MonthHasDays
  <2>3. p.basic \in Nat /\ p.allowance \in Nat /\ Y!Overtime(p, o) \in Nat
    BY SalaryAmounts
  <2> DEFINE less == Y!Part(p.basic, n - 1) + p.allowance + Y!Overtime(p, o)
             more == Y!Part(p.basic, n) + p.allowance + Y!Overtime(p, o)
  <2>4. less \in Nat /\ more \in Nat /\ less <= more
    <3>1. n - 1 <= n
      BY <2>2
    <3>2. /\ Y!Part(p.basic, n - 1) \in Nat /\ Y!Part(p.basic, n) \in Nat
          /\ Y!Part(p.basic, n - 1) <= Y!Part(p.basic, n)
      BY <2>2, <2>3, <3>1, PartGrows
    <3> QED
      BY <2>3, <3>2
  <2>5. /\ Y!Calculated(row.pay, [paid |-> n - 1, overtime |-> o]) = Y!Total(p, less)
        /\ Y!Calculated(row.pay, [paid |-> n, overtime |-> o]) = Y!Total(p, more)
    BY <2>1 DEF Y!Calculated
  <2> HIDE DEF less, more
  <2> QED
    BY <1>1, <2>4, <2>5
<1> QED
  BY <1>2, <1>3, <1>4 DEF Y!NothingOwed, Y!DaysDecide

-----------------------------------------------------------------------------
\* All parts side by side.  Every part keeps its invariant, at work or not.
Inv ==
    /\ InTurn
    /\ ReimbInv /\ ProcInv /\ SepInv /\ CrInv /\ ThrInv /\ SalaryInv
Shows == ReimbShows /\ ProcShows /\ SepShows /\ CrShows

LEMMA ReimbRests ==
    ASSUME ReimbInv, part' = part, part # "reimbursement", UNCHANGED <<alone, reimbs>>
    PROVE  ReimbInv' /\ ReimbShows
<1>1. ReimbRows'
  BY DEF ReimbInv, ReimbRows, R!TypeOK, R!Exists
<1> QED
  BY <1>1, ReimbSame DEF ReimbInv, ReimbShows

LEMMA ProcRests ==
    ASSUME ProcInv, part' = part, part # "procurement", UNCHANGED <<alone, procs, vendors>>
    PROVE  ProcInv' /\ ProcShows
<1>1. ProcRows'
  BY DEF ProcInv, ProcRows, P!TypeOK, P!Exists
<1> QED
  BY <1>1, ProcSame DEF ProcInv, ProcShows

LEMMA SepRests ==
    ASSUME SepInv, part' = part, part # "separation", UNCHANGED <<alone, seps, staff>>
    PROVE  SepInv' /\ SepShows
<1>1. SepRows' /\ S!GoneOnlyByApproval'
  BY DEF SepInv, SepRows, S!TypeOK, S!Exists, S!GoneOnlyByApproval
<1>2. OneOpen'
  BY DEF SepInv, OneOpen, OpenFor, S!Exists
<1> QED
  BY <1>1, <1>2, SepSame DEF SepInv, SepShows

LEMMA CrRests ==
    ASSUME CrInv, part' = part, part # "change", UNCHANGED <<alone, crs>>
    PROVE  CrInv' /\ CrShows
<1>1. C!TypeOK' /\ CrKept'
  BY DEF CrInv, C!TypeOK, CrKept, CrNumbered, CrsOf, C!Stored
<1> QED
  BY <1>1, CrSame DEF CrInv, CrShows

LEMMA ThrRests ==
    ASSUME ThrInv, part' = part, part # "thr", UNCHANGED thr
    PROVE  ThrInv' /\ PaidKept
  BY DEF ThrInv, T!TypeOK, PaidKept

\* Whether handlers overlap is settled at the start.
LEMMA AloneStays ==
    ASSUME NEW s \in Sessions, R!Step(s) \/ P!Step(s) \/ S!Step(s) \/ C!Step(s) \/ T!Step(s)
    PROVE  alone' = alone
<1>1. CASE R!Step(s)
  BY <1>1 DEF R!Step, R!Create, R!Add, R!Begin, R!Go, R!ApproveL1, R!ApproveL2, R!Reject, R!Cancel,
              R!Transfer, R!Change, R!Edit, R!Commit, R!Finish, R!Abort
<1>2. CASE P!Step(s)
  BY <1>2 DEF P!Step, P!CreateVendor, P!Create, P!Add, P!Begin, P!Go, P!ApproveL1, P!ApproveL2,
              P!Reject, P!Cancel, P!Order, P!Deliver, P!Change, P!Edit, P!Commit, P!Finish, P!Abort
<1>3. CASE S!Step(s)
  BY <1>3 DEF S!Step, S!Create, S!Add, S!Begin, S!Go, S!ApproveL1, S!ApproveL2, S!Reject, S!Cancel,
              S!Interview, S!Execute, S!ExecuteCommit, S!Change, S!Edit, S!Commit, S!Finish, S!Abort
<1>4. CASE C!Step(s)
  BY <1>4 DEF C!Step, C!Create, C!Add, C!Begin, C!Go, C!Update, C!Submit, C!Delete, C!ApproveL1,
              C!ApproveL2, C!Reject, C!Cancel, C!Change, C!Edit, C!Commit, C!Finish, C!Abort
<1>5. CASE T!Step(s)
  BY <1>5 DEF T!Step, T!Generate, T!GenerateCommit, T!MarkPaid, T!MarkPaidCommit, T!Begin, T!Go,
              T!Edit, T!Finish, T!Abort
<1> QED
  BY <1>1, <1>2, <1>3, <1>4, <1>5

LEMMA Starts ==
    ASSUME Init
    PROVE  Inv
<1>1. alone \in BOOLEAN /\ sess = [s \in Sessions |-> Idle]
  BY DEF Init, R!Init, R!AllIdle, R!Idle, Idle
<1>2. InTurn /\ \A s \in Sessions : sess[s] = Idle
  BY <1>1 DEF InTurn
<1>3. ReimbInv
  BY <1>2 DEF Init, R!Init, ReimbInv, ReimbRows, ReimbWork, R!TypeOK, R!Exists
<1>4. ProcInv
  BY <1>2 DEF Init, P!Init, ProcInv, ProcRows, ProcWork, P!TypeOK, P!Exists
<1>5. SepInv
  <2>1. \A x \in Seps : ~S!Exists(x)
    BY DEF Init, S!Init, S!Exists
  <2>2. S!TypeOK /\ S!GoneOnlyByApproval
    BY DEF Init, S!Init, S!TypeOK, S!GoneOnlyByApproval, S!StaffRow
  <2> QED
    BY <1>2, <2>1, <2>2 DEF SepInv, SepRows, SepWork, OneOpen, OpenFor
<1>6. CrInv
  <2>1. C!TypeOK /\ \A c \in Crs : ~C!Stored(c)
    BY DEF Init, C!Init, C!TypeOK, C!Stored
  <2> QED
    BY <1>2, <2>1 DEF CrInv, CrKept, CrNumbered, CrWork
<1>7. ThrInv
  BY <1>2 DEF Init, T!Init, ThrInv, ThrWork, T!TypeOK
<1>8. SalaryInv
  BY DEF Init, Y!Init, SalaryInv, Y!TypeOK
<1> QED
  BY <1>2, <1>3, <1>4, <1>5, <1>6, <1>7, <1>8 DEF Inv

\* A step of one part; the others rest.
LEMMA Steps ==
    ASSUME Inv, [Next]_vars
    PROVE  Inv' /\ Shows /\ PaidKept
<1>1. CASE part = "reimbursement" /\ R!Next /\ part' = part
           /\ UNCHANGED <<procs, vendors, crs, seps, staff, thr, pay>>
  <2>1. PICK s \in Sessions : R!Step(s)
    BY <1>1 DEF R!Next
  <2>2. ReimbGoal' /\ ReimbShows /\ alone' = alone
    BY <1>1, <2>1, ReimbStep, AloneStays DEF Inv, ReimbGoal
  <2> QED
    BY <1>1, <2>2, ProcRests, SepRests, CrRests, ThrRests, SalarySame DEF Inv, Shows, ReimbGoal
<1>2. CASE part = "procurement" /\ P!Next /\ part' = part
           /\ UNCHANGED <<reimbs, crs, seps, staff, thr, pay>>
  <2>1. PICK s \in Sessions : P!Step(s)
    BY <1>2 DEF P!Next
  <2>2. ProcGoal' /\ ProcShows /\ alone' = alone
    BY <1>2, <2>1, ProcStep, AloneStays DEF Inv, ProcGoal
  <2> QED
    BY <1>2, <2>2, ReimbRests, SepRests, CrRests, ThrRests, SalarySame DEF Inv, Shows, ProcGoal
<1>3. CASE part = "change" /\ C!Next /\ part' = part
           /\ UNCHANGED <<reimbs, procs, vendors, seps, staff, thr, pay>>
  <2>1. PICK s \in Sessions : C!Step(s)
    BY <1>3 DEF C!Next
  <2>2. CrGoal' /\ CrShows /\ alone' = alone
    BY <1>3, <2>1, CrStep, AloneStays DEF Inv, CrGoal
  <2> QED
    BY <1>3, <2>2, ReimbRests, ProcRests, SepRests, ThrRests, SalarySame DEF Inv, Shows, CrGoal
<1>4. CASE part = "separation" /\ S!Next /\ part' = part
           /\ UNCHANGED <<reimbs, procs, vendors, crs, thr, pay>>
  <2>1. PICK s \in Sessions : S!Step(s)
    BY <1>4 DEF S!Next
  <2>2. SepGoal' /\ SepShows /\ alone' = alone
    BY <1>4, <2>1, SepStep, AloneStays DEF Inv, SepGoal
  <2> QED
    BY <1>4, <2>2, ReimbRests, ProcRests, CrRests, ThrRests, SalarySame DEF Inv, Shows, SepGoal
<1>5. CASE part = "thr" /\ T!Next /\ part' = part
           /\ UNCHANGED <<reimbs, procs, vendors, crs, seps, staff, pay>>
  <2>1. PICK s \in Sessions : T!Step(s)
    BY <1>5 DEF T!Next
  <2>2. ThrGoal' /\ PaidKept /\ alone' = alone
    BY <1>5, <2>1, ThrStep, AloneStays DEF Inv, ThrGoal
  <2> QED
    BY <1>5, <2>2, ReimbRests, ProcRests, SepRests, CrRests, SalarySame DEF Inv, Shows, ThrGoal
<1>6. CASE part = "salary" /\ Y!Next /\ part' = part
           /\ UNCHANGED <<alone, sess, reimbs, procs, vendors, crs, seps, staff, thr>>
  <2>1. SalaryInv'
    BY <1>6, SalaryStep DEF Inv
  <2>2. InTurn'
    BY <1>6 DEF Inv, InTurn
  <2> QED
    BY <1>6, <2>1, <2>2, ReimbRests, ProcRests, SepRests, CrRests, ThrRests DEF Inv, Shows
<1>7. CASE UNCHANGED vars
  <2> USE <1>7 DEF vars, tables
  <2>1. InTurn' /\ SalaryInv' /\ PaidKept
    BY SalarySame DEF Inv, InTurn, PaidKept
  <2>2. ThrInv'
    <3>1. ASSUME NEW t \in Sessions, part = "thr" PROVE ThrWork(sess[t])'
      <4>1. PICK v : v = sess[t] /\ v = sess'[t]
        OBVIOUS
      <4>2. ThrWork(v)
        BY <3>1, <4>1 DEF Inv, ThrInv
      <4>3. ThrWork(v)'
        BY <4>2 DEF ThrWork, ThrGenerates, ThrPays
      <4> QED
        BY <4>1, <4>3
    <3>2. T!TypeOK'
      BY DEF Inv, ThrInv, T!TypeOK
    <3> QED
      BY <3>1, <3>2 DEF ThrInv
  <2>3. ReimbInv' /\ ReimbShows
    <3>1. ASSUME NEW t \in Sessions, part = "reimbursement" PROVE ReimbWork(sess[t])'
      <4>1. PICK v : v = sess[t] /\ v = sess'[t]
        OBVIOUS
      <4>2. ReimbWork(v)
        BY <3>1, <4>1 DEF Inv, ReimbInv
      <4>3. ReimbWork(v)'
        BY <4>2 DEF ReimbWork, ReimbAdds, ReimbEdits, R!Exists
      <4> QED
        BY <4>1, <4>3
    <3>2. ReimbRows'
      BY DEF Inv, ReimbInv, ReimbRows, R!TypeOK, R!Exists
    <3> QED
      BY <3>1, <3>2, ReimbSame DEF ReimbInv, ReimbShows
  <2>4. ProcInv' /\ ProcShows
    <3>1. ASSUME NEW t \in Sessions, part = "procurement" PROVE ProcWork(sess[t])'
      <4>1. PICK v : v = sess[t] /\ v = sess'[t]
        OBVIOUS
      <4>2. ProcWork(v)
        BY <3>1, <4>1 DEF Inv, ProcInv
      <4>3. ProcWork(v)'
        BY <4>2 DEF ProcWork, ProcAdds, ProcEdits, KnownVendor, ProcMove, P!Exists
      <4> QED
        BY <4>1, <4>3
    <3>2. ProcRows'
      BY DEF Inv, ProcInv, ProcRows, P!TypeOK, P!Exists
    <3> QED
      BY <3>1, <3>2, ProcSame DEF ProcInv, ProcShows
  <2>5. SepInv' /\ SepShows
    <3>1. ASSUME NEW t \in Sessions, part = "separation" PROVE SepWork(sess[t])'
      <4>1. PICK v : v = sess[t] /\ v = sess'[t]
        OBVIOUS
      <4>2. SepWork(v)
        BY <3>1, <4>1 DEF Inv, SepInv
      <4>3. SepWork(v)'
        BY <4>2 DEF SepWork, SepAdds, SepEdits, SepExecutes,
               SepLoaded, MayOpen, OpenFor, S!Exists
      <4> QED
        BY <4>1, <4>3
    <3>2. SepRows' /\ OneOpen' /\ S!GoneOnlyByApproval'
      BY DEF Inv, SepInv, SepRows, S!TypeOK, S!Exists, OneOpen, OpenFor,
             S!GoneOnlyByApproval
    <3> QED
      BY <3>1, <3>2, SepSame DEF SepInv, SepShows
  <2>6. CrInv' /\ CrShows
    <3>1. ASSUME NEW t \in Sessions, part = "change" PROVE CrWork(sess[t])'
      <4>1. PICK v : v = sess[t] /\ v = sess'[t]
        OBVIOUS
      <4>2. CrWork(v)
        BY <3>1, <4>1 DEF Inv, CrInv
      <4>3. CrWork(v)'
        BY <4>2 DEF CrWork, CrAdds, CrEdits, CrsOf, C!Stored
      <4> QED
        BY <4>1, <4>3
    <3>2. C!TypeOK' /\ CrKept'
      BY DEF Inv, CrInv, C!TypeOK, CrKept, CrNumbered, CrsOf, C!Stored
    <3> QED
      BY <3>1, <3>2, CrSame DEF CrInv, CrShows
  <2> QED
    BY <2>1, <2>2, <2>3, <2>4, <2>5, <2>6 DEF Inv, Shows
<1> QED
  BY <1>1, <1>2, <1>3, <1>4, <1>5, <1>6, <1>7 DEF Next

LEMMA InvHolds == Spec => []Inv
<1>1. Init => Inv
  BY Starts
<1>2. Inv /\ [Next]_vars => Inv'
  BY Steps
<1> QED
  BY <1>1, <1>2, PTL DEF Spec
-----------------------------------------------------------------------------
\* Every table of the requests and every slip keeps its type: a row that two
\* handlers wrote in part is still a row, and every amount that is computed a
\* whole number of hundredths.
THEOREM RequestsType == Spec => []TypeOK
<1>1. Inv => TypeOK
  BY DEF Inv, ReimbInv, ReimbRows, ProcInv, ProcRows, SepInv, SepRows, CrInv, ThrInv, SalaryInv, TypeOK
<1> QED
  BY <1>1, InvHolds, PTL

\* Money leaves and orders go out only after both layers have approved, people
\* other than the one who asked, whatever the handlers interleave.
THEOREM RequestsSpend == Spec => []SpentAfterTwoLayers
<1>1. Inv => R!PaidAfterTwoLayers
  BY DEF Inv, ReimbInv, ReimbRows, ReimbSound, R!PaidAfterTwoLayers
<1>2. Inv => P!OrderedAfterTwoLayers
  BY DEF Inv, ProcInv, ProcRows, ProcSound, P!OrderedAfterTwoLayers
<1> QED
  BY <1>1, <1>2, InvHolds, PTL DEF SpentAfterTwoLayers

\* Among handlers that do not overlap, an approved change request has the cost
\* that was approved and has told who must know, and its number is its own.
THEOREM RequestsChange == Spec => []ChangesAsApproved
<1>1. Inv => C!ApprovedAsSeen
  BY DEF Inv, CrInv, CrKept, CrSound, C!ApprovedAsSeen
<1>2. Inv => C!NumbersUnique
  BY DEF Inv, CrInv, CrKept, CrNumbered, C!NumbersUnique
<1> QED
  BY <1>1, <1>2, InvHolds, PTL DEF ChangesAsApproved

\* Nobody loses employment or login but by a separation that two others than
\* its initiator approved; handlers that do not overlap keep one in progress.
THEOREM RequestsSeparate == Spec => []OneApprovedSeparation
<1>1. Inv => S!OneInProgress /\ S!GoneOnlyByApproval
  BY SepOnce DEF Inv, SepInv
<1> QED
  BY <1>1, InvHolds, PTL DEF OneApprovedSeparation

\* An allowance that was paid stays as it was, among handlers that do not
\* overlap: what a bulk generation holds is what is stored.
THEOREM RequestsPaid == Spec => PaidStays
<1>1. Inv /\ [Next]_vars =>
        [alone => \A k \in T!Keys : thr[k].status = "PAID" => thr'[k] = thr[k]]_T!thrVars
  BY Steps DEF PaidKept
<1> QED
  BY <1>1, InvHolds, PTL DEF Spec, PaidStays, T!PaidStays

\* The four kinds of request implement the two-layer approval, each with its
\* own opening, withdrawals and carrying out.
THEOREM RequestsApprove == Spec => RequestsAreApprovals
<1>1. Init => R!Approval!Init /\ P!Approval!Init /\ C!Approval!Init /\ S!Approval!Init
  BY DEF Init, R!Init, P!Init, C!Init, S!Init, R!Exists, P!Exists, C!Stored, S!Exists,
         R!NoRow, P!NoRow, C!NoRow, S!NoRow, S!AbstractStatus,
         R!Approval!Init, P!Approval!Init, C!Approval!Init, S!Approval!Init
<1>2. Inv /\ [Next]_vars => /\ [R!Approval!Next]_R!Approval!vars
                            /\ [P!Approval!Next]_P!Approval!vars
                            /\ [C!Approval!Next]_C!Approval!vars
                            /\ [S!Approval!Next]_S!Approval!vars
  BY Steps DEF Shows, ReimbShows, ProcShows, CrShows, SepShows
<1> QED
  BY <1>1, <1>2, InvHolds, PTL DEF Spec, RequestsAreApprovals, R!Approval!Spec, P!Approval!Spec,
     C!Approval!Spec, S!Approval!Spec

\* No slip that is paid by days is negative, a final one pays no more than a
\* monthly one of the same salary with as many days, and fewer paid days never
\* pay more, for every salary and every month.
THEOREM SalariesAreBorne == Spec => [](Y!NothingOwed /\ Y!DaysDecide)
<1>1. Inv => Y!NothingOwed /\ Y!DaysDecide
  BY SalaryOwes DEF Inv
<1> QED
  BY <1>1, InvHolds, PTL
=============================================================================
