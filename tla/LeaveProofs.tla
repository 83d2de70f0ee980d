---------------------------- MODULE LeaveProofs ----------------------------
(***************************************************************************)
(* Proofs about Leave for every set of employees, users, requests, dates   *)
(* and concurrent handlers.                                                *)
(***************************************************************************)
EXTENDS Leave, FiniteSetTheorems, TLAPS

\* What the state h of a handler says of the tables, from its checks to its
\* commit and however the others interleave: the request it loaded is still
\* there, its approver is not the requester, and a computed number of used days
\* fits an allocation that no step changes.
Sound(h, rq, bal) ==
    LET q == rq[h.request]
    IN /\ h.op \notin {"idle", "create"} => q # NoRow
       /\ h.op \in {"approve_l1", "approve_l2"} => UserOf[q.employee] # h.user
       /\ h.op = "approve_l2" => q.l1 # NoUser
       /\ (\/ h.op = "approve_l2" /\ h.pc = "commit" /\ IsPaid(q)
           \/ h.op = "cancel" /\ h.pc = "refund")
          => /\ bal[KeyOf(q)] # NoBalance
             /\ h.used <= bal[KeyOf(q)].allocated

IInv ==
    /\ TypeOK
    /\ NoOverdraw
    /\ IndependentApproval
    /\ \A s \in Sessions : Sound(sess[s], requests, balances)

\* What no step changes: who asked for which days, and what was allocated.
Steady ==
    /\ \A r \in Requests : requests[r] # NoRow =>
          /\ requests'[r] # NoRow
          /\ requests'[r].employee = requests[r].employee
          /\ requests'[r].type = requests[r].type
          /\ requests'[r].from = requests[r].from
          /\ requests[r].l1 # NoUser => requests'[r].l1 # NoUser
    /\ \A k \in Keys : balances[k] # NoBalance =>
          /\ balances'[k] # NoBalance
          /\ balances'[k].allocated = balances[k].allocated

LEMMA BusinessDaysNat ==
    ASSUME NEW from, NEW to PROVE BusinessDays(from, to) \in Nat
<1>1. IsFiniteSet(Workdays)
  BY LeaveAssumption, FS_Subset
<1>2. {d \in Workdays : from <= d /\ d <= to} \subseteq Workdays
  OBVIOUS
<1> QED
  BY <1>1, <1>2, FS_Subset, FS_CardinalityType DEF BusinessDays

LEMMA BalanceOrNewType ==
    ASSUME NEW k \in Keys, balances \in [Keys -> BalanceRow \cup {NoBalance}]
    PROVE  /\ BalanceOrNew(k) \in BalanceRow
           /\ BalanceOrNew(k) # NoBalance
  BY LeaveAssumption DEF BalanceOrNew, BalanceRow, NoBalance, Keys

LEMMA KeyOfType ==
    ASSUME NEW q, q.employee \in Employees, q.type \in LeaveTypes, q.from \in Dates
    PROVE  KeyOf(q) \in Keys
  BY DEF KeyOf, Keys, Years

\* A handler that waits stays sound while others change the tables.
LEMMA StaysSound ==
    ASSUME TypeOK, Steady, NEW h \in SessionStates, Sound(h, requests, balances)
    PROVE  Sound(h, requests', balances')
<1>1. CASE h.op \in {"idle", "create"}
  BY <1>1 DEF Sound
<1>2. CASE h.op \notin {"idle", "create"}
  <2>1. h.request \in Requests /\ requests[h.request] # NoRow
    BY <1>2 DEF Sound, SessionStates, Idle, CreateStates, Layer1States, Layer2States,
                RejectStates, CancelStates
  <2>2. requests[h.request] \in Row
    BY <2>1 DEF TypeOK
  <2>3. KeyOf(requests[h.request]) \in Keys
    BY <2>2, KeyOfType DEF Row
  <2>4. /\ requests'[h.request] # NoRow
        /\ KeyOf(requests'[h.request]) = KeyOf(requests[h.request])
        /\ IsPaid(requests'[h.request]) = IsPaid(requests[h.request])
    BY <2>1 DEF Steady, KeyOf, IsPaid
  <2> QED
    BY <2>1, <2>3, <2>4 DEF Steady, Sound
<1> QED
  BY <1>1, <1>2

\* A step that changes one handler's state, and the tables only as Steady allows.
LEMMA HandlerStep ==
    ASSUME IInv, Steady, NEW s \in Sessions, NEW h,
           sess' = [sess EXCEPT ![s] = h],
           h \in SessionStates, Sound(h, requests', balances'),
           requests' \in [Requests -> Row \cup {NoRow}],
           balances' \in [Keys -> BalanceRow \cup {NoBalance}],
           NoOverdraw', IndependentApproval'
    PROVE  IInv'
<1>1. ASSUME NEW t \in Sessions PROVE Sound(sess'[t], requests', balances')
  <2>1. CASE t = s
    BY <2>1 DEF IInv, TypeOK
  <2>2. CASE t # s
    BY <2>2, StaysSound DEF IInv, TypeOK
  <2> QED
    BY <2>1, <2>2
<1>2. sess' \in [Sessions -> SessionStates]
  BY DEF IInv, TypeOK
<1>3. TypeOK'
  BY <1>1, <1>2 DEF TypeOK, Sound, Exists
<1> QED
  BY <1>1, <1>3 DEF IInv

\* The step of a handler that only reads.
LEMMA ReadStep ==
    ASSUME IInv, NEW s \in Sessions, NEW h,
           sess' = [sess EXCEPT ![s] = h], UNCHANGED <<requests, balances>>,
           h \in SessionStates, Sound(h, requests, balances)
    PROVE  IInv'
<1>1. Steady
  BY DEF Steady
<1>2. /\ requests' \in [Requests -> Row \cup {NoRow}]
      /\ balances' \in [Keys -> BalanceRow \cup {NoBalance}]
  BY DEF IInv, TypeOK
<1>3. NoOverdraw' /\ IndependentApproval'
  BY DEF IInv, NoOverdraw, IndependentApproval, Exists
<1> QED
  BY <1>1, <1>2, <1>3, HandlerStep

\* get_or_create_balance keeps every other balance, and the one it opens is full.
LEMMA OpenedBalance ==
    ASSUME IInv, NEW k \in Keys, UNCHANGED requests,
           balances' = [balances EXCEPT ![k] = BalanceOrNew(k)]
    PROVE  /\ Steady
           /\ requests' \in [Requests -> Row \cup {NoRow}]
           /\ balances' \in [Keys -> BalanceRow \cup {NoBalance}]
           /\ NoOverdraw'
           /\ IndependentApproval'
<1>1. BalanceOrNew(k) \in BalanceRow /\ BalanceOrNew(k) # NoBalance
  BY BalanceOrNewType DEF IInv, TypeOK
<1>2. BalanceOrNew(k).used <= BalanceOrNew(k).allocated
  BY LeaveAssumption DEF IInv, NoOverdraw, BalanceOrNew, Keys
<1>3. balances[k] # NoBalance => BalanceOrNew(k) = balances[k]
  BY DEF BalanceOrNew
<1>4. Steady
  BY <1>1, <1>3 DEF IInv, TypeOK, Steady
<1>5. /\ requests' \in [Requests -> Row \cup {NoRow}]
      /\ balances' \in [Keys -> BalanceRow \cup {NoBalance}]
  BY <1>1 DEF IInv, TypeOK
<1>6. NoOverdraw'
  BY <1>2 DEF IInv, TypeOK, NoOverdraw
<1>7. IndependentApproval'
  BY DEF IInv, IndependentApproval, Exists
<1> QED
  BY <1>4, <1>5, <1>6, <1>7

\* The steps of create_leave_request preserve the invariant.
LEMMA CreateInv ==
    ASSUME IInv, NEW s \in Sessions, Create(s) PROVE IInv'
<1> USE DEF SessionStates
<1>1. ASSUME NEW e \in Employees, NEW t \in LeaveTypes, NEW from \in Dates, NEW to \in Dates,
             CreateLoad(s, e, t, from, to)
      PROVE  IInv'
  <2> DEFINE h == [op |-> "create", pc |-> IF t \in PaidTypes THEN "balance" ELSE "overlap",
                   employee |-> e, type |-> t, from |-> from, to |-> to]
  <2>1. h \in CreateStates
    BY <1>1 DEF CreateLoad, CreateStates
  <2>2. Sound(h, requests, balances)
    BY DEF Sound
  <2> QED
    BY <1>1, <2>1, <2>2, ReadStep DEF CreateLoad
<1>2. ASSUME sess[s].op = "create" PROVE sess[s] \in CreateStates
  BY <1>2 DEF IInv, TypeOK, Idle, CreateStates, Layer1States,
              Layer2States, RejectStates, CancelStates
<1>3. CASE CreateCheckBalance(s)
  <2> DEFINE q == sess[s]
             h == IF BusinessDays(q.from, q.to) > Remaining(BalanceOrNew(KeyOf(q))) THEN Idle
                  ELSE [q EXCEPT !.pc = "overlap"]
  <2>1. q \in CreateStates
    BY <1>2, <1>3 DEF CreateCheckBalance
  <2>2. h \in {Idle} \cup CreateStates
    BY <2>1 DEF CreateStates
  <2>3. KeyOf(q) \in Keys
    BY <2>1, LeaveAssumption, KeyOfType DEF CreateStates
  <2>4. Sound(h, requests', balances')
    BY <2>2 DEF Sound, CreateStates, Idle
  <2>5. /\ balances' = [balances EXCEPT ![KeyOf(q)] = BalanceOrNew(KeyOf(q))]
        /\ sess' = [sess EXCEPT ![s] = h]
        /\ UNCHANGED requests
    BY <1>3 DEF CreateCheckBalance
  <2> HIDE DEF q, h
  <2> QED
    BY <2>2, <2>3, <2>4, <2>5, OpenedBalance, HandlerStep
<1>4. CASE CreateCheckOverlap(s)
  <2>1. sess[s] \in CreateStates
    BY <1>2, <1>4 DEF CreateCheckOverlap
  <2>2. PICK h \in {Idle, [sess[s] EXCEPT !.pc = "insert"]} :
           sess' = [sess EXCEPT ![s] = h] /\ UNCHANGED <<requests, balances>>
    BY <1>4 DEF CreateCheckOverlap
  <2>3. h \in {Idle} \cup CreateStates
    BY <2>1, <2>2 DEF CreateStates
  <2>4. Sound(h, requests, balances)
    BY <2>3 DEF Sound, CreateStates, Idle
  <2> QED
    BY <2>2, <2>3, <2>4, ReadStep
<1>5. ASSUME NEW r \in Requests, CreateCommit(s, r) PROVE IInv'
  <2> DEFINE q == sess[s]
             row == [status |-> "PENDING_L1", employee |-> q.employee, type |-> q.type,
                     from |-> q.from, to |-> q.to, days |-> BusinessDays(q.from, q.to),
                     l1 |-> NoUser, l2 |-> NoUser]
  <2>1. q \in CreateStates
    BY <1>2, <1>5 DEF CreateCommit
  <2>2. row \in Row
    BY <2>1, LeaveAssumption, BusinessDaysNat DEF CreateStates, Row, Statuses, Pending
  <2>3. /\ requests' = [requests EXCEPT ![r] = row]
        /\ requests[r] = NoRow
        /\ sess' = [sess EXCEPT ![s] = Idle]
        /\ UNCHANGED balances
    BY <1>5 DEF CreateCommit, Exists
  <2>4. row.status = "PENDING_L1" /\ UserOf[row.employee] \notin {row.l1, row.l2}
    BY <2>1, LeaveAssumption DEF CreateStates
  <2> HIDE DEF q, row
  <2>5. Steady
    BY <2>3 DEF IInv, TypeOK, Steady
  <2>6. /\ requests' \in [Requests -> Row \cup {NoRow}]
        /\ balances' \in [Keys -> BalanceRow \cup {NoBalance}]
    BY <2>2, <2>3 DEF IInv, TypeOK
  <2>7. NoOverdraw'
    BY <2>3 DEF IInv, NoOverdraw
  <2>8. IndependentApproval'
    BY <2>2, <2>3, <2>4 DEF IInv, TypeOK, IndependentApproval, Exists
  <2>9. Sound(Idle, requests', balances')
    BY DEF Sound, Idle
  <2> QED
    BY <2>3, <2>5, <2>6, <2>7, <2>8, <2>9, HandlerStep
<1> QED
  BY <1>1, <1>3, <1>4, <1>5 DEF Create

\* A decision that only changes the request keeps its requester and its dates.
LEMMA DecidedRow ==
    ASSUME IInv, NEW r \in Requests, requests[r] # NoRow, NEW row \in Row,
           requests' = [requests EXCEPT ![r] = row],
           row.employee = requests[r].employee, row.type = requests[r].type,
           row.from = requests[r].from,
           requests[r].l1 # NoUser => row.l1 # NoUser,
           row.status \in {"PENDING_L2", "APPROVED"} => row.l1 # NoUser,
           row.status = "APPROVED" => row.l2 # NoUser,
           UserOf[row.employee] \notin {row.l1, row.l2}
    PROVE  /\ requests' \in [Requests -> Row \cup {NoRow}]
           /\ IndependentApproval'
           /\ UNCHANGED balances => /\ Steady
                                    /\ balances' \in [Keys -> BalanceRow \cup {NoBalance}]
                                    /\ NoOverdraw'
<1>1. requests' \in [Requests -> Row \cup {NoRow}]
  BY DEF IInv, TypeOK
<1>2. IndependentApproval'
  BY DEF IInv, TypeOK, IndependentApproval, Exists
<1>3. ASSUME UNCHANGED balances PROVE Steady
  <2>1. row # NoRow
    BY DEF Row, NoRow, Statuses, Pending
  <2> QED
    BY <1>3, <2>1 DEF IInv, TypeOK, Steady
<1>4. ASSUME UNCHANGED balances
      PROVE  balances' \in [Keys -> BalanceRow \cup {NoBalance}] /\ NoOverdraw'
  BY <1>4 DEF IInv, TypeOK, NoOverdraw
<1> QED
  BY <1>1, <1>2, <1>3, <1>4

\* Writing a checked number of used days keeps every allocation.
LEMMA ChargedBalance ==
    ASSUME IInv, Steady, NEW k \in Keys, NEW n \in Nat,
           balances[k] # NoBalance, n <= balances[k].allocated,
           balances' = [balances EXCEPT ![k].used = n]
    PROVE  balances' \in [Keys -> BalanceRow \cup {NoBalance}] /\ NoOverdraw'
  BY DEF IInv, TypeOK, NoOverdraw, BalanceRow

\* The request a deciding handler holds is a stored row.
LEMMA HeldRow ==
    ASSUME IInv, NEW s \in Sessions, sess[s].op \notin {"idle", "create"}
    PROVE  /\ sess[s].request \in Requests
           /\ requests[sess[s].request] \in Row
           /\ requests[sess[s].request] # NoRow
           /\ KeyOf(requests[sess[s].request]) \in Keys
<1>1. sess[s].request \in Requests /\ requests[sess[s].request] # NoRow
  BY DEF IInv, TypeOK, Exists, SessionStates, Idle, CreateStates, Layer1States,
         Layer2States, RejectStates, CancelStates
<1>2. requests[sess[s].request] \in Row
  BY <1>1 DEF IInv, TypeOK
<1> QED
  BY <1>1, <1>2, KeyOfType DEF Row

\* approve_l1
LEMMA Layer1Inv ==
    ASSUME IInv, NEW s \in Sessions,
           \/ \E r \in Requests, u \in Approvers : ApproveL1Load(s, r, u)
           \/ ApproveL1Commit(s)
    PROVE  IInv'
<1> USE DEF SessionStates
<1>1. ASSUME NEW r \in Requests, NEW u \in Approvers, ApproveL1Load(s, r, u) PROVE IInv'
  <2> DEFINE h == [op |-> "approve_l1", request |-> r, user |-> u]
  <2>1. h \in Layer1States
    BY DEF Layer1States
  <2>2. Sound(h, requests, balances)
    BY <1>1 DEF ApproveL1Load, MayApproveL1, Sound, Exists
  <2> QED
    BY <1>1, <2>1, <2>2, ReadStep DEF ApproveL1Load
<1>2. CASE ApproveL1Commit(s)
  <2> DEFINE r   == sess[s].request
             row == [requests[r] EXCEPT !.status = "PENDING_L2", !.l1 = sess[s].user]
  <2>1. sess[s] \in Layer1States
    BY <1>2 DEF ApproveL1Commit, IInv, TypeOK, Idle, CreateStates, Layer1States,
                Layer2States, RejectStates, CancelStates
  <2>2. r \in Requests /\ requests[r] \in Row /\ requests[r] # NoRow
    BY <1>2, HeldRow DEF ApproveL1Commit
  <2>3. sess[s].user \in Users /\ UserOf[requests[r].employee] # sess[s].user
    BY <2>1, LeaveAssumption DEF IInv, Sound, Layer1States
  <2>4. /\ row \in Row
        /\ row.employee = requests[r].employee /\ row.type = requests[r].type
        /\ row.from = requests[r].from /\ row.l1 = sess[s].user
        /\ row.l2 = requests[r].l2 /\ row.status = "PENDING_L2"
    BY <2>2, <2>3 DEF Row, Statuses, Pending
  <2>5. UserOf[row.employee] \notin {row.l1, row.l2} /\ row.l1 # NoUser
    BY <2>2, <2>3, <2>4, LeaveAssumption DEF IInv, IndependentApproval, Exists
  <2>6. /\ requests' = [requests EXCEPT ![r] = row]
        /\ sess' = [sess EXCEPT ![s] = Idle]
        /\ UNCHANGED balances
    BY <1>2, <2>2 DEF ApproveL1Commit, IInv, TypeOK
  <2>7. Sound(Idle, requests', balances')
    BY DEF Sound, Idle
  <2> HIDE DEF r, row
  <2> QED
    BY <2>2, <2>4, <2>5, <2>6, <2>7, DecidedRow, HandlerStep
<1> QED
  BY <1>1, <1>2

\* approve_l2
LEMMA Layer2Inv ==
    ASSUME IInv, NEW s \in Sessions,
           \/ \E r \in Requests, u \in Approvers : ApproveL2Load(s, r, u)
           \/ ApproveL2CheckBalance(s)
           \/ ApproveL2Commit(s)
    PROVE  IInv'
<1> USE DEF SessionStates
<1>1. ASSUME NEW r \in Requests, NEW u \in Approvers, ApproveL2Load(s, r, u) PROVE IInv'
  <2> DEFINE h == [op |-> "approve_l2",
                   pc |-> IF IsPaid(requests[r]) THEN "balance" ELSE "commit",
                   request |-> r, user |-> u, used |-> 0]
  <2>1. h \in Layer2States
    BY DEF Layer2States
  <2>2. Sound(h, requests, balances)
    BY <1>1 DEF ApproveL2Load, MayApproveL2, MayApproveL2Again, Sound, Exists, IInv,
                IndependentApproval
  <2> QED
    BY <1>1, <2>1, <2>2, ReadStep DEF ApproveL2Load
<1>2. ASSUME sess[s].op = "approve_l2" PROVE sess[s] \in Layer2States
  BY <1>2 DEF IInv, TypeOK, Idle, CreateStates, Layer1States,
              Layer2States, RejectStates, CancelStates
<1>3. CASE ApproveL2CheckBalance(s)
  <2> DEFINE q == requests[sess[s].request]
             b == BalanceOrNew(KeyOf(q))
             h == IF ~StillCovered(q, b) THEN Idle
                  ELSE [sess[s] EXCEPT !.pc = "commit", !.used = b.used + q.days]
  <2>1. sess[s] \in Layer2States
    BY <1>2, <1>3 DEF ApproveL2CheckBalance
  <2>2. sess[s].request \in Requests /\ q \in Row /\ q # NoRow /\ KeyOf(q) \in Keys
    BY <1>3, HeldRow DEF ApproveL2CheckBalance
  <2>3. b \in BalanceRow /\ b # NoBalance
    BY <2>2, BalanceOrNewType DEF IInv, TypeOK
  <2>4. q.days \in Nat
    BY <2>2 DEF Row
  <2>5. h \in {Idle} \cup Layer2States
    <3>1. b.used + q.days \in Nat
      BY <2>3, <2>4 DEF BalanceRow
    <3> HIDE DEF b, q
    <3> QED
      BY <2>1, <3>1 DEF Layer2States
  <2>6. /\ balances' = [balances EXCEPT ![KeyOf(q)] = b]
        /\ sess' = [sess EXCEPT ![s] = h]
        /\ UNCHANGED requests
    BY <1>3 DEF ApproveL2CheckBalance, IInv, TypeOK
  <2>7. balances'[KeyOf(q)] = b
    BY <2>2, <2>6 DEF IInv, TypeOK
  <2>8. Sound(h, requests', balances')
    <3>1. CASE ~StillCovered(q, b)
      BY <3>1 DEF Sound, Idle
    <3>2. CASE StillCovered(q, b)
      <4>1. b.used + q.days <= b.allocated
        BY <3>2, <2>3, <2>4 DEF StillCovered, Remaining, BalanceRow
      <4>2. /\ h.op = "approve_l2" /\ h.user = sess[s].user
            /\ h.request = sess[s].request /\ h.used = b.used + q.days
        BY <2>1, <3>2 DEF Layer2States
      <4>3. UserOf[q.employee] # sess[s].user /\ q.l1 # NoUser
        BY <2>1 DEF IInv, Sound, Layer2States
      <4> HIDE DEF b, h
      <4> QED
        BY <2>2, <2>3, <2>6, <2>7, <4>1, <4>2, <4>3 DEF Sound
    <3> QED
      BY <3>1, <3>2
  <2> HIDE DEF q, b, h
  <2> QED
    BY <2>2, <2>5, <2>6, <2>8, OpenedBalance, HandlerStep DEF b
<1>4. CASE ApproveL2Commit(s)
  <2> DEFINE r   == sess[s].request
             k   == KeyOf(requests[r])
             row == [requests[r] EXCEPT !.status = "APPROVED", !.l2 = sess[s].user]
  <2>1. sess[s] \in Layer2States
    BY <1>2, <1>4 DEF ApproveL2Commit
  <2>2. r \in Requests /\ requests[r] \in Row /\ requests[r] # NoRow /\ k \in Keys
    BY <1>4, HeldRow DEF ApproveL2Commit
  <2>3. /\ sess[s].user \in Users /\ UserOf[requests[r].employee] # sess[s].user
        /\ requests[r].l1 # NoUser
    BY <2>1, LeaveAssumption DEF IInv, Sound, Layer2States
  <2>4. /\ row \in Row
        /\ row.employee = requests[r].employee /\ row.type = requests[r].type
        /\ row.from = requests[r].from /\ row.l1 = requests[r].l1
        /\ row.l2 = sess[s].user /\ row.status = "APPROVED"
    BY <2>2, <2>3 DEF Row, Statuses, Pending
  <2>5. UserOf[row.employee] \notin {row.l1, row.l2} /\ row.l1 # NoUser /\ row.l2 # NoUser
    BY <2>2, <2>3, <2>4, LeaveAssumption DEF IInv, IndependentApproval, Exists
  <2>6. /\ requests' = [requests EXCEPT ![r] = row]
        /\ sess' = [sess EXCEPT ![s] = Idle]
        /\ balances' = IF IsPaid(requests[r])
                       THEN [balances EXCEPT ![k].used = sess[s].used] ELSE balances
    BY <1>4, <2>2 DEF ApproveL2Commit, IInv, TypeOK
  <2>7. Sound(Idle, requests', balances')
    BY DEF Sound, Idle
  <2>8. IsPaid(requests[r]) => /\ balances[k] # NoBalance
                               /\ sess[s].used \in Nat
                               /\ sess[s].used <= balances[k].allocated
    BY <1>4, <2>1, <2>2 DEF ApproveL2Commit, IInv, Sound, Layer2States
  <2>9. requests' \in [Requests -> Row \cup {NoRow}] /\ IndependentApproval'
    <3> HIDE DEF r, row, k
    <3> QED
      BY <2>2, <2>4, <2>5, <2>6, DecidedRow
  <2>10. row # NoRow
    BY <2>4 DEF NoRow
  <2> HIDE DEF r, row, k
  <2>11. Steady
    BY <2>2, <2>4, <2>6, <2>8, <2>10 DEF IInv, TypeOK, Steady, NoBalance, BalanceRow
  <2>12. balances' \in [Keys -> BalanceRow \cup {NoBalance}] /\ NoOverdraw'
    <3>1. CASE IsPaid(requests[r])
      BY <2>2, <2>6, <2>8, <2>11, <3>1, ChargedBalance
    <3>2. CASE ~IsPaid(requests[r])
      BY <2>6, <3>2 DEF IInv, TypeOK, NoOverdraw
    <3> QED
      BY <3>1, <3>2
  <2> QED
    BY <2>6, <2>7, <2>9, <2>11, <2>12, HandlerStep
<1> QED
  BY <1>1, <1>3, <1>4

LEMMA MaxOfZeroAnd ==
    ASSUME NEW n \in Int PROVE Max({0, n}) = IF n > 0 THEN n ELSE 0
  BY DEF Max

\* reject_request and cancel_request
LEMMA ClosingInv ==
    ASSUME IInv, NEW s \in Sessions,
           \/ \E r \in Requests : RejectLoad(s, r) \/ CancelLoad(s, r)
           \/ RejectCommit(s) \/ CancelReadBalance(s) \/ CancelCommit(s)
    PROVE  IInv'
<1> USE DEF SessionStates
<1>1. ASSUME NEW r \in Requests, RejectLoad(s, r) PROVE IInv'
  <2> DEFINE h == [op |-> "reject", request |-> r]
  <2>1. h \in RejectStates /\ Sound(h, requests, balances)
    BY <1>1 DEF RejectLoad, RejectStates, Sound, Exists
  <2> QED
    BY <1>1, <2>1, ReadStep DEF RejectLoad
<1>2. ASSUME NEW r \in Requests, CancelLoad(s, r) PROVE IInv'
  <2> DEFINE h == [op |-> "cancel",
                   pc |-> IF requests[r].status = "APPROVED" /\ IsPaid(requests[r])
                          THEN "balance" ELSE "commit",
                   request |-> r, used |-> 0]
  <2>1. h \in CancelStates /\ Sound(h, requests, balances)
    BY <1>2 DEF CancelLoad, CancelStates, Sound, Exists
  <2> QED
    BY <1>2, <2>1, ReadStep DEF CancelLoad
<1>3. ASSUME sess[s].op = "cancel" PROVE sess[s] \in CancelStates
  BY <1>3 DEF IInv, TypeOK, Idle, CreateStates, Layer1States,
              Layer2States, RejectStates, CancelStates
<1>4. CASE CancelReadBalance(s)
  <2> DEFINE q    == requests[sess[s].request]
             b    == balances[KeyOf(q)]
             back == Refunded(q, b)
             pc   == IF b = NoBalance \/ back = b.used THEN "commit" ELSE "refund"
             h    == [sess[s] EXCEPT !.pc = pc, !.used = back]
  <2>1. sess[s] \in CancelStates
    BY <1>3, <1>4 DEF CancelReadBalance
  <2>2. q \in Row /\ q # NoRow /\ KeyOf(q) \in Keys
    BY <1>4, HeldRow DEF CancelReadBalance
  <2>3. b.used \in Nat /\ q.days \in Nat
    BY <2>2 DEF IInv, TypeOK, BalanceRow, NoBalance, Row
  <2>4. back \in Nat /\ back <= b.used
    <3> HIDE DEF b, q
    <3> USE DEF Refunded
    <3>1. b.used - q.days \in Int /\ b.used - q.days <= b.used
      BY <2>3
    <3> QED
      BY <2>3, <3>1, MaxOfZeroAnd
  <2>5. b # NoBalance => back <= b.allocated
    BY <2>2, <2>3, <2>4 DEF IInv, TypeOK, NoOverdraw, BalanceRow
  <2>6. /\ h \in CancelStates /\ h.op = "cancel" /\ h.pc = pc
        /\ h.request = sess[s].request /\ h.used = back
    <3> HIDE DEF b, q, back
    <3> QED
      BY <2>1, <2>4 DEF CancelStates
  <2>7. sess' = [sess EXCEPT ![s] = h] /\ UNCHANGED <<requests, balances>>
    BY <1>4, <2>1 DEF CancelReadBalance, IInv, TypeOK, CancelStates
  <2>8. Sound(h, requests, balances)
    <3> HIDE DEF h, back
    <3> QED
      BY <2>2, <2>5, <2>6 DEF Sound
  <2> HIDE DEF h
  <2> QED
    BY <2>6, <2>7, <2>8, ReadStep
<1>5. CASE RejectCommit(s) \/ CancelCommit(s)
  <2> DEFINE r   == sess[s].request
             k   == KeyOf(requests[r])
             new == IF sess[s].op = "reject" THEN "REJECTED" ELSE "CANCELLED"
             row == [requests[r] EXCEPT !.status = new]
             refund == sess[s].op = "cancel" /\ sess[s].pc = "refund"
  <2>1. r \in Requests /\ requests[r] \in Row /\ requests[r] # NoRow /\ k \in Keys
    BY <1>5, HeldRow DEF RejectCommit, CancelCommit
  <2>2. /\ row \in Row
        /\ row.employee = requests[r].employee /\ row.type = requests[r].type
        /\ row.from = requests[r].from /\ row.l1 = requests[r].l1
        /\ row.l2 = requests[r].l2 /\ row.status \in {"REJECTED", "CANCELLED"}
    BY <2>1 DEF Row, Statuses, Pending
  <2>3. UserOf[row.employee] \notin {row.l1, row.l2}
    BY <2>1, <2>2 DEF IInv, IndependentApproval, Exists
  <2>4. /\ requests' = [requests EXCEPT ![r] = row]
        /\ sess' = [sess EXCEPT ![s] = Idle]
        /\ balances' = IF refund THEN [balances EXCEPT ![k].used = sess[s].used] ELSE balances
    BY <1>5, <2>1 DEF RejectCommit, CancelCommit, IInv, TypeOK
  <2>5. refund => /\ balances[k] # NoBalance
                  /\ sess[s].used \in Nat
                  /\ sess[s].used <= balances[k].allocated
    BY <1>3 DEF IInv, Sound, CancelStates
  <2>6. Sound(Idle, requests', balances')
    BY DEF Sound, Idle
  <2>7. row # NoRow
    BY <2>2 DEF NoRow
  <2> HIDE DEF r, row, k, refund
  <2>8. requests' \in [Requests -> Row \cup {NoRow}] /\ IndependentApproval'
    BY <2>1, <2>2, <2>3, <2>4, DecidedRow
  <2>9. Steady
    BY <2>1, <2>2, <2>4, <2>5, <2>7 DEF IInv, TypeOK, Steady, NoBalance, BalanceRow
  <2>10. balances' \in [Keys -> BalanceRow \cup {NoBalance}] /\ NoOverdraw'
    <3>1. CASE refund
      BY <2>1, <2>4, <2>5, <2>9, <3>1, ChargedBalance
    <3>2. CASE ~refund
      BY <2>4, <3>2 DEF IInv, TypeOK, NoOverdraw
    <3> QED
      BY <3>1, <3>2
  <2> QED
    BY <2>4, <2>6, <2>8, <2>9, <2>10, HandlerStep
<1> QED
  BY <1>1, <1>2, <1>4, <1>5

\* Every step preserves the invariant.
LEMMA NextInv == IInv /\ [Next]_vars => IInv'
<1> SUFFICES ASSUME IInv, [Next]_vars PROVE IInv'
  OBVIOUS
<1>1. ASSUME NEW k \in Keys, OpenBalance(k) PROVE IInv'
  <2>1. UNCHANGED <<requests, sess>> /\ balances' = [balances EXCEPT ![k] = BalanceOrNew(k)]
    BY <1>1 DEF OpenBalance
  <2>2. /\ Steady /\ NoOverdraw' /\ IndependentApproval'
        /\ requests' \in [Requests -> Row \cup {NoRow}]
        /\ balances' \in [Keys -> BalanceRow \cup {NoBalance}]
    BY <2>1, OpenedBalance
  <2>3. CASE Sessions = {}
    BY <2>1, <2>2, <2>3 DEF IInv, TypeOK
  <2>4. ASSUME NEW s \in Sessions PROVE IInv'
    <3>1. sess[s] \in SessionStates /\ Sound(sess[s], requests, balances)
      BY DEF IInv, TypeOK
    <3>2. Sound(sess[s], requests', balances')
      BY <2>2, <3>1, StaysSound DEF IInv
    <3>3. sess' = [sess EXCEPT ![s] = sess[s]]
      BY <2>1 DEF IInv, TypeOK
    <3> QED
      BY <2>2, <3>1, <3>2, <3>3, HandlerStep
  <2> QED
    BY <2>3, <2>4
<1>2. ASSUME NEW s \in Sessions, Create(s) PROVE IInv'
  BY <1>2, CreateInv
<1>3. ASSUME NEW s \in Sessions, Decide(s) PROVE IInv'
  BY <1>3, Layer1Inv, Layer2Inv, ClosingInv DEF Decide, ApproveL1, ApproveL2, Reject, Cancel
<1>4. ASSUME NEW s \in Sessions, Abort(s) PROVE IInv'
  <2>1. Idle \in SessionStates /\ Sound(Idle, requests, balances)
    BY DEF SessionStates, Sound, Idle
  <2> QED
    BY <1>4, <2>1, ReadStep DEF Abort
<1>5. CASE UNCHANGED vars
  BY <1>5 DEF vars, IInv, TypeOK, NoOverdraw, IndependentApproval, Exists
<1> QED
  BY <1>1, <1>2, <1>3, <1>4, <1>5 DEF Next

LEMMA InitInv == Init => IInv
  BY LeaveAssumption DEF Init, IInv, TypeOK, NoOverdraw, IndependentApproval, Sound, Exists,
     NoRow, NoBalance, BalanceRow, SessionStates, Idle

-----------------------------------------------------------------------------
\* Every table row and every handler keeps the shape the columns give it.
THEOREM TypeCorrect == Spec => []TypeOK
<1>1. IInv => TypeOK
  BY DEF IInv
<1> QED
  BY InitInv, NextInv, <1>1, PTL DEF Spec

\* However many handlers are in flight, no leave balance of leave_service.py is
\* ever overdrawn.
THEOREM NeverOverdrawn == Spec => []NoOverdraw
<1>1. IInv => NoOverdraw
  BY DEF IInv
<1> QED
  BY InitInv, NextInv, <1>1, PTL DEF Spec

\* However many handlers are in flight, no employee is an approver of their own
\* leave, and nothing is approved with a layer missing.
THEOREM ApprovedByOthers == Spec => []IndependentApproval
<1>1. IInv => IndependentApproval
  BY DEF IInv
<1> QED
  BY InitInv, NextInv, <1>1, PTL DEF Spec

-----------------------------------------------------------------------------
(***************************************************************************)
(* With one handler at a time nothing changes between the checks of a      *)
(* handler and its commit, so that what it checked still holds then.       *)
(***************************************************************************)
OneAtATime == \A s, t \in Sessions : s = t

Current(h, rq, bal) ==
    LET q == rq[h.request]
        b == bal[KeyOf(q)]
        charged == q.status = "APPROVED" /\ IsPaid(q)
    IN /\ h.op = "create" /\ h.pc = "insert"
          => \A r \in Requests : ~(rq[r] # NoRow /\ Live(rq[r]) /\ Overlap(rq[r], h))
       /\ h.op = "approve_l1" => MayApproveL1(q, h.user)
       /\ h.op = "approve_l2" =>
             /\ MayApproveL2(q, h.user)
             /\ h.pc = "balance" => IsPaid(q)
             /\ h.pc = "commit" /\ IsPaid(q) => b # NoBalance /\ h.used = b.used + q.days
       /\ h.op = "reject" => q.status \in Pending
       /\ h.op = "cancel" =>
             /\ Live(q)
             /\ h.pc = "balance" => charged
             /\ h.pc = "commit" /\ charged => q.days = 0
             /\ h.pc = "refund" => charged /\ b # NoBalance /\ h.used = b.used - q.days

AllCurrent == \A s \in Sessions : Current(sess[s], requests, balances)

SerialInv ==
    /\ IInv
    /\ AllCurrent
    /\ NoOverlap
    /\ BalanceMatchesApproved
    /\ \A k \in Keys : IsFiniteSet(Charged(k))

\* What a step must do to the tables besides keeping IInv.
SerialTables ==
    /\ NoOverlap'
    /\ BalanceMatchesApproved'
    /\ \A k \in Keys : IsFiniteSet(Charged(k)')
    /\ Approval!Next \/ UNCHANGED Approval!vars

LEMMA AlonePosition ==
    ASSUME OneAtATime, TypeOK, NEW s \in Sessions, NEW h,
           sess' = [sess EXCEPT ![s] = h], Current(h, requests', balances')
    PROVE  AllCurrent'
  BY DEF OneAtATime, TypeOK, AllCurrent

LEMMA IdleIsCurrent == Current(Idle, requests', balances')
  BY DEF Current, Idle

\* No request changes, and no balance but from none to unused.
LEMMA SameCharges ==
    ASSUME SerialInv, UNCHANGED requests,
           \A k \in Keys : balances'[k].used = balances[k].used
    PROVE  SerialTables
<1>1. NoOverlap'
  BY DEF SerialInv, NoOverlap, Exists
<1>2. \A k \in Keys : Charged(k)' = Charged(k)
  BY DEF Charged, Exists
<1>3. BalanceMatchesApproved'
  BY <1>2 DEF SerialInv, BalanceMatchesApproved, Days
<1>4. UNCHANGED Approval!vars
  BY DEF Approval!vars, Exists
<1> QED
  BY <1>1, <1>2, <1>3, <1>4 DEF SerialInv, SerialTables

\* A row that replaces another, or a new row, changes the sums of its own key only.
LEMMA OneRowCharged ==
    ASSUME TypeOK, NEW r \in Requests, NEW row \in Row, row # NoRow,
           requests' = [requests EXCEPT ![r] = row],
           requests[r] # NoRow => row.days = requests[r].days /\ KeyOf(row) = KeyOf(requests[r])
                                  /\ row.type = requests[r].type,
           NEW k \in Keys
    PROVE  /\ Charged(k)' = IF row.status = "APPROVED" /\ IsPaid(row) /\ KeyOf(row) = k
                            THEN Charged(k) \cup {r} ELSE Charged(k) \ {r}
           /\ \A q \in Charged(k)' \ {r} : requests'[q] = requests[q]
  BY DEF TypeOK, Charged, Exists

LEMMA NoRowIsNoRow == NoRow \notin Row
  BY DEF Row, NoRow, Statuses, Pending

\* A decision keeps who asked for which days; what it may change is whether they
\* are charged.
SameRequest(row, q) ==
    /\ row \in Row /\ q \in Row
    /\ row.employee = q.employee /\ row.type = q.type
    /\ row.from = q.from /\ row.to = q.to /\ row.days = q.days

LEMMA DecisionCharges ==
    ASSUME SerialInv, NEW r \in Requests, NEW row, SameRequest(row, requests[r]),
           requests' = [requests EXCEPT ![r] = row], NEW k \in Keys
    PROVE  LET was == requests[r].status = "APPROVED" /\ IsPaid(row) /\ KeyOf(row) = k
               is  == row.status = "APPROVED" /\ IsPaid(row) /\ KeyOf(row) = k
           IN /\ IsFiniteSet(Charged(k)')
              /\ Days(Charged(k)) \in Nat /\ Days(Charged(k))' \in Nat
              /\ (is <=> was) => Days(Charged(k))' = Days(Charged(k))
              /\ is /\ ~was => Days(Charged(k))' = Days(Charged(k)) + row.days
              /\ was /\ ~is => Days(Charged(k)) = row.days + Days(Charged(k))'
<1> DEFINE was == requests[r].status = "APPROVED" /\ IsPaid(row) /\ KeyOf(row) = k
           is  == row.status = "APPROVED" /\ IsPaid(row) /\ KeyOf(row) = k
           days == [q \in Requests |-> requests[q].days]
           before == Charged(k)
           after  == Charged(k)'
<1>1. /\ row # NoRow /\ requests[r] # NoRow
      /\ IsPaid(row) = IsPaid(requests[r]) /\ KeyOf(row) = KeyOf(requests[r])
  BY DEF SameRequest, Row, NoRow, Statuses, Pending, IsPaid, KeyOf
<1>2. after = IF is THEN before \cup {r} ELSE before \ {r}
  BY <1>1 DEF Charged, Exists, SerialInv, IInv, TypeOK
<1>3. r \in before <=> was
  BY <1>1 DEF Charged, Exists
<1>4. \A q \in Requests : requests'[q].days = requests[q].days
  BY DEF SameRequest, SerialInv, IInv, TypeOK
<1>5. before \subseteq Requests /\ after \subseteq Requests
  BY DEF Charged
<1>6. IsFiniteSet(before) /\ IsFiniteSet(after)
  <2>1. IsFiniteSet(before)
    BY DEF SerialInv
  <2> HIDE DEF before, after, is
  <2>2. IsFiniteSet(before \cup {r}) /\ IsFiniteSet(before \ {r})
    BY <2>1, FS_AddElement, FS_Subset
  <2> QED
    BY <1>2, <2>1, <2>2
<1>7. \A q \in before \cup after : days[q] \in Nat
  BY DEF Charged, SerialInv, IInv, TypeOK, Row, Exists, SameRequest
<1>8. Days(before) = SumOn(days, before)
  <2> DEFINE some == [q \in before |-> requests[q].days]
  <2>1. \A q \in before : some[q] = days[q]
    BY <1>5
  <2> HIDE DEF some, days, before
  <2>2. SumOn(some, before) = SumOn(days, before)
    BY <1>6, <2>1, SumOfSame
  <2> QED
    BY <2>2 DEF Days, some
<1>9. Days(Charged(k))' = SumOn(days, after)
  <2> DEFINE some == [q \in after |-> requests'[q].days]
  <2>1. \A q \in after : some[q] = days[q]
    BY <1>4, <1>5
  <2> HIDE DEF some, days, after
  <2>2. SumOn(some, after) = SumOn(days, after)
    BY <1>6, <2>1, SumOfSame
  <2> QED
    BY <2>2 DEF Days, some, after
<1>10. SumOn(days, before) \in Nat /\ SumOn(days, after) \in Nat
  <2> HIDE DEF days, before, after
  <2> QED
    BY <1>6, <1>7, SumOnType
<1>11. days[r] = row.days
  BY DEF SameRequest
<1> HIDE DEF days, before, after, was, is
<1>12. CASE is <=> was
  <2>1. after = before
    BY <1>2, <1>3, <1>12
  <2> QED
    BY <1>6, <1>8, <1>9, <1>10, <1>12, <2>1 DEF before, after, was, is
<1>13. CASE is /\ ~was
  <2>1. after = before \cup {r} /\ r \notin before
    BY <1>2, <1>3, <1>13
  <2>2. /\ \A q \in before : days[q] \in Int
        /\ days[r] \in Int
    BY <1>7, <2>1
  <2>3. SumOn(days, after) = SumOn(days, before) + days[r]
    BY <1>6, <2>1, <2>2, SumWithRow
  <2> QED
    BY <1>6, <1>8, <1>9, <1>10, <1>11, <1>13, <2>3 DEF before, after, was, is
<1>14. CASE was /\ ~is
  <2>1. after = before \ {r} /\ r \in before
    BY <1>2, <1>3, <1>14
  <2>2. \A q \in before : days[q] \in Int
    BY <1>7
  <2>3. SumOn(days, before) = days[r] + SumOn(days, after)
    BY <1>6, <2>1, <2>2, SumWithout
  <2> QED
    BY <1>6, <1>8, <1>9, <1>10, <1>11, <1>14, <2>3 DEF before, after, was, is
<1> QED
  BY <1>12, <1>13, <1>14

\* A decision never makes a request live again.
LEMMA DecisionNoOverlap ==
    ASSUME SerialInv, NEW r \in Requests, NEW row, SameRequest(row, requests[r]),
           requests' = [requests EXCEPT ![r] = row], Live(row) => Live(requests[r])
    PROVE  NoOverlap'
<1>1. row # NoRow /\ requests[r] # NoRow
  BY DEF SameRequest, Row, NoRow, Statuses, Pending
<1>2. \A q \in Requests :
        /\ requests'[q] # NoRow <=> requests[q] # NoRow
        /\ requests'[q].employee = requests[q].employee
        /\ requests'[q].from = requests[q].from /\ requests'[q].to = requests[q].to
        /\ Live(requests'[q]) => Live(requests[q])
  BY <1>1 DEF SameRequest, SerialInv, IInv, TypeOK
<1> QED
  BY <1>2 DEF SerialInv, NoOverlap, Exists

\* What the replacement of one row is to TwoLayerApproval.
LEMMA Replaced ==
    ASSUME TypeOK, NEW r \in Requests, NEW row, row # NoRow, requests[r] # NoRow,
           requests' = [requests EXCEPT ![r] = row], row.employee = requests[r].employee
    PROVE  LET status == [q \in Requests |-> requests[q].status]
               owner  == [q \in Requests |-> IF Exists(q) THEN UserOf[requests[q].employee] ELSE NoUser]
               first  == [q \in Requests |-> IF Exists(q) THEN requests[q].l1 ELSE NoUser]
               second == [q \in Requests |-> IF Exists(q) THEN requests[q].l2 ELSE NoUser]
           IN /\ status' = [status EXCEPT ![r] = row.status]
              /\ owner'  = owner
              /\ first'  = [first EXCEPT ![r] = row.l1]
              /\ second' = [second EXCEPT ![r] = row.l2]
              /\ row.l1 = requests[r].l1 => first' = first
              /\ row.l2 = requests[r].l2 => second' = second
              /\ status[r] = requests[r].status
              /\ owner[r] = UserOf[row.employee] /\ first[r] = requests[r].l1
  BY DEF TypeOK, Exists

LEMMA DecisionApproves ==
    ASSUME SerialInv, NEW r \in Requests, NEW row, SameRequest(row, requests[r]),
           requests' = [requests EXCEPT ![r] = row],
           \/ \E u \in Approvers : MayApproveL1(requests[r], u)
                 /\ row = [requests[r] EXCEPT !.status = "PENDING_L2", !.l1 = u]
           \/ \E u \in Approvers : MayApproveL2(requests[r], u)
                 /\ row = [requests[r] EXCEPT !.status = "APPROVED", !.l2 = u]
           \/ requests[r].status \in Pending /\ row = [requests[r] EXCEPT !.status = "REJECTED"]
           \/ Live(requests[r]) /\ row = [requests[r] EXCEPT !.status = "CANCELLED"]
    PROVE  Approval!Next
<1> DEFINE status == [q \in Requests |-> requests[q].status]
           owner  == [q \in Requests |-> IF Exists(q) THEN UserOf[requests[q].employee] ELSE NoUser]
           first  == [q \in Requests |-> IF Exists(q) THEN requests[q].l1 ELSE NoUser]
           second == [q \in Requests |-> IF Exists(q) THEN requests[q].l2 ELSE NoUser]
<1>1. /\ requests[r] \in Row /\ row \in Row /\ row.employee = requests[r].employee
      /\ row # NoRow /\ requests[r] # NoRow
  BY NoRowIsNoRow DEF SameRequest
<1>2. /\ status' = [status EXCEPT ![r] = row.status]
      /\ owner' = owner
      /\ first' = [first EXCEPT ![r] = row.l1]
      /\ second' = [second EXCEPT ![r] = row.l2]
      /\ row.l1 = requests[r].l1 => first' = first
      /\ row.l2 = requests[r].l2 => second' = second
      /\ status[r] = requests[r].status
      /\ owner[r] = UserOf[row.employee] /\ first[r] = requests[r].l1
  BY <1>1, Replaced DEF SerialInv, IInv
<1>3. ASSUME NEW u \in Approvers, MayApproveL1(requests[r], u),
             row = [requests[r] EXCEPT !.status = "PENDING_L2", !.l1 = u]
      PROVE  Approval!Next
  <2>1. row.status = "PENDING_L2" /\ row.l1 = u /\ row.l2 = requests[r].l2
    BY <1>1, <1>3 DEF Row
  <2>2. status[r] = "PENDING_L1" /\ u \in Users \ {owner[r]}
    BY <1>1, <1>2, <1>3, LeaveAssumption DEF MayApproveL1
  <2> HIDE DEF status, owner, first, second
  <2>3. Approval!ApproveFirst(r)
    BY <1>2, <2>1, <2>2 DEF Approval!ApproveFirst, status, owner, first, second
  <2> QED
    BY <2>3 DEF Approval!Next
<1>4. ASSUME NEW u \in Approvers, MayApproveL2(requests[r], u),
             row = [requests[r] EXCEPT !.status = "APPROVED", !.l2 = u]
      PROVE  Approval!Next
  <2>1. row.status = "APPROVED" /\ row.l2 = u /\ row.l1 = requests[r].l1
    BY <1>1, <1>4 DEF Row
  <2>2. status[r] = "PENDING_L2" /\ u \in Users \ {owner[r], first[r]}
    BY <1>1, <1>2, <1>4, LeaveAssumption DEF MayApproveL2, MayApproveL2Again
  <2> HIDE DEF status, owner, first, second
  <2>3. Approval!ApproveSecond(r)
    BY <1>2, <2>1, <2>2 DEF Approval!ApproveSecond, status, owner, first, second
  <2> QED
    BY <2>3 DEF Approval!Next
<1>5. CASE requests[r].status \in Pending /\ row = [requests[r] EXCEPT !.status = "REJECTED"]
  <2>1. row.status = "REJECTED" /\ row.l1 = requests[r].l1 /\ row.l2 = requests[r].l2
    BY <1>1, <1>5 DEF Row
  <2> HIDE DEF status, owner, first, second
  <2>2. Approval!Reject(r)
    BY <1>2, <1>5, <2>1 DEF Approval!Reject, Pending, status, owner, first, second
  <2> QED
    BY <2>2 DEF Approval!Next
<1>6. CASE Live(requests[r]) /\ row = [requests[r] EXCEPT !.status = "CANCELLED"]
  <2>1. row.status = "CANCELLED" /\ row.l1 = requests[r].l1 /\ row.l2 = requests[r].l2
    BY <1>1, <1>6 DEF Row
  <2> HIDE DEF status, owner, first, second
  <2>2. Approval!Withdraw(r)
    BY <1>2, <1>6, <2>1 DEF Approval!Withdraw, Pending, Live, status, owner, first, second
  <2> QED
    BY <2>2 DEF Approval!Next
<1> QED
  BY <1>3, <1>4, <1>5, <1>6

\* The step of a handler that reads, or opens a balance: the request tables stay.
LEMMA SerialRead ==
    ASSUME OneAtATime, SerialInv, NEW s \in Sessions, NEW h,
           sess' = [sess EXCEPT ![s] = h], UNCHANGED requests,
           \A k \in Keys : balances'[k].used = balances[k].used,
           Current(h, requests', balances')
    PROVE  AllCurrent' /\ SerialTables
  BY AlonePosition, SameCharges DEF SerialInv, IInv

LEMMA OpenedIsUnused ==
    ASSUME SerialInv, NEW k \in Keys, balances' = [balances EXCEPT ![k] = BalanceOrNew(k)]
    PROVE  /\ \A j \in Keys : balances'[j].used = balances[j].used
           /\ balances'[k] = BalanceOrNew(k)
           /\ \A j \in Keys : balances[j] # NoBalance => balances'[j] = balances[j]
  BY DEF SerialInv, IInv, TypeOK, BalanceOrNew, NoBalance

LEMMA DatesAreNumbers == \A d \in Dates : d \in Int
  BY LeaveAssumption

LEMMA CreateSerial ==
    ASSUME OneAtATime, SerialInv, NEW s \in Sessions, Create(s)
    PROVE  AllCurrent' /\ SerialTables
<1>1. ASSUME NEW e \in Employees, NEW t \in LeaveTypes, NEW from \in Dates, NEW to \in Dates,
             CreateLoad(s, e, t, from, to)
      PROVE  AllCurrent' /\ SerialTables
  <2> DEFINE h == [op |-> "create", pc |-> IF t \in PaidTypes THEN "balance" ELSE "overlap",
                   employee |-> e, type |-> t, from |-> from, to |-> to]
  <2>1. Current(h, requests', balances')
    BY DEF Current
  <2> QED
    BY <1>1, <2>1, SerialRead DEF CreateLoad
<1>2. ASSUME sess[s].op = "create" PROVE sess[s] \in CreateStates
  BY <1>2 DEF SerialInv, IInv, TypeOK, SessionStates, Idle, CreateStates, Layer1States,
              Layer2States, RejectStates, CancelStates
<1>3. CASE CreateCheckBalance(s)
  <2>1. sess[s] \in CreateStates
    BY <1>2, <1>3 DEF CreateCheckBalance
  <2>2. KeyOf(sess[s]) \in Keys
    BY <2>1, LeaveAssumption, KeyOfType DEF CreateStates
  <2>3. PICK h \in {Idle, [sess[s] EXCEPT !.pc = "overlap"]} :
           /\ sess' = [sess EXCEPT ![s] = h] /\ UNCHANGED requests
           /\ balances' = [balances EXCEPT ![KeyOf(sess[s])] = BalanceOrNew(KeyOf(sess[s]))]
    BY <1>3 DEF CreateCheckBalance
  <2>4. Current(h, requests', balances')
    BY <2>1, <2>3 DEF Current, Idle, CreateStates
  <2> QED
    BY <2>2, <2>3, <2>4, OpenedIsUnused, SerialRead
<1>4. CASE CreateCheckOverlap(s)
  <2> DEFINE clash == \E r \in Requests : /\ Exists(r) /\ Live(requests[r])
                                          /\ Overlap(requests[r], sess[s])
             h == IF clash THEN Idle ELSE [sess[s] EXCEPT !.pc = "insert"]
  <2>1. sess[s] \in CreateStates
    BY <1>2, <1>4 DEF CreateCheckOverlap
  <2>2. sess' = [sess EXCEPT ![s] = h] /\ UNCHANGED <<requests, balances>>
    BY <1>4 DEF CreateCheckOverlap
  <2>3. Current(h, requests, balances)
    BY <2>1 DEF Current, Idle, CreateStates, Overlap, Exists
  <2> HIDE DEF h
  <2> QED
    BY <2>2, <2>3, SerialRead
<1>5. ASSUME NEW r \in Requests, CreateCommit(s, r) PROVE AllCurrent' /\ SerialTables
  <2> DEFINE q == sess[s]
             row == [status |-> "PENDING_L1", employee |-> q.employee, type |-> q.type,
                     from |-> q.from, to |-> q.to, days |-> BusinessDays(q.from, q.to),
                     l1 |-> NoUser, l2 |-> NoUser]
  <2>1. /\ q \in CreateStates
        /\ \A o \in Requests : ~(Exists(o) /\ Live(requests[o]) /\ Overlap(requests[o], q))
    BY <1>2, <1>5 DEF CreateCommit, SerialInv, AllCurrent, Current, Exists
  <2>2. row \in Row /\ row # NoRow
    <3>1. row \in Row
      BY <2>1, LeaveAssumption, BusinessDaysNat DEF CreateStates, Row, Statuses, Pending
    <3> QED
      BY <3>1, NoRowIsNoRow
  <2>3. /\ requests' = [requests EXCEPT ![r] = row]
        /\ requests[r] = NoRow
        /\ sess' = [sess EXCEPT ![s] = Idle]
        /\ UNCHANGED balances
    BY <1>5 DEF CreateCommit, Exists
  <2>4. AllCurrent'
    BY <2>3, IdleIsCurrent, AlonePosition DEF SerialInv, IInv
  <2>5. /\ row.status = "PENDING_L1" /\ row.employee = q.employee
        /\ row.from = q.from /\ row.to = q.to
        /\ row.l1 = NoUser /\ row.l2 = NoUser
    OBVIOUS
  <2>6. q.employee \in Employees /\ q.from \in Dates /\ q.to \in Dates
    BY <2>1, LeaveAssumption DEF CreateStates
  <2> HIDE DEF q, row
  <2>7. \A o \in Requests : requests'[o] = IF o = r THEN row ELSE requests[o]
    BY <2>3 DEF SerialInv, IInv, TypeOK
  <2>8. NoOverlap'
    <3> SUFFICES ASSUME NEW r1 \in Requests, NEW r2 \in Requests, NEW d \in Dates, r1 # r2,
                        Exists(r1)', Live(requests'[r1]),
                        requests'[r1].from <= d, d <= requests'[r1].to,
                        Exists(r2)', Live(requests'[r2]),
                        requests'[r2].from <= d, d <= requests'[r2].to
                 PROVE  requests'[r1].employee # requests'[r2].employee
      BY DEF NoOverlap
    <3>1. ASSUME NEW o \in Requests, o # r, Exists(o)', Live(requests'[o]),
                 requests'[o].from <= d, d <= requests'[o].to, row.from <= d, d <= row.to
          PROVE  requests'[o].employee # row.employee
      <4>1. requests'[o] = requests[o] /\ Exists(o) /\ Live(requests[o])
        BY <2>7, <3>1 DEF Exists
      <4>2. requests[o] \in Row
        BY <4>1 DEF SerialInv, IInv, TypeOK, Exists
      <4>3. requests[o].to >= q.from /\ requests[o].from <= q.to
        <5>1. requests[o].from <= d /\ d <= requests[o].to /\ q.from <= d /\ d <= q.to
          BY <2>5, <3>1, <4>1
        <5>2. requests[o].from \in Dates /\ requests[o].to \in Dates
          BY <4>2 DEF Row
        <5>3. /\ requests[o].from \in Int /\ requests[o].to \in Int
              /\ q.from \in Int /\ q.to \in Int /\ d \in Int
          BY <2>6, <5>2, DatesAreNumbers
        <5> QED
          BY <5>1, <5>3
      <4>4. ~Overlap(requests[o], q)
        BY <2>1, <4>1
      <4>5. requests[o].employee # q.employee
        BY <4>3, <4>4 DEF Overlap
      <4> QED
        BY <2>5, <4>1, <4>5
    <3>2. CASE r1 = r
      BY <2>7, <3>1, <3>2
    <3>3. CASE r2 = r
      BY <2>7, <3>1, <3>3
    <3>4. CASE r1 # r /\ r2 # r
      BY <2>7, <3>4 DEF SerialInv, NoOverlap, Exists
    <3> QED
      BY <3>2, <3>3, <3>4
  <2>9. \A k \in Keys : Charged(k)' = Charged(k) /\ \A o \in Charged(k) : requests'[o] = requests[o]
    BY <2>2, <2>3, <2>5, <2>7 DEF Charged, Exists
  <2>10. BalanceMatchesApproved'
    BY <2>3, <2>9 DEF SerialInv, BalanceMatchesApproved, Days
  <2>11. Approval!Ask(r)
    <3>1. \A o \in Requests : Exists(o)' = (o = r \/ Exists(o))
      BY <2>2, <2>7 DEF Exists
    <3>2. UserOf[q.employee] \in Users /\ NoRow.status = "NONE"
      BY <2>6, LeaveAssumption DEF NoRow
    <3>3. ~Exists(r) /\ requests[r].status = "NONE"
      BY <2>3, <3>2 DEF Exists
    <3> QED
      BY <2>5, <2>7, <3>1, <3>2, <3>3 DEF Approval!Ask
  <2> QED
    BY <2>4, <2>8, <2>9, <2>10, <2>11 DEF SerialTables, Approval!Next, SerialInv
<1> QED
  BY <1>1, <1>3, <1>4, <1>5 DEF Create

\* A decision that leaves the charges alone needs no balance.
LEMMA UnchargedDecision ==
    ASSUME SerialInv, NEW r \in Requests, NEW row, SameRequest(row, requests[r]),
           requests' = [requests EXCEPT ![r] = row], UNCHANGED balances,
           IsPaid(row) => (row.status = "APPROVED" <=> requests[r].status = "APPROVED")
                          \/ row.days = 0
    PROVE  BalanceMatchesApproved' /\ \A k \in Keys : IsFiniteSet(Charged(k)')
<1> SUFFICES ASSUME NEW k \in Keys
             PROVE  IsFiniteSet(Charged(k)') /\ balances'[k].used = Days(Charged(k))'
  BY DEF BalanceMatchesApproved
<1> DEFINE was == requests[r].status = "APPROVED" /\ IsPaid(row) /\ KeyOf(row) = k
           is  == row.status = "APPROVED" /\ IsPaid(row) /\ KeyOf(row) = k
<1>1. /\ IsFiniteSet(Charged(k)')
      /\ Days(Charged(k)) \in Nat /\ Days(Charged(k))' \in Nat
      /\ (is <=> was) => Days(Charged(k))' = Days(Charged(k))
      /\ is /\ ~was => Days(Charged(k))' = Days(Charged(k)) + row.days
      /\ was /\ ~is => Days(Charged(k)) = row.days + Days(Charged(k))'
  BY DecisionCharges
<1>2. (is <=> was) \/ row.days = 0
  OBVIOUS
<1>3. balances[k].used = Days(Charged(k))
  BY DEF SerialInv, BalanceMatchesApproved
<1> HIDE DEF was, is
<1> QED
  BY <1>1, <1>2, <1>3

\* A decision that charges or refunds writes the number that the new sum is.
LEMMA ChargedDecision ==
    ASSUME SerialInv, NEW r \in Requests, NEW row, SameRequest(row, requests[r]),
           requests' = [requests EXCEPT ![r] = row], IsPaid(row), NEW used,
           balances' = [balances EXCEPT ![KeyOf(row)].used = used],
           \/ /\ requests[r].status # "APPROVED" /\ row.status = "APPROVED"
              /\ used = balances[KeyOf(row)].used + row.days
           \/ /\ requests[r].status = "APPROVED" /\ row.status # "APPROVED"
              /\ used = balances[KeyOf(row)].used - row.days
    PROVE  BalanceMatchesApproved' /\ \A k \in Keys : IsFiniteSet(Charged(k)')
<1> SUFFICES ASSUME NEW k \in Keys
             PROVE  IsFiniteSet(Charged(k)') /\ balances'[k].used = Days(Charged(k))'
  BY DEF BalanceMatchesApproved
<1> DEFINE was == requests[r].status = "APPROVED" /\ IsPaid(row) /\ KeyOf(row) = k
           is  == row.status = "APPROVED" /\ IsPaid(row) /\ KeyOf(row) = k
<1>1. /\ IsFiniteSet(Charged(k)')
      /\ Days(Charged(k)) \in Nat /\ Days(Charged(k))' \in Nat
      /\ (is <=> was) => Days(Charged(k))' = Days(Charged(k))
      /\ is /\ ~was => Days(Charged(k))' = Days(Charged(k)) + row.days
      /\ was /\ ~is => Days(Charged(k)) = row.days + Days(Charged(k))'
  BY DecisionCharges
<1>2. row.days \in Nat
  BY DEF SameRequest, Row
<1>3. balances[k].used = Days(Charged(k))
  BY DEF SerialInv, BalanceMatchesApproved
<1>4. CASE KeyOf(row) # k
  <2>1. balances'[k].used = balances[k].used
    BY <1>4 DEF SerialInv, IInv, TypeOK
  <2> QED
    BY <1>1, <1>3, <1>4, <2>1
<1>5. CASE KeyOf(row) = k
  <2>1. balances'[k].used = used
    BY <1>5 DEF SerialInv, IInv, TypeOK, BalanceRow, NoBalance
  <2>2. \/ is /\ ~was /\ used = balances[k].used + row.days
        \/ was /\ ~is /\ used = balances[k].used - row.days
    BY <1>5
  <2> HIDE DEF is, was
  <2> QED
    BY <1>1, <1>2, <1>3, <2>1, <2>2
<1> QED
  BY <1>4, <1>5

\* The approvals, one handler at a time.
LEMMA ApproveSerial ==
    ASSUME OneAtATime, SerialInv, NEW s \in Sessions, ApproveL1(s) \/ ApproveL2(s)
    PROVE  AllCurrent' /\ SerialTables
<1>1. ASSUME NEW h, sess' = [sess EXCEPT ![s] = h], UNCHANGED <<requests, balances>>,
             Current(h, requests, balances)
      PROVE  AllCurrent' /\ SerialTables
  BY <1>1, SerialRead
<1>2. ASSUME NEW r \in Requests, NEW u \in Approvers, ApproveL1Load(s, r, u)
      PROVE  AllCurrent' /\ SerialTables
  <2> DEFINE h == [op |-> "approve_l1", request |-> r, user |-> u]
  <2>1. Current(h, requests, balances)
    BY <1>2 DEF Current, ApproveL1Load
  <2> QED
    BY <1>1, <1>2, <2>1 DEF ApproveL1Load
<1>3. ASSUME NEW r \in Requests, NEW u \in Approvers, ApproveL2Load(s, r, u)
      PROVE  AllCurrent' /\ SerialTables
  <2> DEFINE h == [op |-> "approve_l2",
                   pc |-> IF IsPaid(requests[r]) THEN "balance" ELSE "commit",
                   request |-> r, user |-> u, used |-> 0]
  <2>1. Current(h, requests, balances)
    BY <1>3 DEF Current, ApproveL2Load
  <2> QED
    BY <1>1, <1>3, <2>1 DEF ApproveL2Load
<1>4. CASE ApproveL1Commit(s)
  <2> DEFINE r   == sess[s].request
             row == [requests[r] EXCEPT !.status = "PENDING_L2", !.l1 = sess[s].user]
  <2>1. /\ sess[s] \in Layer1States
        /\ r \in Requests /\ requests[r] \in Row /\ requests[r] # NoRow
        /\ MayApproveL1(requests[r], sess[s].user)
    BY <1>4, HeldRow DEF ApproveL1Commit, SerialInv, IInv, TypeOK, AllCurrent, Current,
       SessionStates, Idle, CreateStates, Layer1States, Layer2States, RejectStates, CancelStates
  <2>2. sess[s].user \in Approvers
    BY <2>1 DEF Layer1States
  <2>3. /\ SameRequest(row, requests[r]) /\ row.status = "PENDING_L2"
        /\ Live(requests[r]) /\ requests[r].status # "APPROVED"
    BY <2>1, <2>2, LeaveAssumption
       DEF SameRequest, Row, Statuses, Pending, MayApproveL1, Live
  <2>4. /\ requests' = [requests EXCEPT ![r] = row]
        /\ sess' = [sess EXCEPT ![s] = Idle] /\ UNCHANGED balances
    BY <1>4, <2>1 DEF ApproveL1Commit, SerialInv, IInv, TypeOK
  <2>5. Approval!Next
    BY <2>1, <2>2, <2>3, <2>4, DecisionApproves
  <2> HIDE DEF r, row
  <2>6. NoOverlap' /\ BalanceMatchesApproved' /\ \A k \in Keys : IsFiniteSet(Charged(k)')
    BY <2>1, <2>3, <2>4, DecisionNoOverlap, UnchargedDecision
  <2>7. AllCurrent'
    BY <2>4, IdleIsCurrent, AlonePosition DEF SerialInv, IInv
  <2> QED
    BY <2>5, <2>6, <2>7 DEF SerialTables
<1>5. ASSUME sess[s].op = "approve_l2"
      PROVE  /\ sess[s] \in Layer2States
             /\ sess[s].request \in Requests
             /\ requests[sess[s].request] \in Row /\ requests[sess[s].request] # NoRow
             /\ KeyOf(requests[sess[s].request]) \in Keys
             /\ MayApproveL2(requests[sess[s].request], sess[s].user)
             /\ sess[s].user \in Approvers
  <2>1. sess[s] \in Layer2States
    BY <1>5 DEF SerialInv, IInv, TypeOK,
       SessionStates, Idle, CreateStates, Layer1States, Layer2States, RejectStates, CancelStates
  <2>2. MayApproveL2(requests[sess[s].request], sess[s].user)
    BY <1>5 DEF SerialInv, AllCurrent, Current
  <2> QED
    BY <1>5, <2>1, <2>2, HeldRow DEF SerialInv, Layer2States
<1>6. CASE ApproveL2CheckBalance(s)
  <2> DEFINE q == requests[sess[s].request]
             b == BalanceOrNew(KeyOf(q))
             charged == [sess[s] EXCEPT !.pc = "commit", !.used = b.used + q.days]
  <2>1. /\ sess[s] \in Layer2States /\ KeyOf(q) \in Keys
        /\ MayApproveL2(q, sess[s].user)
    BY <1>5, <1>6 DEF ApproveL2CheckBalance
  <2>2. b # NoBalance
    BY <2>1, BalanceOrNewType DEF SerialInv, IInv, TypeOK
  <2>3. PICK h \in {Idle, charged} :
           /\ sess' = [sess EXCEPT ![s] = h] /\ UNCHANGED requests
           /\ balances' = [balances EXCEPT ![KeyOf(q)] = b]
    BY <1>6 DEF ApproveL2CheckBalance, SerialInv, IInv, TypeOK
  <2>4. balances'[KeyOf(q)] = b /\ \A k \in Keys : balances'[k].used = balances[k].used
    BY <2>1, <2>3, OpenedIsUnused
  <2>5. CASE h = Idle
    BY <2>3, <2>4, <2>5, IdleIsCurrent, SerialRead
  <2>6. CASE h = charged
    <3>1. /\ h.op = "approve_l2" /\ h.request = sess[s].request /\ h.user = sess[s].user
          /\ h.pc = "commit" /\ h.used = b.used + q.days
      BY <2>1, <2>6 DEF Layer2States
    <3> HIDE DEF b, charged
    <3>2. Current(h, requests', balances')
      BY <2>1, <2>2, <2>3, <2>4, <3>1 DEF Current
    <3> QED
      BY <2>3, <2>4, <3>2, SerialRead
  <2> QED
    BY <2>3, <2>5, <2>6
<1>7. CASE ApproveL2Commit(s)
  <2> DEFINE r   == sess[s].request
             row == [requests[r] EXCEPT !.status = "APPROVED", !.l2 = sess[s].user]
             k   == KeyOf(requests[r])
  <2>1. /\ r \in Requests /\ requests[r] \in Row /\ k \in Keys
        /\ MayApproveL2(requests[r], sess[s].user) /\ sess[s].user \in Approvers
    BY <1>5, <1>7 DEF ApproveL2Commit
  <2>2. /\ SameRequest(row, requests[r]) /\ row.status = "APPROVED"
        /\ Live(requests[r]) /\ requests[r].status # "APPROVED"
        /\ KeyOf(row) = k /\ IsPaid(row) = IsPaid(requests[r])
    BY <2>1, LeaveAssumption DEF SameRequest, Row, Statuses, Pending, MayApproveL2,
       MayApproveL2Again, Live, KeyOf, IsPaid
  <2>3. /\ requests' = [requests EXCEPT ![r] = row]
        /\ sess' = [sess EXCEPT ![s] = Idle]
        /\ balances' = IF IsPaid(requests[r])
                       THEN [balances EXCEPT ![k].used = sess[s].used] ELSE balances
    BY <1>7, <2>1 DEF ApproveL2Commit, SerialInv, IInv, TypeOK
  <2>4. IsPaid(requests[r]) => sess[s].used = balances[k].used + row.days
    BY <1>7, <2>2 DEF ApproveL2Commit, SerialInv, AllCurrent, Current, SameRequest
  <2>5. Approval!Next
    BY <2>1, <2>2, <2>3, DecisionApproves
  <2> HIDE DEF r, row, k
  <2>6. NoOverlap'
    BY <2>1, <2>2, <2>3, DecisionNoOverlap
  <2>7. BalanceMatchesApproved' /\ \A j \in Keys : IsFiniteSet(Charged(j)')
    BY <2>1, <2>2, <2>3, <2>4, ChargedDecision, UnchargedDecision
  <2>8. AllCurrent'
    BY <2>3, IdleIsCurrent, AlonePosition DEF SerialInv, IInv
  <2> QED
    BY <2>5, <2>6, <2>7, <2>8 DEF SerialTables
<1> QED
  BY <1>2, <1>3, <1>4, <1>6, <1>7 DEF ApproveL1, ApproveL2

\* What is charged includes the days of each approved request.
LEMMA ChargedIncludes ==
    ASSUME SerialInv, NEW r \in Requests, requests[r] \in Row,
           requests[r].status = "APPROVED", IsPaid(requests[r])
    PROVE  requests[r].days <= balances[KeyOf(requests[r])].used
<1> DEFINE k == KeyOf(requests[r])
           some == Charged(k)
           days == [q \in some |-> requests[q].days]
<1>1. r \in some /\ k \in Keys
  BY NoRowIsNoRow, KeyOfType DEF Charged, Exists, Row
<1>2. IsFiniteSet(some) /\ balances[k].used = SumOn(days, some)
  BY <1>1 DEF SerialInv, BalanceMatchesApproved, Days
<1>3. \A q \in some : days[q] \in Nat
  BY DEF Charged, Exists, SerialInv, IInv, TypeOK, Row
<1>4. days[r] = requests[r].days
  BY <1>1
<1> HIDE DEF some, days, k
<1>5. IsFiniteSet(some \ {r}) /\ \A q \in some \ {r} : days[q] \in Nat
  BY <1>2, <1>3, FS_Subset
<1>6. SumOn(days, some \ {r}) \in Nat
  BY <1>5, SumOnType
<1>7. \A q \in some : days[q] \in Int
  BY <1>3
<1>8. SumOn(days, some) = days[r] + SumOn(days, some \ {r})
  BY <1>1, <1>2, <1>7, SumWithout
<1>9. days[r] \in Nat
  BY <1>1, <1>3
<1>10. requests[r].days <= balances[k].used
  BY <1>2, <1>4, <1>6, <1>8, <1>9
<1> QED
  BY <1>10 DEF k

\* Rejection and cancellation, one handler at a time.
LEMMA CloseSerial ==
    ASSUME OneAtATime, SerialInv, NEW s \in Sessions, Reject(s) \/ Cancel(s)
    PROVE  AllCurrent' /\ SerialTables
<1>1. ASSUME NEW h, sess' = [sess EXCEPT ![s] = h], UNCHANGED <<requests, balances>>,
             Current(h, requests, balances)
      PROVE  AllCurrent' /\ SerialTables
  BY <1>1, SerialRead
<1>2. ASSUME NEW r \in Requests, RejectLoad(s, r) PROVE AllCurrent' /\ SerialTables
  <2> DEFINE h == [op |-> "reject", request |-> r]
  <2>1. Current(h, requests, balances)
    BY <1>2 DEF Current, RejectLoad
  <2> QED
    BY <1>1, <1>2, <2>1 DEF RejectLoad
<1>3. ASSUME NEW r \in Requests, CancelLoad(s, r) PROVE AllCurrent' /\ SerialTables
  <2> DEFINE h == [op |-> "cancel",
                   pc |-> IF requests[r].status = "APPROVED" /\ IsPaid(requests[r])
                          THEN "balance" ELSE "commit",
                   request |-> r, used |-> 0]
  <2>1. Current(h, requests, balances)
    BY <1>3 DEF Current, CancelLoad
  <2> QED
    BY <1>1, <1>3, <2>1 DEF CancelLoad
<1>4. ASSUME sess[s].op \in {"reject", "cancel"}
      PROVE  /\ sess[s].op = "reject" => sess[s] \in RejectStates
             /\ sess[s].op = "cancel" => sess[s] \in CancelStates
             /\ sess[s].request \in Requests
             /\ requests[sess[s].request] \in Row /\ requests[sess[s].request] # NoRow
             /\ KeyOf(requests[sess[s].request]) \in Keys
             /\ Current(sess[s], requests, balances)
  <2>1. /\ sess[s].op = "reject" => sess[s] \in RejectStates
        /\ sess[s].op = "cancel" => sess[s] \in CancelStates
    BY <1>4 DEF SerialInv, IInv, TypeOK,
       SessionStates, Idle, CreateStates, Layer1States, Layer2States, RejectStates, CancelStates
  <2>2. Current(sess[s], requests, balances)
    BY DEF SerialInv, AllCurrent
  <2> QED
    BY <1>4, <2>1, <2>2, HeldRow DEF SerialInv
<1>5. CASE CancelReadBalance(s)
  <2> DEFINE q    == requests[sess[s].request]
             b    == balances[KeyOf(q)]
             back == Refunded(q, b)
             pc   == IF b = NoBalance \/ back = b.used THEN "commit" ELSE "refund"
             h    == [sess[s] EXCEPT !.pc = pc, !.used = back]
  <2>1. /\ sess[s] \in CancelStates /\ sess[s].request \in Requests /\ q \in Row
        /\ KeyOf(q) \in Keys /\ Live(q) /\ q.status = "APPROVED" /\ IsPaid(q)
    BY <1>4, <1>5 DEF CancelReadBalance, Current
  <2>2. b.used \in Nat /\ q.days \in Nat
    BY <2>1 DEF SerialInv, IInv, TypeOK, BalanceRow, NoBalance, Row
  <2>3. q.days <= b.used
    BY <2>1, ChargedIncludes
  <2>4. back = b.used - q.days
    <3> HIDE DEF b, q
    <3> USE DEF Refunded
    <3>1. b.used - q.days \in Nat
      BY <2>2, <2>3
    <3> QED
      BY <3>1, MaxOfZeroAnd
  <2>5. pc = "commit" => q.days = 0
    <3>1. b = NoBalance => b.used = 0
      BY DEF NoBalance
    <3> HIDE DEF b, q, back
    <3> QED
      BY <2>2, <2>3, <2>4, <3>1
  <2>6. pc = "refund" => b # NoBalance
    OBVIOUS
  <2>7. sess' = [sess EXCEPT ![s] = h] /\ UNCHANGED <<requests, balances>>
    BY <1>5, <2>1 DEF CancelReadBalance, SerialInv, IInv, TypeOK, CancelStates
  <2>8. /\ h.op = "cancel" /\ h.request = sess[s].request /\ h.pc = pc /\ h.used = back
        /\ pc \in {"commit", "refund"}
    <3> HIDE DEF b, q, back
    <3> QED
      BY <2>1 DEF CancelStates
  <2>9. Current(h, requests, balances)
    <3> HIDE DEF h, back, pc
    <3> QED
      BY <2>1, <2>4, <2>5, <2>6, <2>8 DEF Current
  <2> HIDE DEF h
  <2> QED
    BY <1>1, <2>7, <2>9
<1>6. CASE RejectCommit(s) \/ CancelCommit(s)
  <2> DEFINE r   == sess[s].request
             k   == KeyOf(requests[r])
             new == IF sess[s].op = "reject" THEN "REJECTED" ELSE "CANCELLED"
             row == [requests[r] EXCEPT !.status = new]
             refund == sess[s].op = "cancel" /\ sess[s].pc = "refund"
  <2>1. /\ r \in Requests /\ requests[r] \in Row /\ k \in Keys
        /\ Current(sess[s], requests, balances)
        /\ sess[s].op = "cancel" => sess[s].pc \in {"commit", "refund"}
    BY <1>4, <1>6 DEF RejectCommit, CancelCommit
  <2>2. /\ SameRequest(row, requests[r]) /\ row.status = new
        /\ new \in {"REJECTED", "CANCELLED"} /\ ~Live(row)
        /\ KeyOf(row) = k /\ IsPaid(row) = IsPaid(requests[r])
    BY <2>1 DEF SameRequest, Row, Statuses, Pending, Live, KeyOf, IsPaid
  <2>3. /\ requests' = [requests EXCEPT ![r] = row]
        /\ sess' = [sess EXCEPT ![s] = Idle]
        /\ balances' = IF refund THEN [balances EXCEPT ![k].used = sess[s].used] ELSE balances
    BY <1>6, <2>1 DEF RejectCommit, CancelCommit, SerialInv, IInv, TypeOK
  <2>4. /\ new = "REJECTED" => requests[r].status \in Pending
        /\ new = "CANCELLED" => Live(requests[r])
    BY <1>6, <2>1 DEF RejectCommit, CancelCommit, Current
  <2>5. Approval!Next
    BY <2>1, <2>2, <2>3, <2>4, DecisionApproves
  <2>6. requests[r].days = row.days
    BY <2>2 DEF SameRequest
  <2>7. refund => /\ requests[r].status = "APPROVED" /\ IsPaid(row)
                  /\ sess[s].used = balances[k].used - row.days
    BY <2>1, <2>2, <2>6 DEF Current
  <2>8. ~refund => (IsPaid(row) => requests[r].status # "APPROVED" \/ row.days = 0)
    BY <1>6, <2>1, <2>2, <2>6 DEF Current, RejectCommit, CancelCommit, Pending
  <2>9. row.status # "APPROVED"
    BY <2>2
  <2> HIDE DEF r, row, k, refund, new
  <2>10. NoOverlap'
    BY <2>1, <2>2, <2>3, DecisionNoOverlap
  <2>11. BalanceMatchesApproved' /\ \A j \in Keys : IsFiniteSet(Charged(j)')
    <3>1. CASE refund
      BY <2>1, <2>2, <2>3, <2>7, <2>9, <3>1, ChargedDecision
    <3>2. CASE ~refund
      BY <2>1, <2>2, <2>3, <2>8, <2>9, <3>2, UnchargedDecision
    <3> QED
      BY <3>1, <3>2
  <2>12. AllCurrent'
    BY <2>3, IdleIsCurrent, AlonePosition DEF SerialInv, IInv
  <2> QED
    BY <2>5, <2>10, <2>11, <2>12 DEF SerialTables
<1> QED
  BY <1>2, <1>3, <1>5, <1>6 DEF Reject, Cancel

LEMMA SerialStep ==
    ASSUME OneAtATime, SerialInv, [Next]_vars
    PROVE  SerialInv' /\ (Approval!Next \/ UNCHANGED Approval!vars)
<1>1. ASSUME NEW k \in Keys, OpenBalance(k) PROVE AllCurrent' /\ SerialTables
  <2>1. /\ balances' = [balances EXCEPT ![k] = BalanceOrNew(k)]
        /\ UNCHANGED <<requests, sess>>
    BY <1>1 DEF OpenBalance
  <2>2. /\ \A j \in Keys : balances'[j].used = balances[j].used
        /\ \A j \in Keys : balances[j] # NoBalance => balances'[j] = balances[j]
    BY <2>1, OpenedIsUnused
  <2>3. AllCurrent'
    <3> SUFFICES ASSUME NEW s \in Sessions PROVE Current(sess[s], requests, balances')
      BY <2>1 DEF AllCurrent
    <3>1. Current(sess[s], requests, balances)
      BY DEF SerialInv, AllCurrent
    <3>2. sess[s].op \notin {"idle", "create"} => KeyOf(requests[sess[s].request]) \in Keys
      BY HeldRow DEF SerialInv
    <3> QED
      BY <2>2, <3>1, <3>2 DEF Current
  <2> QED
    BY <2>1, <2>2, <2>3, SameCharges
<1>2. ASSUME NEW s \in Sessions, Create(s) \/ Decide(s) PROVE AllCurrent' /\ SerialTables
  BY <1>2, CreateSerial, ApproveSerial, CloseSerial DEF Decide
<1>3. ASSUME NEW s \in Sessions, Abort(s) PROVE AllCurrent' /\ SerialTables
  BY <1>3, IdleIsCurrent, SerialRead DEF Abort
<1>4. ASSUME UNCHANGED vars PROVE AllCurrent' /\ SerialTables
  <2>1. AllCurrent'
    BY <1>4 DEF vars, SerialInv, AllCurrent
  <2>2. SerialTables
    BY <1>4, SameCharges DEF vars
  <2> QED
    BY <2>1, <2>2
<1>5. AllCurrent' /\ SerialTables
  BY <1>1, <1>2, <1>3, <1>4 DEF Next
<1>6. IInv'
  BY NextInv DEF SerialInv
<1> QED
  BY <1>5, <1>6 DEF SerialInv, SerialTables

LEMMA SerialInit == Init => SerialInv /\ Approval!Init
<1> SUFFICES ASSUME Init PROVE SerialInv /\ Approval!Init
  OBVIOUS
<1>1. IInv
  BY InitInv
<1>2. \A k \in Keys : Charged(k) = {}
  BY DEF Init, Charged, Exists
<1>3. \A k \in Keys : IsFiniteSet(Charged(k))
  BY <1>2, FS_EmptySet
<1>4. BalanceMatchesApproved
  BY <1>2, SumOnNone DEF BalanceMatchesApproved, Days, Init, NoBalance
<1>5. NoOverlap /\ AllCurrent
  BY DEF Init, NoOverlap, AllCurrent, Exists, Current, Idle
<1>6. Approval!Init
  BY DEF Init, Approval!Init, Exists, NoRow
<1> QED
  BY <1>1, <1>3, <1>4, <1>5, <1>6 DEF SerialInv

\* If no two handlers overlap, an employee never has two live requests for one
\* day, whatever the requests, the decisions and the points where they are cut
\* off: the check of create_leave_request still holds when it inserts.
THEOREM SerialNoOverlap ==
    ASSUME OneAtATime PROVE Spec => []NoOverlap
<1>1. SerialInv /\ [Next]_vars => SerialInv'
  BY SerialStep
<1>2. SerialInv => NoOverlap
  BY DEF SerialInv
<1> QED
  BY SerialInit, <1>1, <1>2, PTL DEF Spec

\* If no two handlers overlap, the days charged to every balance are the sum of
\* the days of its approved requests: no deduction is lost or made twice, and a
\* refund gives back what was deducted.
THEOREM SerialBalance ==
    ASSUME OneAtATime PROVE Spec => []BalanceMatchesApproved
<1>1. SerialInv /\ [Next]_vars => SerialInv'
  BY SerialStep
<1>2. SerialInv => BalanceMatchesApproved
  BY DEF SerialInv
<1> QED
  BY SerialInit, <1>1, <1>2, PTL DEF Spec

\* If no two handlers overlap, leave requests implement the two-layer approval
\* of TwoLayerApproval, with any number of requests and approvers.
THEOREM SerialApproval ==
    ASSUME OneAtATime PROVE Spec => ImplementsApproval
<1>1. SerialInv /\ [Next]_vars => SerialInv' /\ [Approval!Next]_(Approval!vars)
  BY SerialStep
<1> QED
  BY SerialInit, <1>1, PTL DEF Spec, ImplementsApproval, Approval!Spec
=============================================================================
