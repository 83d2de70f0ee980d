----------------------------- MODULE Contracts -----------------------------
(***************************************************************************)
(* Employment contracts, after the contract functions of                   *)
(* backend/app/organization/service.py: fixed-term (PKWT) and permanent    *)
(* (PKWTT) ones, made, patched, renewed and terminated.                    *)
(***************************************************************************)
EXTENDS Handlers, Integers

CONSTANTS
    Contracts, Workers,   \* primary keys of the contracts, and of the employees
    MaxDay                \* dates are 1 .. MaxDay

VARIABLES
    contracts,            \* table employee_contracts
    employed              \* which employees are not deleted

contractTables == <<contracts, employed>>
contractVars   == <<contractTables, alone, sess>>

Days == 1 .. MaxDay
Open == MaxDay + 1        \* no end date, compared as 9999-12-31
ContractRow == [of: Workers, kind: {"PKWT", "PKWTT"}, start: Days, end: 0 .. Open, active: BOOLEAN]
NoRow == [active |-> FALSE]

TypeOK == contracts \in [Contracts -> ContractRow \cup {NoRow}] /\ employed \in [Workers -> BOOLEAN]
Init == contracts = [c \in Contracts |-> NoRow] /\ employed = [w \in Workers |-> TRUE] /\ AllIdle
-----------------------------------------------------------------------------
ApartByOne(from, to, row) == to < row.start \/ from >= row.end
Apart(from, to, row)      == to < row.start \/ from > row.end
Valid(kind, from, to) == (kind = "PKWT" => to # Open) /\ (to # Open => from < to)
ActiveOf(w) == {c \in Contracts : contracts[c].active /\ contracts[c] # NoRow /\ contracts[c].of = w}
MayCreate(w, kind, from, to) ==
    employed[w] /\ Valid(kind, from, to) /\ \A c \in ActiveOf(w) : Apart(from, to, contracts[c])
New(w, kind, from, to) == [of |-> w, kind |-> kind, start |-> from, end |-> to, active |-> TRUE]
CreateContract(s, w, kind, from, to) == MayCreate(w, kind, from, to) /\ Add(s, "contracts", New(w, kind, from, to))

ChangeContract(s, c, new) == Edit(s, "contracts", c, contracts[c], new)
\* update_contract: any field but the kind and the start, in any state; an end
\* date that is cleared is not looked at.
UpdateContract(s, c, end, active) ==
    /\ contracts[c] # NoRow /\ (end \in {contracts[c].end, Open} \/ end > contracts[c].start)
    /\ ChangeContract(s, c, [contracts[c] EXCEPT !.end = end, !.active = active])
\* terminate_contract
MayTerminate(c, day) == contracts[c].active /\ day >= contracts[c].start
TerminateContract(s, c, day) ==
    MayTerminate(c, day) /\ ChangeContract(s, c, [contracts[c] EXCEPT !.end = day, !.active = FALSE])
\* renew_contract: the old one ends, the day before the new one starts at the latest.
RenewedLate(row, from) == [row EXCEPT !.active = FALSE, !.end = IF from < row.end THEN from - 1 ELSE @]
Renewed(row, from)     == [row EXCEPT !.active = FALSE, !.end = IF from <= row.end THEN from - 1 ELSE @]
RenewContract(s, c, kind, from, to) ==
    /\ contracts[c].active /\ Valid(kind, from, to)
    /\ Begin(s, [op |-> "renew", key |-> c, seen |-> contracts[c], new |-> Renewed(contracts[c], from),
                 next |-> New(contracts[c].of, kind, from, to)])
RenewCommit(s) ==
    /\ sess[s].op = "renew"
    /\ \E c \in Contracts : contracts[c] = NoRow /\ contracts' = [Edited(s, contracts) EXCEPT ![c] = sess[s].next]
    /\ Finish(s) /\ UNCHANGED employed
Commit(s) ==
    /\ \/ Editing(s, "contracts") /\ contracts' = Edited(s, contracts)
       \/ \E c \in Contracts :
             Adding(s, "contracts") /\ contracts[c] = NoRow /\ contracts' = [contracts EXCEPT ![c] = sess[s].new]
    /\ Finish(s) /\ UNCHANGED employed
\* soft_delete_employee, as the contracts see it
Leave(w) == employed[w] /\ employed' = [employed EXCEPT ![w] = FALSE] /\ UNCHANGED <<contracts, handlers>>

Ends == Days \cup {Open}
Request(s) ==
    \/ \E w \in Workers, kind \in {"PKWT", "PKWTT"}, from \in Days, to \in Ends : CreateContract(s, w, kind, from, to)
    \/ \E c \in Contracts :
          \/ \E end \in Ends, active \in BOOLEAN : UpdateContract(s, c, end, active)
          \/ \E day \in Days : TerminateContract(s, c, day)
          \/ \E kind \in {"PKWT", "PKWTT"}, from \in Days, to \in Ends : RenewContract(s, c, kind, from, to)

Step(s) == ((Request(s) \/ Abort(s)) /\ UNCHANGED contractTables) \/ Commit(s) \/ RenewCommit(s)
Next == (\E s \in Sessions : Step(s)) \/ (\E w \in Workers : Leave(w))
Spec == Init /\ [][Next]_contractVars
-----------------------------------------------------------------------------
Meet(a, b) == a.start <= b.end /\ b.start <= a.end
\* A contract that starts, anew or as a renewal, has a term that fits its kind, and
\* shares no day with another one in force at that moment or with the one it
\* renews; a renewal does not look at the other ones (handlers that do not overlap).
NewContractsFit ==
    [][alone => \A c \in Contracts : contracts[c] = NoRow /\ contracts'[c] # NoRow =>
        LET new  == contracts'[c]
            left == {d \in Contracts : contracts[d].active /\ ~contracts'[d].active}
        IN /\ new.kind = "PKWT" => new.start < new.end /\ new.end # Open
           /\ \A d \in left : contracts'[d].end < new.start
           /\ left = {} => \A d \in ActiveOf(new.of) : ~Meet(contracts[d], new)]_contractVars
=============================================================================
