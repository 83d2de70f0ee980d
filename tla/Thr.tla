--------------------------------- MODULE Thr ---------------------------------
(***************************************************************************)
(* THR, the yearly holiday allowance, after backend/app/payroll/thr_service*)
(* and thr_router: a month's basic salary, in proportion to the months     *)
(* worked for those with less than a year.  A date is a record of year,    *)
(* month and day; months are counted in hundredths, as the code rounds     *)
(* them; amounts are in hundredths of the currency.                        *)
(***************************************************************************)
EXTENDS Handlers, Integers, FiniteSets

CONSTANTS
    Employees,    \* active or on probation, with a joined_date
    Joined,       \* employees.joined_date
    Years,        \* thr_year
    References,   \* the reference dates a request may name
    SalaryAt      \* [employee][reference]: the basic salary in force, 0 for none

VARIABLE thr      \* table thr_payments, keyed by its unique constraint

thrVars == <<thr, alone, sess>>

-----------------------------------------------------------------------------
\* calendar.monthrange
DaysIn(d) == CASE d.m \in {4, 6, 9, 11} -> 30
               [] d.m = 2 -> IF d.y % 4 = 0 THEN 29 ELSE 28
               [] OTHER -> 31
Before(a, b) == \/ a.y < b.y
                \/ a.y = b.y /\ a.m < b.m
                \/ a.y = b.y /\ a.m = b.m /\ a.d < b.d
\* n / d rounded to the nearest whole number, n >= 0 (no half occurs below).
Rounded(n, d) == (2 * n + d) \div (2 * d)

\* _months_worked, in hundredths: the difference of the months, and of the days
\* as a fraction of the reference month.
MonthsWorkedNoBorrow(joined, ref) ==
    LET months == 12 * (ref.y - joined.y) + ref.m - joined.m
        days   == ref.d - joined.d
        len    == DaysIn(ref)
        total  == months * len + days + (IF days < 0 THEN len ELSE 0)
    IN IF Before(ref, joined) \/ total <= 0 THEN 0 ELSE Rounded(100 * total, len)
MonthsWorked(joined, ref) ==
    LET months == 12 * (ref.y - joined.y) + ref.m - joined.m
        days   == ref.d - joined.d
        len    == DaysIn(ref)
        total  == months * len + days     \* months - 1 and (len + days) / len if days < 0
    IN IF Before(ref, joined) \/ total <= 0 THEN 0 ELSE Rounded(100 * total, len)

\* _compute_thr_amount: base * min(months / 12, 1)
Amount(base, months) == Rounded(base * 100 * (IF months > 1200 THEN 1200 ELSE months), 1200)

-----------------------------------------------------------------------------
Keys == Employees \X Years
\* ref is not a column: the reference date the row was last computed for.
Row == [status: {"GENERATED", "PAID"}, base: Nat, months: Nat, amount: Nat, ref: References]
NoRow == [status |-> "NONE"]

TypeOK == thr \in [Keys -> Row \cup {NoRow}]
Init   == thr = [k \in Keys |-> NoRow] /\ AllIdle

NewRow(e, ref) ==
    LET base   == SalaryAt[e][ref]
        months == MonthsWorked(Joined[e], ref)
    IN [status |-> "GENERATED", base |-> base, months |-> months,
        amount |-> Amount(base, months), ref |-> ref]
\* Without a salary, or without a day worked, the employee is reported and
\* passed over.  (The docstring of _months_worked, and the error text, have the
\* first month unpaid: see FirstMonthPaysNothing.)
Payable(e, ref) == SalaryAt[e][ref] # 0 /\ MonthsWorked(Joined[e], ref) > 0

\* One employee of generate_thr_bulk, from the row of the year that was loaded.
GeneratedAlways(row, e, ref, overwrite) ==
    IF ~Payable(e, ref) \/ (row # NoRow /\ ~overwrite) THEN row
    ELSE IF row = NoRow THEN NewRow(e, ref)
    ELSE [NewRow(e, ref) EXCEPT !.status = row.status]
Generated(row, e, ref, overwrite) ==
    IF ~Payable(e, ref) \/ (row # NoRow /\ ~overwrite) \/ row.status = "PAID" THEN row
    ELSE NewRow(e, ref)

\* POST /thr/generate: the rows of the year are loaded before the loop.
Generate(s, y, ref, overwrite) ==
    /\ LET rows == [e \in Employees |-> thr[<<e, y>>]] IN
       Begin(s, [op |-> "generate", year |-> y, seen |-> rows,
                 new |-> [e \in Employees |-> Generated(rows[e], e, ref, overwrite)]])
    /\ UNCHANGED thr

\* One commit.  A row that another request has inserted meanwhile violates
\* uq_thr_employee_year, and nothing of this request is kept.
Inserted(s) == {e \in Employees : sess[s].seen[e] = NoRow /\ sess[s].new[e] # NoRow}
GenerateCommit(s) ==
    /\ sess[s].op = "generate"
    /\ LET w     == sess[s]
           clash == \E e \in Inserted(s) : thr[<<e, w.year>>] # NoRow
           Result(e) == IF e \in Inserted(s) THEN w.new[e]
                        ELSE IF w.seen[e] = NoRow THEN thr[<<e, w.year>>]
                        ELSE Merge(thr[<<e, w.year>>], w.seen[e], w.new[e])
       IN thr' = IF clash THEN thr
                 ELSE [k \in Keys |-> IF k[2] = w.year THEN Result(k[1]) ELSE thr[k]]
    /\ Finish(s)

\* mark_thr_paid
MarkPaid(s, k) ==
    /\ thr[k].status = "GENERATED"
    /\ Edit(s, "thr", k, thr[k], [thr[k] EXCEPT !.status = "PAID"])
    /\ UNCHANGED thr

MarkPaidCommit(s) == Editing(s, "thr") /\ thr' = Edited(s, thr) /\ Finish(s)
-----------------------------------------------------------------------------
Step(s) ==
    \/ \E y \in Years, ref \in References, o \in BOOLEAN : Generate(s, y, ref, o)
    \/ GenerateCommit(s)
    \/ \E k \in Keys : MarkPaid(s, k)
    \/ MarkPaidCommit(s)
    \/ Abort(s) /\ UNCHANGED thr

Next == \E s \in Sessions : Step(s)
Spec == Init /\ [][Next]_thrVars
-----------------------------------------------------------------------------
\* How many months after joining have passed, by the calendar.
FullMonths(joined, ref) ==
    LET Index(d) == 12 * d.y + d.m
    IN Cardinality({k \in 1..48 : \/ Index(joined) + k < Index(ref)
                                  \/ Index(joined) + k = Index(ref) /\ joined.d <= ref.d})

\* Every allowance agrees with the calendar: the months it counts lie between
\* the months that have passed and one more, be it the first, and a full year is
\* paid in full.
\* For those who joined on a day that every month has; the code borrows the
\* days of an unfinished month from the reference month, which may be shorter.
\* (For handlers that do not overlap: two overwrites at once each write only
\* the columns they change, and leave the salary of one beside the amount of
\* the other.)
AgreesWithCalendar ==
    alone => \A k \in Keys : thr[k] # NoRow /\ Joined[k[1]].d <= 28 =>
        LET full == FullMonths(Joined[k[1]], thr[k].ref)
        IN /\ 100 * full <= thr[k].months /\ thr[k].months <= 100 * (full + 1)
           /\ full >= 12 <=> thr[k].amount = 100 * thr[k].base

\* The allowance that was transferred stays as it was transferred (for
\* handlers that do not overlap).
PaidStays == [][alone => \A k \in Keys : thr[k].status = "PAID" => thr'[k] = thr[k]]_thrVars

\* What the docstring of _months_worked promises: a full year is paid in full,
\* and somebody who has not worked a full month is not eligible.  The code keeps
\* neither.
FullYearPaysFull ==
    \A k \in Keys : thr[k] # NoRow /\ FullMonths(Joined[k[1]], thr[k].ref) >= 12
        => thr[k].amount = 100 * thr[k].base
FirstMonthPaysNothing ==
    \A k \in Keys : thr[k] # NoRow => FullMonths(Joined[k[1]], thr[k].ref) >= 1
=============================================================================
