------------------------------ MODULE Salaries ------------------------------
(***************************************************************************)
(* What an employee's slips of one month amount to, after                  *)
(* backend/app/payroll/payroll_service.py and attendance_service.py: the   *)
(* salary in force, the working days, and the three operations that each   *)
(* compute a slip in their own way.  Amounts are in hundredths.  How these *)
(* operations interleave is the subject of PayrollPeriod: here one follows *)
(* the other, and each is one step.                                        *)
(***************************************************************************)
EXTENDS Integers, FiniteSets

CONSTANTS
    Configs,       \* keys of payroll_configs, all of one employee
    Pays,          \* [basic, allowance, health, jht]; percentages in hundredths
    LastDay,       \* the last day of the month, which begins with day 1
    WorkingDays,   \* its weekdays that are no holiday
    Dates,         \* the days on which something is done or takes effect
    Overtimes      \* the overtime hours of an attendance

VARIABLES configs, today, attendance, slip, leaving

salaryVars == <<configs, today, attendance, slip, leaving>>
-----------------------------------------------------------------------------
\* n / d to the nearest whole number, ties to the even one: Decimal.quantize.
\* (A factor is kept to 28 digits before it is multiplied, which may only turn
\* a tie; the instances have none that it turns.)
Nearest(n, d) ==
    LET q == n \div d
        r == n % d
    IN IF 2 * r < d \/ (2 * r = d /\ q % 2 = 0) THEN q ELSE q + 1

\* calculate_period_working_days, and its like in generate_final_payroll up to
\* the last working day.
InMonth == Cardinality(WorkingDays)
WorkedByCalendar(until) == until
Worked(until) == Cardinality({d \in WorkingDays : d <= until})

\* The part of an amount for some of the days, at most the whole.
Part(amount, days) ==
    IF days >= InMonth THEN amount ELSE Nearest(amount * days, InMonth)
\* hours * basic / (8 * days) * 1.5
Overtime(pay, hours) == Nearest(3 * hours * pay.basic, 16 * InMonth)
\* BPJS is taken from the whole salary.
Contributions(pay) == Nearest(pay.basic * pay.health, 10000) + Nearest(pay.basic * pay.jht, 10000)

\* What each operation pays: the calculation for an attendance, the generation
\* for the month, the final payroll until a day.
Total(pay, gross) == [gross |-> gross, deductions |-> Contributions(pay), net |-> gross - Contributions(pay)]
Calculated(pay, att) ==
    Total(pay, Part(pay.basic, att.paid) + pay.allowance + Overtime(pay, att.overtime))
Generated(pay) == Total(pay, pay.basic + pay.allowance)
Final(pay, until) ==
    Total(pay, Part(pay.basic, Worked(until)) + Part(pay.allowance, Worked(until)))
-----------------------------------------------------------------------------
NoRow == [none |-> TRUE]
Row   == [from: Dates, pay: Pays]
Attendances == [paid: 0 .. InMonth, overtime: Overtimes]
Amounts == [gross: Nat, deductions: Nat, net: Int]
Slips   == [by: {"calculate", "generate", "final"}, pay: Pays, att: Attendances,
            until: 1 .. LastDay, total: Amounts]

TypeOK ==
    /\ configs \in [Configs -> Row \cup {NoRow}]
    /\ today \in Dates
    /\ attendance \in Attendances \cup {NoRow}
    /\ {slip, leaving} \subseteq Slips \cup {NoRow}

Init ==
    /\ configs = [c \in Configs |-> NoRow] /\ today \in Dates
    /\ attendance = NoRow /\ slip = NoRow /\ leaving = NoRow

\* get_active_config: the latest that is effective today, one of them if two
\* are effective from one day.
Effective == {configs[c] : c \in Configs} \ {NoRow}
InForce(row) ==
    /\ row \in Effective /\ row.from <= today
    /\ \A other \in Effective : other.from <= today => other.from <= row.from

UpsertConfig(c, row) ==
    /\ configs[c] = NoRow
    /\ configs' = [configs EXCEPT ![c] = row]
    /\ UNCHANGED <<today, attendance, slip, leaving>>

UpdateConfig(c, row) ==
    /\ configs[c] # NoRow
    /\ configs' = [configs EXCEPT ![c] = row]
    /\ UNCHANGED <<today, attendance, slip, leaving>>

Pass(d) == d > today /\ today' = d /\ UNCHANGED <<configs, attendance, slip, leaving>>

\* Attendance is taken until there is a slip, for the working days at most.
EnterAttendance(att) ==
    /\ slip = NoRow
    /\ attendance' = att
    /\ UNCHANGED <<configs, today, slip, leaving>>

\* calculate_payroll
BorneAnyhow(total) == TRUE
Borne(total) == total.net >= 0

Calculate(row) ==
    /\ slip = NoRow /\ leaving = NoRow /\ attendance # NoRow
    /\ InForce(row) /\ Borne(Calculated(row.pay, attendance))
    /\ slip' = [by |-> "calculate", pay |-> row.pay, att |-> attendance, until |-> LastDay,
                total |-> Calculated(row.pay, attendance)]
    /\ UNCHANGED <<configs, today, attendance, leaving>>

\* generate_slips_for_period passes over who has a slip, and refuses no net pay.
Generate(row) ==
    /\ slip = NoRow /\ leaving = NoRow
    /\ InForce(row)
    /\ slip' = [by |-> "generate", pay |-> row.pay, att |-> [paid |-> InMonth, overtime |-> 0],
                until |-> LastDay, total |-> Generated(row.pay)]
    /\ UNCHANGED <<configs, today, attendance, leaving>>

\* generate_final_payroll
GenerateFinal(row, until) ==
    /\ leaving = NoRow
    /\ InForce(row) /\ Borne(Final(row.pay, until))
    /\ leaving' = [by |-> "final", pay |-> row.pay, att |-> [paid |-> Worked(until), overtime |-> 0],
                   until |-> until, total |-> Final(row.pay, until)]
    /\ UNCHANGED <<configs, today, attendance, slip>>

Next ==
    \/ \E d \in Dates : Pass(d)
    \/ \E c \in Configs, row \in Row : UpsertConfig(c, row) \/ UpdateConfig(c, row)
    \/ \E att \in Attendances : EnterAttendance(att)
    \/ \E row \in Row : Calculate(row) \/ Generate(row)
    \/ \E row \in Row, until \in 1 .. LastDay : GenerateFinal(row, until)

Spec == Init /\ [][Next]_salaryVars
-----------------------------------------------------------------------------
Made == {slip, leaving} \ {NoRow}

\* The three operations agree: who was there all month without overtime, or
\* leaves when no working day is left, is paid the whole month by each of them,
\* and nobody else is by the final payroll.
WholeMonthsAgree ==
    \A m \in Made :
        /\ m.att.paid = InMonth /\ m.att.overtime = 0 /\ m.by # "final"
              => m.total = Generated(m.pay)
        /\ m.by = "final" =>
              (m.total = Generated(m.pay) <=> \A d \in WorkingDays : d <= m.until)

\* A salary never becomes a debt: what the calculation and the final payroll
\* store can be paid out, and a final slip pays no more than a monthly one of
\* the same salary with as many days ("block net negative", payroll_service.py).
NothingOwed ==
    /\ \A m \in Made : m.by # "generate" => m.total.net >= 0
    /\ slip # NoRow /\ leaving # NoRow /\ slip.pay = leaving.pay /\ leaving.att.paid <= slip.att.paid
          => leaving.total.net <= slip.total.net

\* Fewer paid days never pay more, so that for each salary there is a number of
\* days below which the calculation refuses: LeastDays of PayrollPeriod.
DaysDecide ==
    \A row \in Effective, o \in Overtimes : \A n \in 1 .. InMonth :
        Calculated(row.pay, [paid |-> n - 1, overtime |-> o]).net
            <= Calculated(row.pay, [paid |-> n, overtime |-> o]).net

\* A month is paid with a salary of that month (false: a payroll that is run
\* after the month uses the salary of the day it is run).
PaidAsOfMonth ==
    [][slip = NoRow /\ slip' # NoRow =>
         \E row \in Effective : row.pay = slip'.pay /\ row.from <= LastDay]_salaryVars
=============================================================================
