------------------------------ MODULE MCPeople ------------------------------
(***************************************************************************)
(* What is kept of people from their application to their warning letters: *)
(* Hiring, Staff, Contracts, Onboarding, Probation and Assessments, side   *)
(* by side.  They share no table, so that a behaviour exercises one of     *)
(* them (part).  What is claimed of them is claimed of handlers that do    *)
(* not overlap; the commits of the others are noted as hazards.  The       *)
(* parameters are constants; the values of a small instance are at the     *)
(* end.                                                                    *)
(***************************************************************************)
EXTENDS Handlers, Integers, Sequences, FiniteSets, TLC

CONSTANTS
    Openings, Applications, Users, NoUser, Slots,
    Employees, Departments, Positions, NoKey, Niks, Codes, Levels, MaxChanges,
    Contracts, Workers, LastDay,
    Templates, Tasks, Assignments, Joiners, Reviews, Articles, Titles, LastDate,
    Periods, Assessed, Results, Months, Configs, Forms, Scores, Dates, MaxConfigs, MaxLetters

VARIABLES part,
    openings, applications, departments, positions, employees, changes, contracts, employed,
    templates, tasks, assignments, completions, reviews, endDate, articles,
    periods, configs, scores, letters, results

hiring      == <<openings, applications>>
staff       == <<departments, positions, employees, changes>>
terms       == <<contracts, employed>>
onboarding  == <<templates, tasks, assignments, completions>>
probation   == <<reviews, endDate, articles>>
assessments == <<periods, configs, scores, letters, results>>
peopleVars  == <<part, alone, sess, hiring, staff, terms, onboarding, probation, assessments>>

H == INSTANCE Hiring
S == INSTANCE Staff WITH None <- NoKey
C == INSTANCE Contracts WITH MaxDay <- LastDay
O == INSTANCE Onboarding
P == INSTANCE Probation WITH MaxDay <- LastDate
A == INSTANCE Assessments

\* An opening asks for one at least (hiring/schemas.py); weights and scores are
\* percentages (assessment/schemas.py), the weights in hundredths, and a form names
\* the items by their place.
ASSUME PeopleAssumption ==
    /\ NoUser \notin Users /\ Slots \subseteq Nat \ {0}
    /\ NoKey \notin Employees /\ IsFiniteSet(Employees)
    /\ LastDay \in Nat /\ LastDate \in Nat
    /\ IsFiniteSet(Tasks) /\ IsFiniteSet(Articles) /\ IsFiniteSet(Periods)
    /\ Months \subseteq Nat /\ Dates \subseteq Int /\ MaxLetters \in Nat
    /\ Configs \subseteq [from: Int, okr: 0 .. A!Full, weighted: 0 .. A!Full, items: Seq(0 .. A!Full)]
    /\ Scores \subseteq 0 .. 100 /\ Forms \subseteq Seq(Nat \X (0 .. 100))

PeopleInit ==
    /\ part \in {"hiring", "staff", "contracts", "onboarding", "probation", "assessments"}
    /\ H!Init /\ S!Init /\ C!Init /\ O!Init /\ P!Init /\ A!Init
    /\ alone

PeopleNext ==
    /\ UNCHANGED part
    /\ \/ part = "hiring"      /\ H!Next /\ UNCHANGED <<staff, terms, onboarding, probation, assessments>>
       \/ part = "staff"       /\ S!Next /\ UNCHANGED <<hiring, terms, onboarding, probation, assessments>>
       \/ part = "contracts"   /\ C!Next /\ UNCHANGED <<hiring, staff, onboarding, probation, assessments>>
       \/ part = "onboarding"  /\ O!Next /\ UNCHANGED <<hiring, staff, terms, probation, assessments>>
       \/ part = "probation"   /\ P!Next /\ UNCHANGED <<hiring, staff, terms, onboarding, assessments>>
       \/ part = "assessments" /\ A!Next /\ UNCHANGED <<hiring, staff, terms, onboarding, probation>>

PeopleSpec == PeopleInit /\ [][PeopleNext]_peopleVars
-----------------------------------------------------------------------------
PeopleTypeOK == H!TypeOK /\ S!TypeOK /\ C!TypeOK /\ O!TypeOK /\ P!TypeOK /\ A!TypeOK
\* Offers that go out were approved by somebody else, and an opening's status says
\* whether its slots are filled.
HiredInOrder == H!OfferApprovedByOther /\ H!SlotsDecideStatus
\* The chart of the company shows everybody, an article can always be stored under
\* the slug that was found free.
NothingLost == S!ChartComplete /\ P!SlugAccepted
\* Scores pass 100 by no more than the tolerance of the weights, letters are suggested after three low months, and go up
\* one level at a time.
WarnedInOrder == A!ScoreWithin /\ A!SuggestedWhenDue /\ A!LettersEscalate
\* What is recorded of a move is what happened, a contract that starts fits the
\* others, a checklist is completed by its last required task, a probation is decided
\* once and the scores of a closed month stay.
RecordsHold ==
    S!MovesAreTrue /\ C!NewContractsFit /\ O!TickCompletes /\ P!DecidedOnce /\ A!ClosedScoresStay
\* An offer over the salary range that is sent was consented to (false: see the README).
OverRangeOverridden == H!OverRangeOverridden
-----------------------------------------------------------------------------
\* A small instance, with one handler at a time.
CONSTANTS a1, a2, a3, b1, b2, b3, b4, u1, u2, none

MCForms == {<< >>, << <<1, 80>> >>, << <<1, 100>>, <<2, 100>> >>, << <<1, 80>>, <<1, 80>> >>}
MCSimple == [from |-> 31, okr |-> 10000, weighted |-> 0, items |-> << >>]
\* One from the middle of the first month, one that uses up the tolerance, and three
\* that only the last check, both or neither would turn down.
MCConfigs ==
    {MCSimple, [MCSimple EXCEPT !.from = 45, !.okr = 5000, !.weighted = 5000, !.items = <<5000, 5000>>],
     [MCSimple EXCEPT !.okr = 1, !.weighted = 10000, !.items = <<5001, 5000>>],
     [MCSimple EXCEPT !.okr = 0, !.weighted = 10000, !.items = <<10000, 10000>>],
     [MCSimple EXCEPT !.weighted = 5000]}

\* Rows are made in order where nothing depends on which comes first, and some
\* tables are looked at one at a time.
PeopleBounds ==
    /\ part # "probation" => endDate = [j \in Joiners |-> 0]
    /\ part = "hiring" =>
        (applications[a2] # H!NoRow =>
            /\ applications[a2].salary = "none" /\ ~applications[a2].start
            /\ applications[a1] # H!NoRow /\ applications[a1].offer = "DRAFT")
    /\ part = "staff" =>
        /\ \A e \in {a2, a3} : employees[e] # S!NoRow => employees[e].nik = e
        /\ employees[a1] # S!NoRow => employees[a1].nik = a1
        /\ employees[a2] # S!NoRow => employees[a1] # S!NoRow
        /\ employees[a3] # S!NoRow =>
              /\ employees[a2] # S!NoRow /\ departments[b1] = S!NoRow /\ changes = << >>
        /\ \A e \in {a1, a2, a3} : employees[e] # S!NoRow /\ employees[e].seen =>
              employees[a2] = S!NoRow /\ changes = << >>
        /\ employees[a2] # S!NoRow =>
              /\ positions[b3] = S!NoRow
              /\ changes # << >> => departments[b1] = S!NoRow
              /\ \A e \in {a1, a2, a3} : employees[e] # S!NoRow => employees[e].status = "ACTIVE" \/ ~employees[e].live
        /\ changes # << >> => \A e \in {a1, a2, a3} : employees[e] = S!NoRow \/ employees[e].status = "ACTIVE"
        /\ positions[b4] # S!NoRow => positions[b3] # S!NoRow
    /\ part = "onboarding" =>
        /\ templates[b2] = "stored" => templates[b1] = "stored"
        /\ templates[b2] = "stored" => tasks[a3] = O!NoRow /\ (assignments[b4] # O!NoRow => tasks[a2] = O!NoRow)
        /\ \A a \in {b3, b4}, k \in {a2, a3} : completions[<<a, k>>] \in {"none", "PENDING", "DONE"}
        /\ tasks[a3] # O!NoRow => completions[<<b3, a1>>] \in {"none", "PENDING", "DONE"} /\ assignments[b4] = O!NoRow
        /\ assignments[b4] # O!NoRow => assignments[b3] # O!NoRow
    /\ part = "probation" =>
        /\ \A a \in {a1, a2, a3} : articles[a] # P!NoRow =>
              /\ endDate[b1] = 0
              /\ a # a1 => articles[a1] # P!NoRow /\ ~articles[a].dated /\ articles[a].slug[1] = articles[a].title
        /\ articles[a3] # P!NoRow => articles[a2] # P!NoRow
        /\ reviews[a2] # P!NoRow => reviews[a1] # P!NoRow
    /\ part = "assessments" =>
        /\ \A x \in {a2, a3} : results[x] # A!None => configs = << >> /\ \A p \in {b1, b2, b3, b4} : periods[p] = A!NoRow
        /\ letters[a1] # << >> => \A p \in {b1, b2, b3, b4} : periods[p] = A!NoRow \/ ~periods[p].closed
        /\ (Len(configs) > 1 \/ (Len(configs) = 1 /\ configs[1] # MCSimple)) =>
              letters[a1] = << >> /\ periods[b3] = A!NoRow /\ periods[b4] = A!NoRow
        /\ periods[b4] # A!NoRow => \A p \in {b1, b2, b3, b4} : periods[p] = A!NoRow \/ ~periods[p].closed
        /\ \A i \in 1 .. 4 : periods[<<b1, b2, b3, b4>>[i]].month \in {i, A!None}
        /\ letters[a1] # << >> => periods[b1] = A!NoRow \/ (periods[b2] # A!NoRow /\ periods[b3] # A!NoRow)

PeopleBoundedInit == PeopleInit /\ PeopleBounds
PeopleBoundedNext == PeopleNext /\ PeopleBounds'
BoundedPeople == PeopleBoundedInit /\ [][PeopleBoundedNext]_peopleVars
=============================================================================
