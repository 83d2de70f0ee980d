----------------------------- MODULE MCDelivery -----------------------------
(***************************************************************************)
(* The work that is delivered: Projects, PhaseBilling, Documents,          *)
(* Placements, Timesheets and Proposals, side by side.  They share no      *)
(* table, so that a behaviour exercises one of them (branch), either with  *)
(* one handler after another (alone) or with handlers in flight together.  *)
(* The parameters are constants; the values of a small instance are at the *)
(* end.                                                                    *)
(***************************************************************************)
EXTENDS Handlers, Integers, Sequences, FiniteSets, TLC

CONSTANTS
    Projects, Works, Subtasks, Comments, Members, Writers,
    Phases, Epics, Invoices, Totals, Amounts, PhaseInputs, InvoiceInputs,
    Names, AskedVersions, MaxDocuments,
    Placements, Complaints, Kpis, ClientCodes, Ends, Rates, LetterDates, Ratings, MaxSpos, MaxAmendments,
    Sheets, Items, Reports, SheetMonths, SheetDays,
    Leads, Numbers, Targets, ProposalIds, Specs, MaxItems, MaxActivities

VARIABLES branch,
    projects, works, subtasks, comments, members, phases, epics, invoices,
    documents, files, placements, amendments, complaints, spos, kpis, clients, sheets, items, reports,
    proposals, offered, activities, targets

work   == <<projects, works, subtasks, comments, members>>
bills  == <<phases, epics, invoices>>
docs   == <<documents, files>>
places == <<placements, amendments, complaints, spos, kpis, clients>>
times  == <<sheets, items, reports>>
offers == <<proposals, offered, activities, targets>>
deliveryVars == <<branch, alone, sess, work, bills, docs, places, times, offers>>

W == INSTANCE Projects WITH Tasks <- Works, tasks <- works, Users <- Writers
B == INSTANCE PhaseBilling
D == INSTANCE Documents WITH Asked <- AskedVersions
L == INSTANCE Placements WITH Codes <- ClientCodes, Dates <- LetterDates, Scores <- Ratings, MaxLetters <- MaxSpos
T == INSTANCE Timesheets WITH Periods <- SheetMonths, Days <- SheetDays
Q == INSTANCE Proposals WITH items <- offered, Ids <- ProposalIds

ASSUME DeliveryAssumption ==
    /\ "none" \notin Projects \cup Works \cup Subtasks \cup Sheets \cup Ratings
    /\ IsFiniteSet(Subtasks) /\ IsFiniteSet(Items) /\ IsFiniteSet(Reports)
    /\ PhaseInputs \subseteq B!PhaseStatuses /\ InvoiceInputs \subseteq B!InvoiceStatuses
    /\ Totals \subseteq Int /\ Amounts \subseteq Int
    /\ AskedVersions \subseteq Nat /\ MaxDocuments \in Nat
    /\ LetterDates \subseteq Int /\ MaxActivities \in Nat
    /\ Specs \subseteq [quantity: Nat, price: Nat] /\ MaxItems \in Nat

DeliveryInit ==
    /\ branch \in {"work", "bills", "documents", "places", "times", "offers"}
    /\ W!Init /\ B!Init /\ D!Init /\ L!Init /\ T!Init /\ Q!Init

DeliveryNext ==
    /\ UNCHANGED branch
    /\ \/ branch = "work"      /\ W!Next /\ UNCHANGED <<bills, docs, places, times, offers>>
       \/ branch = "bills"     /\ B!Next /\ UNCHANGED <<work, docs, places, times, offers>>
       \/ branch = "documents" /\ D!Next /\ UNCHANGED <<work, bills, places, times, offers>>
       \/ branch = "places"    /\ L!Next /\ UNCHANGED <<work, bills, docs, times, offers>>
       \/ branch = "times"     /\ T!Next /\ UNCHANGED <<work, bills, docs, places, offers>>
       \/ branch = "offers"    /\ Q!Next /\ UNCHANGED <<work, bills, docs, places, times>>

DeliverySpec == DeliveryInit /\ [][DeliveryNext]_deliveryVars
-----------------------------------------------------------------------------
DeliveryTypeOK == W!TypeOK /\ B!TypeOK /\ D!TypeOK /\ L!TypeOK /\ T!TypeOK /\ Q!TypeOK
\* What is numbered in order is numbered once: tasks (whatever interleaves) and
\* subtasks, the versions of a document, the amendments of a placement (whatever
\* interleaves) and its warning letters.
NumberedOnce ==
    /\ W!TaskSlugsUnique /\ W!SubtaskSlugsUnique
    /\ D!VersionsUnique
    /\ L!AmendmentsNumbered /\ L!LevelsInOrder
\* A timesheet counts its days, and its report is of what was approved; the
\* total of a proposal is that of its items, up to what rounding them moves.
SheetsAddUp == T!NoDuplicates /\ T!CountIsPresent /\ T!ReportOfApproved /\ Q!TotalsNear
\* The signs of a completed phase agree, finance hears of the invoices of
\* completed phases, and nothing that is settled is sent again.
SentWhenDue == []B!SignsAgree /\ B!SentWhenDone /\ B!SendingKeepsSettled
\* What is deleted, closed, approved or handed in stays so, and an amendment
\* keeps what it replaced.
SettledStays ==
    /\ W!DeletedStays /\ W!ClosedStaysClosed
    /\ T!ApprovedFrozen /\ L!RatingFinal /\ L!AmendmentRecordsOld
\* A live version keeps its file (false: see the README).
LiveHaveFiles == D!LiveHaveFiles
\* The total of a proposal is the sum of its subtotals (false: see the README).
TotalIsSum == Q!TotalIsSum
-----------------------------------------------------------------------------
\* A small instance.
CONSTANTS p1, q1, q2, w1, w2, c1, v1, v2, i1, i2, s1, s2

\* A name in two folders.
MCNames == {<<q1, p1>>, <<q1, q2>>}
MCSpecs == {[quantity |-> 50, price |-> 1], [quantity |-> 40, price |-> 1], [quantity |-> 100, price |-> 3]}

\* Some rows are looked at one table at a time: comments, members or a second
\* task beside a plain project, letters beside a plain placement.  Where all that
\* is claimed is claimed of handlers that follow one another, they do.
DeliveryBounds ==
    /\ branch \in {"bills", "documents"} => alone
    /\ branch = "work" =>
        /\ W!Stored(works, q2) => ~W!Stored(comments, c1) /\ ~W!Stored(subtasks, w1) /\ ~W!Stored(subtasks, w2)
        /\ W!Stored(comments, c1) => ~W!Stored(subtasks, w2)
        /\ (W!Stored(works, q2) \/ W!Stored(comments, c1) \/ W!Stored(subtasks, w1)) => projects[p1].status = "DRAFT"
        /\ members[i1] # "none" => ~W!Stored(works, q1) /\ ~W!Stored(works, q2)
    /\ branch = "bills" =>
        /\ phases[q2] \in {B!NoRow, B!NewPhase}
        /\ invoices[i1] # B!NoRow /\ phases[q1] # B!NoRow => phases[q1].live
        /\ epics[c1] # B!NoRow => phases[q2] = B!NoRow /\ invoices[i1] = B!NoRow
    /\ branch = "places" =>
        /\ (Len(spos) > 0 \/ kpis[i1] # L!NoRow) =>
             /\ placements[q1] = [end |-> 0, rate |-> 0, active |-> TRUE, live |-> TRUE]
             /\ alone /\ amendments = << >> /\ complaints[c1] = "none"
        /\ Len(spos) > 0 => kpis[i1] = L!NoRow
        /\ complaints[c1] # "none" => alone /\ placements[q1] = L!NoRow
        /\ clients # {} => alone /\ placements[q1] = L!NoRow /\ complaints[c1] = "none"
        /\ ~alone => placements[q1] = L!NoRow \/ (placements[q1].active /\ placements[q1].live)
    /\ branch = "times" =>
        /\ ~alone => items[i1] = T!NoRow /\ items[i2] = T!NoRow
        /\ (alone /\ sheets[q2] # T!NoRow) => items[i2] = T!NoRow /\ reports[w1] = T!NoRow /\ reports[w2] = T!NoRow

    /\ branch = "offers" =>
        /\ ~alone => offered[w1] = << >> /\ offered[w2] = << >>
        /\ proposals[w2] # Q!NoRow => offered[w2] = << >>
        /\ (activities[q1] > 0 \/ targets # {}) => proposals[w2] = Q!NoRow

DeliveryBoundedInit == DeliveryInit /\ DeliveryBounds
DeliveryBoundedNext == DeliveryNext /\ DeliveryBounds'
BoundedDelivery == DeliveryBoundedInit /\ [][DeliveryBoundedNext]_deliveryVars

DeliverySymmetry == Permutations({w1, w2}) \cup Permutations({v1, v2}) \cup Permutations({s1, s2})
=============================================================================
