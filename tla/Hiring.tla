------------------------------- MODULE Hiring -------------------------------
(***************************************************************************)
(* Job openings, the applications to them and the offers made to the       *)
(* applicants, after backend/app/hiring/service.py, offer_service.py and   *)
(* their routers.  The stage of an application and the status of its offer *)
(* are two state machines over one row, that write each other's column.    *)
(***************************************************************************)
EXTENDS Handlers, Integers

CONSTANTS
    Openings, Applications,   \* the primary keys the tables may hand out
    Users, NoUser,            \* users.id, and NULL
    Slots                     \* values of slots_needed

VARIABLES openings, applications   \* tables job_openings, job_applications

hiringTables == <<openings, applications>>
hiringVars   == <<hiringTables, alone, sess>>

OpeningStatuses == {"DRAFT", "PENDING_APPROVAL", "OPEN", "FILLED", "CANCELLED", "CLOSED"}
OpeningRow == [status: OpeningStatuses, needed: Slots, filled: Nat, by: Users]
Stages == {"APPLIED", "SCREENING", "HR_INTERVIEW", "USER_INTERVIEW", "TECHNICAL_TEST",
           "OFFERING", "HIRED", "REJECTED", "WITHDRAWN"}
OfferStatuses == {"DRAFT", "PENDING_APPROVAL", "APPROVED", "SENT", "ACCEPTED", "NEGOTIATING", "REJECTED"}
\* salary is the offered one against the range of the position, start whether a
\* start date is set; submitter and approver are those of the offer.
ApplicationRow == [of: Openings, stage: Stages, offer: OfferStatuses,
                   salary: {"none", "within", "over"}, start: BOOLEAN, override: BOOLEAN,
                   submitter: Users \cup {NoUser}, approver: Users \cup {NoUser}]
NoRow == [status |-> "none", stage |-> "none", offer |-> "none"]

TypeOK ==
    /\ openings \in [Openings -> OpeningRow \cup {NoRow}]
    /\ applications \in [Applications -> ApplicationRow \cup {NoRow}]
Init == openings = [o \in Openings |-> NoRow] /\ applications = [a \in Applications |-> NoRow] /\ AllIdle
-----------------------------------------------------------------------------
\* create_job_opening, update_job_opening, submit_for_approval,
\* approve_or_reject_job_opening, close_job_opening
ChangeOpening(s, o, new) == Edit(s, "openings", o, openings[o], new)
NewOpening(user, needed) == [status |-> "DRAFT", needed |-> needed, filled |-> 0, by |-> user]
CreateOpening(s, user, needed) == Add(s, "openings", NewOpening(user, needed))
MayUpdate(o) == openings[o].status \in {"DRAFT", "PENDING_APPROVAL"}
UpdateOpening(s, o, needed) == MayUpdate(o) /\ ChangeOpening(s, o, [openings[o] EXCEPT !.needed = needed])
MaySubmit(o) == openings[o].status = "DRAFT"
SubmitOpening(s, o) == MaySubmit(o) /\ ChangeOpening(s, o, [openings[o] EXCEPT !.status = "PENDING_APPROVAL"])
MayDecide(o, user) == openings[o].status = "PENDING_APPROVAL" /\ openings[o].by # user
DecideOpening(s, o, user, outcome) ==
    MayDecide(o, user) /\ ChangeOpening(s, o, [openings[o] EXCEPT !.status = outcome])
MayClose(o) == openings[o].status = "OPEN"
Closed(row) == [row EXCEPT !.status = IF row.filled >= row.needed THEN "FILLED" ELSE "CLOSED"]
CloseOpening(s, o) == MayClose(o) /\ ChangeOpening(s, o, Closed(openings[o]))
-----------------------------------------------------------------------------
\* create_application; update_application takes any salary and date at any time.
ChangeApplication(s, a, new) == Edit(s, "applications", a, applications[a], new)
NewApplication(o) ==
    [of |-> o, stage |-> "APPLIED", offer |-> "DRAFT", salary |-> "none", start |-> FALSE,
     override |-> FALSE, submitter |-> NoUser, approver |-> NoUser]
CreateApplication(s, o) == openings[o].status = "OPEN" /\ Add(s, "applications", NewApplication(o))
UpdateApplication(s, a, salary, start) ==
    /\ applications[a] # NoRow
    /\ ChangeApplication(s, a, [applications[a] EXCEPT !.salary = salary, !.start = start])

\* _STAGE_FLOW
Onward == [APPLIED |-> {"SCREENING"}, SCREENING |-> {"HR_INTERVIEW"},
            HR_INTERVIEW |-> {"USER_INTERVIEW", "TECHNICAL_TEST", "OFFERING"},
            USER_INTERVIEW |-> {"TECHNICAL_TEST", "OFFERING"}, TECHNICAL_TEST |-> {"OFFERING"},
            OFFERING |-> {"HIRED"}]
Allowed(stage) == IF stage \in DOMAIN Onward THEN Onward[stage] \cup {"REJECTED", "WITHDRAWN"} ELSE {}
\* The opening after one more applicant is hired, from whatever status.
FilledLate(row) ==
    [row EXCEPT !.filled = @ + 1, !.status = IF row.filled + 1 > row.needed THEN "FILLED" ELSE @]
Filled(row) ==
    [row EXCEPT !.filled = @ + 1, !.status = IF row.filled + 1 >= row.needed THEN "FILLED" ELSE @]
\* transition_stage: one commit for the application and, at HIRED, its opening.
Transition(s, a, stage) ==
    /\ applications[a] # NoRow /\ stage \in Allowed(applications[a].stage)
    /\ LET o == applications[a].of IN
       Begin(s, [op |-> "move", key |-> a, seen |-> applications[a],
                 new |-> [applications[a] EXCEPT !.stage = stage], opening |-> o, seenOpening |-> openings[o],
                 newOpening |-> IF stage = "HIRED" THEN Filled(openings[o]) ELSE openings[o]])
TransitionCommit(s) ==
    /\ sess[s].op = "move"
    /\ applications' = Edited(s, applications)
    /\ openings' = [openings EXCEPT ![sess[s].opening] = Merge(@, sess[s].seenOpening, sess[s].newOpening)]
    /\ Finish(s)
-----------------------------------------------------------------------------
\* offer_service: submit_offer_for_approval, approve_offer, reject_offer,
\* mark_offer_sent, record_candidate_response.  The letter itself (generate_offer_pdf)
\* is a file and its name.
Complete(row) == row.salary # "none" /\ row.start
GenerateLetter(s, a) == applications[a] # NoRow /\ Complete(applications[a]) /\ ChangeApplication(s, a, applications[a])
MaySubmitOffer(row) == row.offer = "DRAFT" /\ Complete(row) /\ (row.salary = "over" => row.override)
SubmittedOffer(row, user) == [row EXCEPT !.offer = "PENDING_APPROVAL", !.submitter = user, !.approver = NoUser]
SubmitOffer(s, a, user) ==
    /\ applications[a] # NoRow /\ MaySubmitOffer(applications[a])
    /\ ChangeApplication(s, a, SubmittedOffer(applications[a], user))
\* salary_override is what the approver answers to a salary over the range.
MayApproveOfferSelf(row, user, consent) ==
    row.offer = "PENDING_APPROVAL" /\ (row.salary = "over" => consent)
MayApproveOffer(row, user, consent) ==
    row.offer = "PENDING_APPROVAL" /\ row.submitter # user /\ (row.salary = "over" => consent)
ApprovedOffer(row, user) ==
    [row EXCEPT !.offer = "APPROVED", !.approver = user, !.override = @ \/ row.salary = "over"]
ApproveOffer(s, a, user, consent) ==
    /\ applications[a] # NoRow /\ MayApproveOffer(applications[a], user, consent)
    /\ ChangeApplication(s, a, ApprovedOffer(applications[a], user))
\* Back to the draft, by anybody who may approve; the approver column is left.
RejectOffer(s, a) ==
    /\ applications[a].offer = "PENDING_APPROVAL"
    /\ ChangeApplication(s, a, [applications[a] EXCEPT !.offer = "DRAFT", !.submitter = NoUser])
\* The stage follows, from wherever it is.
SendOffer(s, a) ==
    /\ applications[a].offer = "APPROVED"
    /\ ChangeApplication(s, a, [applications[a] EXCEPT !.offer = "SENT", !.stage = "OFFERING"])
MayRespond(row, response) == row.offer = "SENT" /\ (response = "ACCEPTED" => row.start)
\* An accepted offer sets the stage, and leaves the opening's slots alone.
Respond(s, a, response) ==
    /\ applications[a] # NoRow /\ MayRespond(applications[a], response)
    /\ ChangeApplication(s, a, [applications[a] EXCEPT !.offer = response,
                                   !.stage = IF response = "ACCEPTED" THEN "HIRED" ELSE @])
-----------------------------------------------------------------------------
Commit(s) ==
    /\ \/ /\ \/ Editing(s, "openings") /\ openings' = Edited(s, openings)
             \/ \E o \in Openings :
                   Adding(s, "openings") /\ openings[o] = NoRow /\ openings' = [openings EXCEPT ![o] = sess[s].new]
          /\ UNCHANGED applications
       \/ /\ \/ Editing(s, "applications") /\ applications' = Edited(s, applications)
             \/ \E a \in Applications :
                   /\ Adding(s, "applications") /\ applications[a] = NoRow
                   /\ applications' = [applications EXCEPT ![a] = sess[s].new]
          /\ UNCHANGED openings
    /\ Finish(s)

Request(s) ==
    \/ \E user \in Users, n \in Slots : CreateOpening(s, user, n)
    \/ \E o \in Openings :
          \/ \E n \in Slots : UpdateOpening(s, o, n)
          \/ SubmitOpening(s, o)
          \/ CloseOpening(s, o)
          \/ CreateApplication(s, o)
          \/ \E user \in Users, outcome \in {"OPEN", "CANCELLED"} : DecideOpening(s, o, user, outcome)
    \/ \E a \in Applications :
          \/ \E salary \in {"none", "within", "over"}, start \in BOOLEAN : UpdateApplication(s, a, salary, start)
          \/ \E stage \in Stages : Transition(s, a, stage)
          \/ GenerateLetter(s, a)
          \/ RejectOffer(s, a)
          \/ SendOffer(s, a)
          \/ \E user \in Users : SubmitOffer(s, a, user)
          \/ \E user \in Users, consent \in BOOLEAN : ApproveOffer(s, a, user, consent)
          \/ \E response \in {"ACCEPTED", "NEGOTIATING", "REJECTED"} : Respond(s, a, response)

Step(s) == ((Request(s) \/ Abort(s)) /\ UNCHANGED hiringTables) \/ Commit(s) \/ TransitionCommit(s)
Next == \E s \in Sessions : Step(s)
Spec == Init /\ [][Next]_hiringVars
-----------------------------------------------------------------------------
\* An offer that goes out was approved by somebody other than who submitted it,
\* through any number of rejections and new submissions (handlers that do not
\* overlap; its salary may have been edited since).
OfferApprovedByOther ==
    alone => \A a \in Applications :
        applications[a].offer \in {"APPROVED", "SENT", "ACCEPTED", "NEGOTIATING", "REJECTED"} =>
            /\ NoUser \notin {applications[a].submitter, applications[a].approver}
            /\ applications[a].submitter # applications[a].approver

\* An opening is FILLED when its slots are, in whatever order it is closed and
\* applicants are hired (handlers that do not overlap).
SlotsDecideStatus ==
    alone => \A o \in Openings : openings[o] # NoRow =>
        (openings[o].status = "FILLED" <=> openings[o].filled >= openings[o].needed)

\* What an offer over the salary range needs (offer_service.py: "requires
\* salary_override_approved=True"): false, the salary may be edited afterwards.
OverRangeOverridden ==
    alone => \A a \in Applications :
        applications[a].offer = "SENT" /\ applications[a].salary = "over" => applications[a].override
=============================================================================
