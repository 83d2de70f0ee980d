------------------------------ MODULE Placements ------------------------------
(***************************************************************************)
(* Employees placed at clients, after backend/app/outsource/service.py and *)
(* outsource/router.py: placements and their amendments, the client's      *)
(* complaints and the warning letters (SP-O) they lead to, and the rating  *)
(* that a client hands in once, by a link that expires.                    *)
(***************************************************************************)
EXTENDS Handlers, Integers, Sequences, FiniteSets

CONSTANTS
    Placements, Complaints, Kpis,   \* the primary keys the tables may hand out
    Codes,                          \* values of clients.code
    Ends, Rates,                    \* values of end_date and billing_rate
    Dates,                          \* values of issued_date
    Scores,                         \* what a client may hand in
    MaxLetters, MaxAmendments       \* bounds: letters, amendments in a behaviour

\* spos and amendments are sequences in the order of their insertion.
\* clients is what has been inserted, its code unique.
VARIABLES placements, amendments, complaints, spos, kpis, clients

placementTables == <<placements, amendments, complaints, spos, kpis, clients>>
placementVars   == <<placementTables, alone, sess>>

Levels == <<"SP-O1", "SP-O2", "SP-O3">>
\* A column that may be NULL: the set of its value, or the empty set.
Nullable == {{}} \cup {{rate} : rate \in Rates}
PlacementRow == [end: Ends, rate: Rates, active: BOOLEAN, live: BOOLEAN]
AmendmentRow == [placement: Placements, n: Nat, oldEnd: Ends, oldRate: Nullable]
LetterRow    == [placement: Placements, level: {Levels[i] : i \in 1 .. 3}, date: Dates]
KpiRow       == [placement: Placements, score: Scores \cup {"none"}, expired: BOOLEAN]
NoRow == [live |-> FALSE]

TypeOK ==
    /\ placements \in [Placements -> PlacementRow \cup {NoRow}]
    /\ \A i \in DOMAIN amendments : amendments[i] \in AmendmentRow
    /\ complaints \in [Complaints -> {"none", "open", "resolved"}]
    /\ \A i \in DOMAIN spos : spos[i] \in LetterRow
    /\ kpis \in [Kpis -> KpiRow \cup {NoRow}] /\ clients \subseteq Codes
Init ==
    /\ placements = [p \in Placements |-> NoRow] /\ amendments = << >> /\ spos = << >>
    /\ complaints = [c \in Complaints |-> "none"] /\ kpis = [k \in Kpis |-> NoRow]
    /\ clients = {} /\ AllIdle
-----------------------------------------------------------------------------
\* create_client: a code that is taken meanwhile fails on its constraint.
CreateClient(s, code) == Begin(s, [op |-> "client", code |-> code])
ClientCommit(s) ==
    /\ sess[s].op = "client" /\ clients' = clients \cup {sess[s].code}
    /\ Finish(s) /\ UNCHANGED <<placements, amendments, complaints, spos, kpis>>
\* create_placement: an employee may be placed any number of times at once.
CreatePlacement(s, end, rate) ==
    Add(s, "placements", [end |-> end, rate |-> rate, active |-> TRUE, live |-> TRUE])
\* update_placement stores the payload; soft_delete_placement sets deleted_at.
UpdatePlacement(s, p, end, rate, active) ==
    /\ placements[p].live
    /\ Edit(s, "placements", p, placements[p],
            [placements[p] EXCEPT !.end = end, !.rate = rate, !.active = active])
DeletePlacement(s, p) ==
    placements[p].live /\ Edit(s, "placements", p, placements[p], [placements[p] EXCEPT !.live = FALSE])

\* renew_placement: the old values and the count of amendments as they are
\* loaded, an old rate of 0 as none; the payload may repeat the old values.
Recorded(rate) == {rate} \ {0}
AmendmentsOf(p) == {i \in DOMAIN amendments : amendments[i].placement = p}
Renewed(row, end, rate) == [row EXCEPT !.end = end, !.rate = rate]
SnapshotLate(p, row, new) ==
    [placement |-> p, n |-> Cardinality(AmendmentsOf(p)) + 1,
     oldEnd |-> new.end, oldRate |-> Recorded(new.rate)]
Snapshot(p, row, new) ==
    [placement |-> p, n |-> Cardinality(AmendmentsOf(p)) + 1,
     oldEnd |-> row.end, oldRate |-> Recorded(row.rate)]
Renew(s, p, end, rate) ==
    /\ placements[p].live
    /\ LET new == Renewed(placements[p], end, rate) IN
       Begin(s, [op |-> "renew", key |-> p, seen |-> placements[p], new |-> new,
                 amendment |-> Snapshot(p, placements[p], new)])
\* amendment_no is unique: the loser of a race fails on it.
NoNumberTaken(a) == FALSE
NumberTaken(a) ==
    \E i \in DOMAIN amendments : amendments[i].placement = a.placement /\ amendments[i].n = a.n
RenewCommit(s) ==
    /\ sess[s].op = "renew"
    /\ IF NumberTaken(sess[s].amendment) THEN UNCHANGED <<placements, amendments>>
       ELSE /\ placements' = Edited(s, placements)
            /\ amendments' = Append(amendments, sess[s].amendment)
    /\ Finish(s) /\ UNCHANGED <<complaints, spos, kpis, clients>>

\* create_complaint, resolve_complaint: a resolved one may be resolved again.
CreateComplaint(s) == Begin(s, [op |-> "complain"])
ResolveComplaint(s, c) == complaints[c] # "none" /\ Begin(s, [op |-> "resolve", key |-> c])
-----------------------------------------------------------------------------
\* _next_spo_level_for_placement: after the letter with the latest date, one of
\* them when there are several; nothing follows the third.
EarliestOf(p) == {i \in DOMAIN spos : spos[i].placement = p /\ \A j \in DOMAIN spos : spos[j].placement = p => spos[i].date <= spos[j].date}
LatestOf(p) ==
    {i \in DOMAIN spos : spos[i].placement = p /\ \A j \in DOMAIN spos : spos[j].placement = p => spos[j].date <= spos[i].date}
NextLevels(p) ==
    IF LatestOf(p) = {} THEN {Levels[1]}
    ELSE {Levels[i + 1] : i \in {j \in 1 .. 2 : \E l \in LatestOf(p) : spos[l].level = Levels[j]}}
\* create_spo: for any date, and for a placement that has ended or is deleted.
CreateSpo(s, p, date) ==
    /\ placements[p] # NoRow
    /\ \E level \in NextLevels(p) : Add(s, "spos", [placement |-> p, level |-> level, date |-> date])

\* create_kpi_request; the day passes on which the link expires.
CreateKpi(s, p) ==
    placements[p].live /\ Add(s, "kpis", [placement |-> p, score |-> "none", expired |-> FALSE])
Expire(k) ==
    /\ kpis[k] # NoRow /\ kpis' = [kpis EXCEPT ![k].expired = TRUE]
    /\ UNCHANGED <<placements, amendments, complaints, spos, clients, handlers>>
\* submit_kpi: by anybody who has the link.
MaySubmitLate(kpi) == kpi # NoRow /\ kpi.score = "none"
MaySubmitAgain(kpi) == kpi # NoRow /\ ~kpi.expired
MaySubmit(kpi) == kpi # NoRow /\ kpi.score = "none" /\ ~kpi.expired
Submitted(kpi, score) == [kpi EXCEPT !.score = score]
SubmitKpi(s, k, score) ==
    MaySubmit(kpis[k]) /\ Edit(s, "kpis", k, kpis[k], Submitted(kpis[k], score))
-----------------------------------------------------------------------------
Commit(s) ==
    /\ \/ /\ \/ Editing(s, "placements") /\ placements' = Edited(s, placements)
             \/ /\ Adding(s, "placements")
                /\ \E p \in Placements : placements[p] = NoRow /\ placements' = [placements EXCEPT ![p] = sess[s].new]
          /\ UNCHANGED <<amendments, complaints, spos, kpis>>
       \/ /\ \/ sess[s].op = "complain" /\ \E c \in Complaints : complaints[c] = "none" /\ complaints' = [complaints EXCEPT ![c] = "open"]
             \/ sess[s].op = "resolve" /\ complaints' = [complaints EXCEPT ![sess[s].key] = "resolved"]
          /\ UNCHANGED <<placements, amendments, spos, kpis>>
       \/ /\ Adding(s, "spos") /\ spos' = Append(spos, sess[s].new)
          /\ UNCHANGED <<placements, amendments, complaints, kpis>>
       \/ /\ \/ Editing(s, "kpis") /\ kpis' = Edited(s, kpis)
             \/ Adding(s, "kpis") /\ \E k \in Kpis : kpis[k] = NoRow /\ kpis' = [kpis EXCEPT ![k] = sess[s].new]
          /\ UNCHANGED <<placements, amendments, complaints, spos>>
    /\ Finish(s) /\ UNCHANGED clients

Request(s) ==
    \/ \E end \in Ends, rate \in Rates : CreatePlacement(s, end, rate)
    \/ \E p \in Placements :
          \/ \E end \in Ends, rate \in Rates, active \in BOOLEAN : UpdatePlacement(s, p, end, rate, active)
          \/ DeletePlacement(s, p) \/ CreateKpi(s, p)
          \/ \E end \in Ends, rate \in Rates : Len(amendments) < MaxAmendments /\ Renew(s, p, end, rate)
          \/ \E date \in Dates : Len(spos) < MaxLetters /\ CreateSpo(s, p, date)
    \/ CreateComplaint(s) \/ \E code \in Codes : CreateClient(s, code)
    \/ \E c \in Complaints : ResolveComplaint(s, c)
    \/ \E k \in Kpis, score \in Scores : SubmitKpi(s, k, score)

Step(s) ==
    \/ (Request(s) \/ Abort(s)) /\ UNCHANGED placementTables
    \/ RenewCommit(s) \/ ClientCommit(s) \/ Commit(s)
Next == (\E s \in Sessions : Step(s)) \/ \E k \in Kpis : Expire(k)
Spec == Init /\ [][Next]_placementVars
-----------------------------------------------------------------------------
LettersOf(p) == {i \in DOMAIN spos : spos[i].placement = p}
\* Letters dated one after another carry the levels in their order, and there
\* is no fourth (handlers that do not overlap; a letter may be back-dated).
LevelsInOrder ==
    alone => \A p \in Placements :
        (\A i, j \in LettersOf(p) : i < j => spos[i].date < spos[j].date)
        => /\ Cardinality(LettersOf(p)) <= 3
           /\ \A i \in LettersOf(p) : spos[i].level = Levels[Cardinality(LettersOf(p) \cap 1 .. i)]

\* An amendment records the end and the rate that it replaced, the rate unless
\* it was 0 (handlers that do not overlap).
AmendmentRecordsOld ==
    [][alone /\ amendments' # amendments
       => LET a   == amendments'[Len(amendments')]
              old == placements[a.placement]
          IN a.oldEnd = old.end /\ (old.rate = 0 \/ a.oldRate = {old.rate})]_placementVars

\* The amendments of a placement are numbered 1, 2, ... whatever interleaves.
AmendmentsNumbered ==
    \A i \in DOMAIN amendments :
        amendments[i].n = Cardinality(AmendmentsOf(amendments[i].placement) \cap 1 .. i)

\* What a client has handed in stays (handlers that do not overlap), and only a
\* request that came before the link expired hands anything in.
RatingFinal ==
    [][\A k \in Kpis : kpis[k] # NoRow /\ kpis'[k].score # kpis[k].score =>
          /\ alone => kpis[k].score = "none"
          /\ \E s \in Sessions : Editing(s, "kpis") /\ sess[s].key = k /\ ~sess[s].seen.expired]_placementVars
=============================================================================
