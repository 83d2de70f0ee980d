---------------------------- MODULE Assessments ----------------------------
(***************************************************************************)
(* The monthly assessment of employees, after                              *)
(* backend/app/assessment/service.py and router.py: periods, weights,      *)
(* scores, the threshold below which a warning letter is suggested, the    *)
(* letters SP1 to SP3, and the key results.                                *)
(***************************************************************************)
EXTENDS Handlers, Integers, Sequences, FiniteSets, FiniteSetsExt

CONSTANTS
    Periods, Assessed, Results,  \* primary keys of periods, employees and key results
    Months,                      \* months in order; a date is the month it is in
    Configs,                     \* the configurations that may be asked for
    Forms,                       \* the item scores that may be handed in: sequences of <<code, score>>
    Scores,                      \* values of scores handed in, in 0 .. 100
    Dates,                       \* issue dates of letters
    MaxConfigs, MaxLetters       \* bounds on assessment_configs and warning_letters

VARIABLES
    periods,       \* table assessment_periods
    configs,       \* tables assessment_configs and assessment_items, of one department
    scores,        \* table assessments: the final scores stored of an employee for a period,
                   \* in hundredths of a point
    letters,       \* table warning_letters of each employee, in the order of insertion
    results        \* tables okr_objectives and okr_key_results: the progress of each result

assessmentTables == <<periods, configs, scores, letters, results>>
assessmentVars   == <<assessmentTables, alone, sess>>

None == -1
NoRow == [month |-> None]
TypeOK ==
    /\ periods \in [Periods -> [month: Months, closed: BOOLEAN] \cup {NoRow}]
    /\ scores \in [Assessed \X Periods -> Seq(Nat)]
    /\ letters \in [Assessed -> Seq([level: 1 .. 3, date: Dates])]
    /\ \A e \in Assessed : Len(letters[e]) <= MaxLetters
    /\ results \in [Results -> 0 .. 100 \cup {None}]
Init ==
    /\ periods = [p \in Periods |-> NoRow] /\ configs = << >>
    /\ scores = [x \in Assessed \X Periods |-> << >>]
    /\ letters = [e \in Assessed |-> << >>] /\ results = [k \in Results |-> None] /\ AllIdle
-----------------------------------------------------------------------------
\* create_period, close_period
CreatePeriod(s, month) ==
    (\A p \in Periods : periods[p].month # month) /\ Add(s, "periods", [month |-> month, closed |-> FALSE])
ClosePeriod(s, p) == periods[p] # NoRow /\ Edit(s, "periods", p, periods[p], [periods[p] EXCEPT !.closed = TRUE])
\* create_config: the two weights add up to 100 within 0.01, and so do those of the
\* items, if any.  Weights are in hundredths of a percent: they are handed in with the
\* two decimals that the columns keep.
Full       == 100 * 100
AddUp(sum) == sum \in Full - 1 .. Full + 1
ItemSum(items) == MapThenSumSet(LAMBDA code : items[code], DOMAIN items)
WeightsFitOkr(c) == AddUp(c.okr + c.weighted)
WeightsFit(c)    == AddUp(c.okr + c.weighted) /\ (DOMAIN c.items # {} => AddUp(ItemSum(c.items)))
CreateConfig(s, c) ==
    /\ WeightsFit(c)
    /\ Add(s, "configs", c)
\* get_active_config_for_dept as of the first of the month: the latest in effect by then
\* (any of them, if several are of that date).  A date counts 31 days for every month.
FirstOf(month) == 31 * month
ActiveConfigs(month) ==
    LET known == {i \in DOMAIN configs : configs[i].from <= FirstOf(month)} IN
    {configs[i] : i \in {j \in known : \A k \in known : configs[k].from <= configs[j].from}}
-----------------------------------------------------------------------------
\* submit_assessment: the weighted items (in 1/10000 of a point), and the two parts,
\* exact until the column rounds their sum to hundredths (WeightedPart drops less than a
\* hundredth of a hundredth, which no rounding to the nearest can tell, and stays below
\* 2^31 on the way).
Weighted(c, form) == MapThenSumSet(LAMBDA i : c.items[form[i][1]] * form[i][2], DOMAIN form)
WeightedPart(sum, share) == (sum \div Full) * share + ((sum % Full) * share) \div Full
Final(c, okr, form) == (okr * c.okr + WeightedPart(Weighted(c, form), c.weighted) + 50) \div 100
\* One row per employee and period, inserted or updated.
MaySubmitAny(p)     == periods[p] # NoRow
MaySubmit(p)        == periods[p] # NoRow /\ ~periods[p].closed
Submit(s, e, p, okr, form) ==
    /\ MaySubmit(p) /\ Len(scores[<<e, p>>]) <= 1
    /\ \E c \in ActiveConfigs(periods[p].month) :
          /\ \A i \in DOMAIN form : form[i][1] \in DOMAIN c.items
          /\ Begin(s, [op |-> "submit", key |-> <<e, p>>, form |-> form, seen |-> scores[<<e, p>>],
                       new |-> <<Final(c, okr, form)>>])
SubmitCommit(s) ==
    /\ sess[s].op = "submit"
    /\ scores' = [scores EXCEPT ![sess[s].key] = IF sess[s].seen = << >> THEN @ \o sess[s].new ELSE sess[s].new]
    /\ Finish(s) /\ UNCHANGED <<periods, configs, letters, results>>
-----------------------------------------------------------------------------
\* check_employee_threshold: the rows of the three latest months (which ones, when
\* a month has several, is up to the database), all of them low (ORANGE or RED).
Rows(e) == UNION {{<<p, i>> : i \in DOMAIN scores[<<e, p>>]} : p \in Periods}
Month(row) == periods[row[1]].month
RecentOldest(e) ==
    {rows \in SUBSET Rows(e) : /\ Cardinality(rows) = 3 \/ (Cardinality(rows) < 3 /\ rows = Rows(e))
                               /\ \A row \in rows, other \in Rows(e) \ rows : Month(row) <= Month(other)}
Recent(e) ==
    {rows \in SUBSET Rows(e) : /\ Cardinality(rows) = 3 \/ (Cardinality(rows) < 3 /\ rows = Rows(e))
                               /\ \A row \in rows, other \in Rows(e) \ rows : Month(other) <= Month(row)}
LowRed(score) == score < 50 * 100
Low(score)    == score < 60 * 100
LowMonths(e) ==
    \E rows \in Recent(e) : Cardinality(rows) = 3 /\ \A row \in rows : Low(scores[<<e, row[1]>>][row[2]])
\* The letters that may come first when they are ordered by date, newest first.
LastLetters(e) ==
    LET own == letters[e] IN {own[i].level : i \in {j \in DOMAIN own : \A k \in DOMAIN own : own[k].date <= own[j].date}}
\* The level suggested: 1 .. 3, and 4 for the end of the employment; none below three months.
Suggested(e) ==
    IF ~LowMonths(e) THEN {}
    ELSE IF letters[e] = << >> THEN {1} ELSE {last + 1 : last \in LastLetters(e)}

\* issue_warning_letter
MayIssueHigher(e, level) ==
    IF letters[e] = << >> THEN level = 1 ELSE \E last \in LastLetters(e) : level > last
MayIssue(e, level) ==
    IF letters[e] = << >> THEN level = 1 ELSE \E last \in LastLetters(e) : level = last + 1
IssueLetter(s, e, level, date) ==
    MayIssue(e, level) /\ Begin(s, [op |-> "letter", key |-> e, new |-> [level |-> level, date |-> date]])
IssueCommit(s) ==
    /\ sess[s].op = "letter" /\ Len(letters[sess[s].key]) < MaxLetters
    /\ letters' = [letters EXCEPT ![sess[s].key] = Append(@, sess[s].new)]
    /\ Finish(s) /\ UNCHANGED <<periods, configs, scores, results>>
-----------------------------------------------------------------------------
\* create_objective with its key results, update_key_result
CreateObjective(s, ks) == ks # {} /\ Begin(s, [op |-> "objective", keys |-> ks])
UpdateResult(s, k, progress) ==
    results[k] # None /\ Begin(s, [op |-> "result", keys |-> {k}, progress |-> progress])
ResultCommit(s) ==
    /\ \/ /\ sess[s].op = "objective" /\ \A k \in sess[s].keys : results[k] = None
          /\ results' = [k \in Results |-> IF k \in sess[s].keys THEN 0 ELSE results[k]]
       \/ /\ sess[s].op = "result"
          /\ results' = [k \in Results |-> IF k \in sess[s].keys THEN sess[s].progress ELSE results[k]]
    /\ Finish(s) /\ UNCHANGED <<periods, configs, scores, letters>>

Commit(s) ==
    /\ \/ /\ \/ Editing(s, "periods") /\ periods' = Edited(s, periods)
             \/ \E p \in Periods :
                   Adding(s, "periods") /\ periods[p] = NoRow /\ periods' = [periods EXCEPT ![p] = sess[s].new]
          /\ UNCHANGED configs
       \/ /\ Adding(s, "configs") /\ Len(configs) < MaxConfigs
          /\ configs' = Append(configs, sess[s].new) /\ UNCHANGED periods
    /\ Finish(s) /\ UNCHANGED <<scores, letters, results>>

Request(s) ==
    \/ \E month \in Months : CreatePeriod(s, month)
    \/ \E c \in Configs : CreateConfig(s, c)
    \/ \E p \in Periods :
          \/ ClosePeriod(s, p)
          \/ \E e \in Assessed, okr \in Scores, form \in Forms : Submit(s, e, p, okr, form)
    \/ \E e \in Assessed, level \in 1 .. 3, date \in Dates : IssueLetter(s, e, level, date)
    \/ \E ks \in SUBSET Results : CreateObjective(s, ks)
    \/ \E k \in Results, progress \in Scores : UpdateResult(s, k, progress)

Step(s) ==
    \/ (Request(s) \/ Abort(s)) /\ UNCHANGED assessmentTables
    \/ Commit(s) \/ SubmitCommit(s) \/ IssueCommit(s) \/ ResultCommit(s)
Next == \E s \in Sessions : Step(s)
Spec == Init /\ [][Next]_assessmentVars
-----------------------------------------------------------------------------
ScoredIn(e, month) == {p \in Periods : periods[p].month = month /\ scores[<<e, p>>] # << >>}
\* A letter is suggested for an employee who was assessed in three months running,
\* the last ones assessed, exactly when all three scores are below 60, and what is
\* suggested next is a letter that issue_warning_letter accepts (handlers that do
\* not overlap, letters of different dates).
SuggestedWhenDue ==
    alone => \A e \in Assessed :
        /\ \A m \in Months :
              LET run == [n \in 0 .. 2 |-> ScoredIn(e, m - n)] IN
              (\A n \in 0 .. 2 : run[n] # {}) /\ (\A later \in Months : later > m => ScoredIn(e, later) = {}) =>
                  (Suggested(e) # {} <=> \A n \in 0 .. 2 : \A p \in run[n] : scores[<<e, p>>][1] < 60 * 100)
        /\ Cardinality(LastLetters(e)) <= 1 => \A n \in Suggested(e) : n <= 3 => MayIssue(e, n)

\* Letters issued on later and later days go up one level at a time (handlers that
\* do not overlap).
LettersEscalate ==
    alone => \A e \in Assessed :
        (\A i, j \in DOMAIN letters[e] : i < j => letters[e][i].date < letters[e][j].date) =>
            \A i \in DOMAIN letters[e] : letters[e][i].level = i

\* Scores that are handed in for different items pass 100 by no more than the weights
\* may, a final score of 100.02 (a form that names an item twice is accepted too, and
\* may pass that).
Once(form) == \A i, j \in DOMAIN form : i # j => form[i][1] # form[j][1]
ScoreWithin == \A s \in Sessions : sess[s].op = "submit" /\ Once(sess[s].form) => sess[s].new[1] \in 0 .. Full + 2

\* The scores of a closed period stay (handlers that do not overlap).
ClosedScoresStay ==
    [][alone => \A p \in Periods : periods[p] # NoRow /\ periods[p].closed =>
        periods'[p].closed /\ \A e \in Assessed : scores'[<<e, p>>] = scores[<<e, p>>]]_assessmentVars
=============================================================================
