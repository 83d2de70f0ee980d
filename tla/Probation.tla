----------------------------- MODULE Probation -----------------------------
(***************************************************************************)
(* The assessments at the end of a probation and the articles of the       *)
(* knowledge base, after backend/app/onboarding/probation_router.py and    *)
(* cms_router.py.                                                          *)
(***************************************************************************)
EXTENDS Handlers, Integers, FiniteSets

CONSTANTS
    Reviews, Joiners,      \* primary keys of the assessments, and employees
    Articles, Titles,      \* primary keys of the articles, and their slugified titles
    Users, NoUser,
    MaxDay                 \* dates are 1 .. MaxDay, 0 for none

VARIABLES
    reviews,               \* table probation_assessments
    endDate,               \* employees.probation_end_date
    articles               \* table cms_articles

probationTables == <<reviews, endDate, articles>>
probationVars   == <<probationTables, alone, sess>>

Days == 0 .. MaxDay
Decisions == {"PENDING", "PASS", "EXTEND", "TERMINATE"}
ReviewRow  == [of: Joiners, decision: Decisions, end: Days, extended: Days, reviewer: Users \cup {NoUser}]
\* A slug is a title and the number behind it, 0 for none.
ArticleRow == [title: Titles, slug: Titles \X Nat, published: BOOLEAN, dated: BOOLEAN, live: BOOLEAN]
NoRow == [decision |-> "none", slug |-> "none", live |-> FALSE]
TypeOK ==
    /\ reviews \in [Reviews -> ReviewRow \cup {NoRow}]
    /\ endDate \in [Joiners -> Days]
    /\ articles \in [Articles -> ArticleRow \cup {NoRow}]
Init ==
    /\ reviews = [r \in Reviews |-> NoRow] /\ endDate \in [Joiners -> Days]
    /\ articles = [a \in Articles |-> NoRow] /\ AllIdle
-----------------------------------------------------------------------------
\* create_probation_endpoint: nothing new while one is pending.
MayReview(j) == endDate[j] # 0 /\ \A r \in Reviews : reviews[r].decision = "PENDING" => reviews[r].of # j
CreateProbation(s, j) ==
    MayReview(j) /\ Add(s, "reviews", [of |-> j, decision |-> "PENDING", end |-> endDate[j],
                                       extended |-> 0, reviewer |-> NoUser])
\* decide_probation_endpoint: an extension writes the date of the employee too.
MayDecideAny(row, decision, until) == row # NoRow /\ (decision = "EXTEND" => until # 0)
MayDecide(row, decision, until) == row.decision = "PENDING" /\ (decision = "EXTEND" => until # 0)
Decided(row, decision, until, user) ==
    [row EXCEPT !.decision = decision, !.reviewer = user, !.extended = IF decision = "EXTEND" THEN until ELSE @]
DecideProbation(s, r, decision, until, user) ==
    /\ MayDecide(reviews[r], decision, until)
    /\ Begin(s, [op |-> "edit", table |-> "reviews", key |-> r, seen |-> reviews[r], seenEnd |-> endDate[reviews[r].of],
                 new |-> Decided(reviews[r], decision, until, user)])
\* Written when it differs from the date that was loaded.
Extends(work, j) == work.new.of = j /\ work.new.decision = "EXTEND"
NewEndLater(work, j) ==
    IF Extends(work, j) /\ work.new.extended > work.seenEnd THEN work.new.extended ELSE endDate[j]
NewEnd(work, j) ==
    IF Extends(work, j) /\ work.new.extended # work.seenEnd THEN work.new.extended ELSE endDate[j]
DecideCommit(s) ==
    /\ Editing(s, "reviews") /\ reviews' = Edited(s, reviews)
    /\ endDate' = [j \in Joiners |-> NewEnd(sess[s], j)]
    /\ Finish(s) /\ UNCHANGED articles
\* update_employee sets the date for a first time or corrects it.
SetEndDate(j, day) ==
    /\ alone => \A s \in Sessions : sess[s] = Idle
    /\ endDate' = [endDate EXCEPT ![j] = day]
    /\ UNCHANGED <<reviews, articles, handlers>>
-----------------------------------------------------------------------------
\* create_article_endpoint tries the slugified title, then title-1, title-2, ...,
\* against every row, the deleted ones too.
SlugsOf(rows)  == {articles[a].slug : a \in rows}
Slugs          == SlugsOf({a \in Articles : articles[a] # NoRow})
FirstFree(title, slugs) ==
    CHOOSE slug \in {title} \X (0 .. Cardinality(Articles)) :
        slug \notin slugs /\ \A n \in 0 .. slug[2] - 1 : <<title, n>> \in slugs
NextSlugLive(title) == FirstFree(title, SlugsOf({a \in Articles : articles[a].live}))
NextSlug(title)     == FirstFree(title, Slugs)
CreateArticle(s, title, published) ==
    Add(s, "articles", [title |-> title, slug |-> NextSlug(title), published |-> published,
                        dated |-> published, live |-> TRUE])
\* The slug stays when the title changes, the date of publication when it is withdrawn.
Rewritten(row, title, published) ==
    [row EXCEPT !.title = title, !.published = published, !.dated = @ \/ published]
UpdateArticle(s, a, title, published) ==
    articles[a].live /\ Edit(s, "articles", a, articles[a], Rewritten(articles[a], title, published))
DeleteArticle(s, a) == articles[a].live /\ Edit(s, "articles", a, articles[a], [articles[a] EXCEPT !.live = FALSE])
ArticleCommit(s) ==
    /\ \/ Editing(s, "articles") /\ articles' = Edited(s, articles)
       \/ \E a \in Articles :
             /\ Adding(s, "articles") /\ articles[a] = NoRow /\ sess[s].new.slug \notin Slugs
             /\ articles' = [articles EXCEPT ![a] = sess[s].new]
    /\ Finish(s) /\ UNCHANGED <<reviews, endDate>>
CreateCommit(s) ==
    /\ \E r \in Reviews : Adding(s, "reviews") /\ reviews[r] = NoRow /\ reviews' = [reviews EXCEPT ![r] = sess[s].new]
    /\ Finish(s) /\ UNCHANGED <<endDate, articles>>

Request(s) ==
    \/ \E j \in Joiners : CreateProbation(s, j)
    \/ \E r \in Reviews, decision \in Decisions \ {"PENDING"}, until \in Days, user \in Users :
          DecideProbation(s, r, decision, until, user)
    \/ \E title \in Titles, published \in BOOLEAN :
          \/ CreateArticle(s, title, published)
          \/ \E a \in Articles : UpdateArticle(s, a, title, published)
    \/ \E a \in Articles : DeleteArticle(s, a)

Step(s) ==
    \/ (Request(s) \/ Abort(s)) /\ UNCHANGED probationTables
    \/ CreateCommit(s) \/ DecideCommit(s) \/ ArticleCommit(s)
Next == (\E s \in Sessions : Step(s)) \/ (\E j \in Joiners, day \in Days \ {0} : SetEndDate(j, day))
Spec == Init /\ [][Next]_probationVars
-----------------------------------------------------------------------------
\* A probation is decided once, by whoever is first, and the employee's date follows
\* an extension (handlers that do not overlap).
DecidedOnce ==
    [][alone => \A r \in Reviews : reviews'[r] # reviews[r] /\ reviews[r] # NoRow =>
        /\ reviews[r].decision = "PENDING"
        /\ reviews'[r].decision = "EXTEND" => endDate'[reviews[r].of] = reviews'[r].extended]_probationVars

\* The slug that create_article_endpoint chooses is never refused by the unique
\* constraint, whichever articles were deleted before (handlers that do not overlap).
SlugAccepted == alone => \A s \in Sessions : Adding(s, "articles") => sess[s].new.slug \notin Slugs
=============================================================================
