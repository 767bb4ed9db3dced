------------------------------- MODULE Reviews -------------------------------
(***************************************************************************)
(* The reviews of one person and the two caches of their rating: on the    *)
(* person's row and on a service of theirs.  A submission inserts its      *)
(* review, computes the aggregate, writes it to the person's row, which it *)
(* had loaded with the order, and copies it to the services; all of it in  *)
(* one transaction, at READ COMMITTED.                                     *)
(*                                                                         *)
(* A rating is two columns, the average and the number of reviews.  The    *)
(* ORM writes to the person's row those of the two that differ from what   *)
(* it had loaded; the services are updated with both.                      *)
(***************************************************************************)
EXTENDS Integers, FiniteSets, Functions

CONSTANTS
    Deals,              \* completed orders and contracts, each with a reviewer
    Stars,              \* the ratings a reviewer may give
    Submissions,        \* requests in flight
    NoDeal

ASSUME ReviewsAssumption ==
    /\ IsFiniteSet(Deals) /\ NoDeal \notin Deals
    /\ 0 \notin Stars

VARIABLES
    completed,      \* the deals that are COMPLETED
    review,         \* committed reviews: the stars each deal was given, or 0
    person,         \* users.avg_rating, users.total_reviews of the reviewee
    services,       \* services.avg_rating, services.reviews_count
    submission,     \* what each request has in hand
    overlapped      \* history: the last submission overlapped another one

reviewVars == <<completed, review, person, services, submission, overlapped>>

Reviewed(R) == {d \in Deals : R[d] # 0}

\* round(avg, 2): in hundredths of a star, rounded to the nearest one.
Average(R) ==
    LET n == Cardinality(Reviewed(R)) IN
    IF Reviewed(R) = {} THEN 0
    ELSE (200 * SumFunctionOnSet(R, Reviewed(R)) + n) \div (2 * n)

Rating(R) == [average |-> Average(R), count |-> Cardinality(Reviewed(R))]

Reviews == [Deals -> Stars \cup {0}]

Averages == {Average(R) : R \in Reviews}

RatingColumns == [average : Averages, count : 0 .. Cardinality(Deals)]

NoReviews == [d \in Deals |-> 0]

\* "inserted": the review is flushed.  "counted": the aggregate is computed.
\* "written": the person's row is written, and locked.
ReviewStages == {"idle", "loaded", "inserted", "counted", "written"}

\* "seen" are the columns as loaded with the deal, "found" the aggregate;
\* "writes": the ORM writes the average; "met" is history.
Submission == [stage : ReviewStages, deal : Deals \cup {NoDeal},
               stars : Stars \cup {0}, seen : RatingColumns, found : RatingColumns,
               writes : BOOLEAN, met : BOOLEAN]

NoSubmission == [stage |-> "idle", deal |-> NoDeal, stars |-> 0,
                 seen |-> Rating(NoReviews), found |-> Rating(NoReviews),
                 writes |-> FALSE, met |-> FALSE]

ReviewsTypeOK ==
    /\ completed \subseteq Deals
    /\ review \in Reviews
    /\ person \in RatingColumns
    /\ services \in RatingColumns
    /\ submission \in [Submissions -> Submission]
    /\ overlapped \in BOOLEAN

ReviewsInit ==
    /\ completed = {}
    /\ review = NoReviews
    /\ person = Rating(NoReviews)
    /\ services = Rating(NoReviews)
    /\ submission = [s \in Submissions |-> NoSubmission]
    /\ overlapped = FALSE

---------------------------------------------------------------------------

UnderWay == {s \in Submissions : submission[s].stage # "idle"}

\* The index entry of a review that is not committed yet is waited for, and so
\* is the person's row.
EntryFree(s, d) ==
    \A q \in Submissions \ {s} :
        submission[q].deal = d => submission[q].stage \in {"idle", "loaded"}

PersonFree(s) == \A q \in Submissions \ {s} : submission[q].stage # "written"

DealCompletes(d) ==
    /\ d \notin completed
    /\ completed' = completed \cup {d}
    /\ UNCHANGED <<review, person, services, submission, overlapped>>

\* The deal with its two parties, and no review of this reviewer.
LoadDeal(s, d, n) ==
    /\ submission[s] = NoSubmission
    /\ d \in completed
    /\ review[d] = 0
    /\ submission' =
          [q \in Submissions |->
              IF q = s THEN [NoSubmission EXCEPT !.stage = "loaded", !.deal = d,
                                                 !.stars = n, !.seen = person,
                                                 !.met = UnderWay # {}]
              ELSE IF q \in UnderWay THEN [submission[q] EXCEPT !.met = TRUE]
              ELSE submission[q]]
    /\ UNCHANGED <<completed, review, person, services, overlapped>>

\* Two requests of one reviewer: the unique index refuses the second one.
InsertReview(s) ==
    LET d == submission[s].deal IN
    /\ submission[s].stage = "loaded"
    /\ EntryFree(s, d)
    /\ review[d] = 0
    /\ submission' = [submission EXCEPT ![s].stage = "inserted"]
    /\ UNCHANGED <<completed, review, person, services, overlapped>>

\* Mutant: the aggregate leaves out the review that was just inserted.
Visible_Committed(s) == review

\* What is committed, and the transaction's own.
Visible(s) == [review EXCEPT ![submission[s].deal] = submission[s].stars]

Aggregate(s) ==
    /\ submission[s].stage = "inserted"
    /\ submission' = [submission EXCEPT ![s].stage = "counted",
                                        ![s].found = Rating(Visible(s))]
    /\ UNCHANGED <<completed, review, person, services, overlapped>>

\* Each column is written only if it differs from what was loaded.  (The
\* average is loaded as a decimal and set as a float: one that is not exact in
\* binary differs from itself.)  The write locks the row.
WritesCount(s) == submission[s].found.count # submission[s].seen.count

FlushPerson(s, writes) ==
    /\ submission[s].stage = "counted"
    /\ submission[s].found.average # submission[s].seen.average => writes
    /\ writes \/ WritesCount(s) => PersonFree(s)
    /\ submission' = [submission EXCEPT ![s].stage = "written",
                                        ![s].writes = writes]
    /\ UNCHANGED <<completed, review, person, services, overlapped>>

\* The mirror is an UPDATE of both columns without a condition; then the
\* notification, and the commit.
CommitReview(s) ==
    LET k == submission[s] IN
    /\ k.stage = "written"
    /\ review' = [review EXCEPT ![k.deal] = k.stars]
    /\ person' = [average |-> IF k.writes THEN k.found.average ELSE person.average,
                  count |-> IF WritesCount(s) THEN k.found.count ELSE person.count]
    /\ services' = k.found
    /\ overlapped' = k.met
    /\ submission' = [submission EXCEPT ![s] = NoSubmission]
    /\ UNCHANGED completed

RollbackReview(s) ==
    /\ submission[s].stage # "idle"
    /\ submission' = [submission EXCEPT ![s] = NoSubmission]
    /\ UNCHANGED <<completed, review, person, services, overlapped>>

ReviewsNext ==
    \/ \E d \in Deals : DealCompletes(d)
    \/ \E s \in Submissions :
          \/ \E d \in Deals, n \in Stars : LoadDeal(s, d, n)
          \/ InsertReview(s)
          \/ Aggregate(s)
          \/ \E w \in BOOLEAN : FlushPerson(s, w)
          \/ CommitReview(s)
          \/ RollbackReview(s)

ReviewsSpec == ReviewsInit /\ [][ReviewsNext]_reviewVars

---------------------------------------------------------------------------

\* The cached ratings.  However submissions overlap, the services count as
\* many reviews as the person's row, and neither counts one that does not
\* exist.  A submission that overlapped no other one leaves both columns of
\* both exact, whatever overlapping ones left behind.  (These may leave the
\* numbers too small, and the two averages different.)
RatingsAgree ==
    /\ services.count = person.count
    /\ person.count <= Cardinality(Reviewed(review))
    /\ ~overlapped => person = Rating(review) /\ services = Rating(review)

\* What a request has found and computed is at most the reviews that exist, and
\* exact if it overlaps no other one; then the row is as it was loaded.
SubmissionHolds(s) ==
    LET k == submission[s]
        n == Cardinality(Reviewed(review)) IN
    /\ k.stage # "idle" =>
          k.deal \in completed /\ k.stars \in Stars /\ k.seen.count <= n
    /\ k.stage \in {"inserted", "counted", "written"} => review[k.deal] = 0
    /\ k.stage \in {"counted", "written"} =>
          /\ k.seen.count < k.found.count /\ k.found.count <= n + 1
          /\ ~k.met => k.found = Rating(Visible(s))
    /\ k.stage = "written" => k.writes \/ k.found.average = k.seen.average
    /\ k.stage # "idle" /\ ~k.met => UnderWay = {s} /\ k.seen = person

\* A review is of a completed deal, and inserted once.
SubmissionsHold ==
    /\ Reviewed(review) \subseteq completed
    /\ \A s \in Submissions : SubmissionHolds(s)
    /\ \A s, q \in Submissions :
          s # q /\ submission[s].deal = submission[q].deal
            /\ submission[s].stage \in {"inserted", "counted", "written"} =>
                  submission[q].stage \in {"idle", "loaded"}

ReviewsInv == ReviewsTypeOK /\ SubmissionsHold /\ RatingsAgree
============================================================================
