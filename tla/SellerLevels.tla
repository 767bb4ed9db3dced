---------------------------- MODULE SellerLevels ----------------------------
(***************************************************************************)
(* The statistics the nightly job keeps of one freelancer: orders counted  *)
(* while others complete and cancel them, the level that follows from the  *)
(* counts, and the part of a service's rank that follows from both.        *)
(*                                                                         *)
(* Each count is a statement of its own, on what is committed by then.     *)
(* The scheduler's lock may expire under a slow run: runs may overlap.     *)
(***************************************************************************)
EXTENDS FiniteSets, Naturals

CONSTANTS
    SoldOrders,         \* orders of the freelancer
    Runs,               \* nightly runs that may be under way
    Level1, Level2      \* thresholds: [orders, completion, response], in percent

ASSUME LevelsAssumption ==
    /\ IsFiniteSet(SoldOrders)
    /\ \A level \in {Level1, Level2} :
          /\ level.orders \in Nat /\ level.completion \in Nat
          /\ level.response \in Nat \ {0}

VARIABLES
    sold,           \* status of each order
    steady,         \* rating and age of the account are good enough for any level
    profile,        \* the statistics in the freelancer's users row
    nightly,        \* what each run has counted
    score           \* services.rank_score: the part for completion and level

levelVars == <<sold, steady, profile, nightly, score>>

Levels == {"new_seller", "level_1", "level_2", "top_rated"}

\* completion_rate is completed / total.
Profile == [completed : Nat, total : Nat, response : Nat, level : Levels]

Nightly == [stage : {"idle", "completed", "counted", "ranking", "scored"},
            completed : Nat, total : Nat, score : Nat]

NoNightly == [stage |-> "idle", completed |-> 0, total |-> 0, score |-> 0]

LevelsTypeOK ==
    /\ sold \in [SoldOrders -> {"none", "pending", "open", "completed", "cancelled"}]
    /\ steady \in BOOLEAN
    /\ profile \in Profile
    /\ nightly \in [Runs -> Nightly]
    /\ score \in Nat

\* A top-rated seller was made one by hand.
LevelsInit ==
    /\ sold = [o \in SoldOrders |-> "none"]
    /\ steady \in BOOLEAN
    /\ profile \in [completed : {0}, total : {0}, response : {0},
                    level : {"new_seller", "top_rated"}]
    /\ nightly = [r \in Runs |-> NoNightly]
    /\ score = 0

Sold(statuses) == Cardinality({o \in SoldOrders : sold[o] \in statuses})

---------------------------------------------------------------------------

\* The life of an order, see OrderEscrow: placed, paid, completed; expired, or
\* refunded after a dispute.
OrderMoves(o) ==
    /\ \E move \in {<<"none", "pending">>, <<"pending", "open">>, <<"pending", "cancelled">>,
                    <<"open", "completed">>, <<"open", "cancelled">>} :
          /\ sold[o] = move[1]
          /\ sold' = [sold EXCEPT ![o] = move[2]]
    /\ UNCHANGED <<steady, profile, nightly, score>>

CountCompleted(r) ==
    /\ nightly[r].stage = "idle"
    /\ nightly' = [nightly EXCEPT ![r] =
                      [NoNightly EXCEPT !.stage = "completed", !.completed = Sold({"completed"})]]
    /\ UNCHANGED <<sold, steady, profile, score>>

\* Every order that is no longer pending, an unpaid one that expired too.
CountTotal(r) ==
    /\ nightly[r].stage = "completed"
    /\ nightly' = [nightly EXCEPT ![r].stage = "counted",
                                  ![r].total = Sold({"open", "completed", "cancelled"})]
    /\ UNCHANGED <<sold, steady, profile, score>>

Qualifies(level, completed, total) ==
    /\ steady
    /\ completed >= level.orders
    /\ total > 0 /\ 100 * completed >= level.completion * total
    /\ profile.response >= level.response

NewLevel(completed, total) ==
    IF profile.level = "top_rated" THEN "top_rated"
    ELSE IF Qualifies(Level2, completed, total) THEN "level_2"
    ELSE IF Qualifies(Level1, completed, total) THEN "level_1"
    ELSE "new_seller"

RecalculateLevel(r) ==
    LET k == nightly[r] IN
    /\ k.stage = "counted"
    /\ profile' = [profile EXCEPT !.completed = k.completed, !.total = k.total,
                                  !.level = NewLevel(k.completed, k.total)]
    /\ nightly' = [nightly EXCEPT ![r].stage = "ranking"]
    /\ UNCHANGED <<sold, steady, score>>

\* 20 for the completion rate, 5 for the level, in tenths.
Score(p) ==
    (IF p.total = 0 THEN 0 ELSE (200 * p.completed) \div p.total)
      + CASE p.level = "new_seller" -> 0
          [] p.level = "level_1" -> 17
          [] p.level = "level_2" -> 33
          [] p.level = "top_rated" -> 50

ReadForRank(r) ==
    /\ nightly[r].stage = "ranking"
    /\ nightly' = [nightly EXCEPT ![r].stage = "scored", ![r].score = Score(profile)]
    /\ UNCHANGED <<sold, steady, profile, score>>

RefreshRank(r) ==
    /\ nightly[r].stage = "scored"
    /\ score' = nightly[r].score
    /\ nightly' = [nightly EXCEPT ![r] = NoNightly]
    /\ UNCHANGED <<sold, steady, profile>>

\* The run fails, and its transaction rolls back.
RunFails(r) ==
    /\ nightly[r] # NoNightly
    /\ nightly' = [nightly EXCEPT ![r] = NoNightly]
    /\ UNCHANGED <<sold, steady, profile, score>>

LevelsNext ==
    \/ \E o \in SoldOrders : OrderMoves(o)
    \/ \E r \in Runs :
          \/ CountCompleted(r) \/ CountTotal(r) \/ RecalculateLevel(r)
          \/ ReadForRank(r) \/ RefreshRank(r) \/ RunFails(r)

LevelsSpec == LevelsInit /\ [][LevelsNext]_levelVars

---------------------------------------------------------------------------

\* However the counts interleave with the orders and with another run, nobody
\* completes more than they sold: completed orders are counted first.
RateIsARate ==
    /\ profile.completed <= profile.total
    /\ \A r \in Runs : nightly[r].stage = "counted" => nightly[r].completed <= nightly[r].total

\* The score of a service stays within its scale.
ScoreInScale == score <= 250

\* What a run has counted is out of date in one direction only.  No seller ever
\* rises: nothing writes the response rate that both levels ask for.
LevelsInv ==
    /\ LevelsTypeOK
    /\ RateIsARate
    /\ ScoreInScale
    /\ \A r \in Runs :
          /\ nightly[r].completed <= Sold({"completed"})
          /\ nightly[r].score <= 250
    /\ profile.level \in {"new_seller", "top_rated"} /\ profile.response = 0
============================================================================
