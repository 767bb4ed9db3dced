----------------------------- MODULE MCJobBoard -----------------------------
(***************************************************************************)
(* Small instances of the marketplace: JobBoard, BuyerRequests, Reviews,   *)
(* ServiceCatalog and SellerLevels.  They share no state: a behaviour runs *)
(* one of them, chosen at the start, and the others stay at an initial     *)
(* state.                                                                  *)
(***************************************************************************)
EXTENDS JobBoard, BuyerRequests, Reviews, ServiceCatalog, SellerLevels, TLC

VARIABLE part

allVars == <<vars, requestVars, reviewVars, catalogVars, levelVars, part>>

AllInit ==
    /\ Init /\ RequestsInit /\ ReviewsInit /\ CatalogInit /\ LevelsInit
    /\ part \in {"jobs", "requests", "reviews", "catalog", "levels"}
    /\ part # "levels" => ~steady /\ profile.level = "new_seller"

AllNext ==
    \/ /\ part = "jobs" /\ Next
       /\ UNCHANGED <<requestVars, reviewVars, catalogVars, levelVars, part>>
    \/ /\ part = "requests" /\ RequestsNext
       /\ UNCHANGED <<vars, reviewVars, catalogVars, levelVars, part>>
    \/ /\ part = "reviews" /\ ReviewsNext
       /\ UNCHANGED <<vars, requestVars, catalogVars, levelVars, part>>
    \/ /\ part = "catalog" /\ CatalogNext
       /\ UNCHANGED <<vars, requestVars, reviewVars, levelVars, part>>
    \/ /\ part = "levels" /\ LevelsNext
       /\ UNCHANGED <<vars, requestVars, reviewVars, catalogVars, part>>

AllSpec == AllInit /\ [][AllNext]_allVars

\* The types and the invariants of the five.
MarketInv == IInv /\ RequestsInv /\ ReviewsInv /\ CatalogInv /\ LevelsInv

\* Thresholds within reach of three orders.
Level1Thresholds == [orders |-> 1, completion |-> 50, response |-> 80]

Level2Thresholds == [orders |-> 2, completion |-> 95, response |-> 90]

\* The instances share model values, which keeps the permutations few: Bidders
\* are Freelancers, BidderCalls, Moderators and Runs are Tabs, Deals and
\* SoldOrders are Offers.
Symmetry == Permutations(Freelancers) \cup Permutations(Tabs) \cup Permutations(Offers)
============================================================================
