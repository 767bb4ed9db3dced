------------------------- MODULE MCReleaseApproval -------------------------
(***************************************************************************)
(* Small instances of what administrators decide: ReleaseApproval, Payouts *)
(* and AdminGuard.  One seller's escrows are named for their amount.       *)
(*                                                                         *)
(* The three share no state: a behaviour runs one of them, chosen at the   *)
(* start, and the others stay at their initial state.                      *)
(***************************************************************************)
EXTENDS ReleaseApproval, Payouts, AdminGuard, TLC

Sizes == [small |-> 1, small2 |-> 1, small3 |-> 1, edge |-> 2, large |-> 3]

OneSeller == [e \in Escrows |-> "seller"]

AmountBySize == [e \in Escrows |-> Sizes[e]]

VARIABLE part

allVars == <<vars, payoutVars, guardVars, part>>

AllInit ==
    /\ Init /\ PayoutInit /\ GuardInit
    /\ part \in {"approvals", "payouts", "admins"}

AllNext ==
    \/ part = "approvals" /\ Next /\ UNCHANGED <<payoutVars, guardVars, part>>
    \/ part = "payouts" /\ PayoutNext /\ UNCHANGED <<vars, guardVars, part>>
    \/ part = "admins" /\ GuardNext /\ UNCHANGED <<vars, payoutVars, part>>

AllSpec == AllInit /\ [][AllNext]_allVars

Symmetry == Permutations(Admins) \cup Permutations(Requests)
              \cup Permutations(Approvals)
============================================================================
