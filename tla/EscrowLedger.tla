---------------------------- MODULE EscrowLedger ----------------------------
(***************************************************************************)
(* What the ledger promises about one payment, however the orders and      *)
(* their handlers behave: it is booked in once, and again only after a     *)
(* failure redirect reopened it, and every booking that takes it out, to   *)
(* the seller or back to the buyer, uses up a booking in of its own.       *)
(***************************************************************************)
EXTENDS Naturals

CONSTANT Payments

VARIABLES
    funded,         \* bookings in of each payment
    reopened,       \* failure redirects that reopened it
    released,       \* bookings out to the seller
    refunded        \* bookings back to the buyer

ledgerVars == <<funded, reopened, released, refunded>>

LedgerInit ==
    /\ funded = [p \in Payments |-> 0]
    /\ reopened = [p \in Payments |-> 0]
    /\ released = [p \in Payments |-> 0]
    /\ refunded = [p \in Payments |-> 0]

Fund(p) ==
    /\ funded[p] <= reopened[p]
    /\ funded' = [funded EXCEPT ![p] = @ + 1]
    /\ UNCHANGED <<reopened, released, refunded>>

Reopen(p) ==
    /\ reopened' = [reopened EXCEPT ![p] = @ + 1]
    /\ UNCHANGED <<funded, released, refunded>>

Release(p) ==
    /\ released[p] < funded[p]
    /\ released' = [released EXCEPT ![p] = @ + 1]
    /\ UNCHANGED <<funded, reopened, refunded>>

Refund(p) ==
    /\ refunded[p] < funded[p]
    /\ refunded' = [refunded EXCEPT ![p] = @ + 1]
    /\ UNCHANGED <<funded, reopened, released>>

LedgerNext ==
    \E p \in Payments : Fund(p) \/ Reopen(p) \/ Release(p) \/ Refund(p)

LedgerSpec == LedgerInit /\ [][LedgerNext]_ledgerVars
============================================================================
