------------------------------ MODULE Payouts ------------------------------
(***************************************************************************)
(* Freelancers withdraw what escrows released to them.                     *)
(*                                                                         *)
(* request_payout serialises the requests of one freelancer with an        *)
(* advisory lock, sums the ledger in two statements, and inserts a PAYOUT  *)
(* transaction; releases go on meanwhile.  An administrator sends the      *)
(* money by hand and then marks the transaction paid under its row lock.   *)
(* Nothing takes a payout back, so the sum of a freelancer's PROCESSING    *)
(* and COMPLETED payouts is kept as one number.                            *)
(***************************************************************************)
EXTENDS Integers

CONSTANTS
    Earners,            \* freelancers with a payout account
    PayoutRequests,     \* requests in flight, of freelancers and administrators
    PayoutRows,         \* PAYOUT transactions that may be inserted
    PayoutAmounts,      \* amounts a freelancer asks for
    MinimumPayout,      \* MINIMUM_PAYOUT_IQD
    Sandbox,            \* QI_CARD_SANDBOX or a development environment
    MaxReleased         \* bound on what escrows release to a freelancer

ASSUME PayoutAssumption ==
    /\ PayoutAmounts \subseteq Nat \ {0}
    /\ MinimumPayout \in Nat
    /\ MaxReleased \in Nat
    /\ Sandbox \in BOOLEAN
ASSUME NoPayoutAssumption == "none" \notin PayoutRows

VARIABLES
    earned,         \* sum of a freelancer's ESCROW_RELEASE transactions
    booked,         \* sum of the PAYOUT transactions, paid or not
    payout,         \* PAYOUT transactions
    marks,          \* history: PAYOUT_MARKED_PAID rows of each
    withdrawal      \* what each request has in hand

payoutVars == <<earned, booked, payout, marks, withdrawal>>

PayoutRow == [status : {"none", "processing", "completed"},
              payee : Earners \cup {"nobody"}]

WithdrawalStages == {"idle", "account", "locked", "earned_summed", "summed", "marking"}

\* "sum" is what was released when it was summed, then what is available.
Withdrawal == [stage : WithdrawalStages, who : Earners \cup {"nobody"},
               amount : PayoutAmounts \cup {0}, sum : Int,
               row : PayoutRows \cup {"none"}]

NoWithdrawal == [stage |-> "idle", who |-> "nobody", amount |-> 0, sum |-> 0,
                 row |-> "none"]

PayoutTypeOK ==
    /\ earned \in [Earners -> Nat]
    /\ booked \in [Earners -> Nat]
    /\ payout \in [PayoutRows -> PayoutRow]
    /\ marks \in [PayoutRows -> Nat]
    /\ withdrawal \in [PayoutRequests -> Withdrawal]

PayoutInit ==
    /\ earned = [f \in Earners |-> 0]
    /\ booked = [f \in Earners |-> 0]
    /\ payout = [p \in PayoutRows |-> [status |-> "none", payee |-> "nobody"]]
    /\ marks = [p \in PayoutRows |-> 0]
    /\ withdrawal = [r \in PayoutRequests |-> NoWithdrawal]

---------------------------------------------------------------------------

PayoutLedger == <<earned, booked, payout, marks>>

Withdrawing == {"locked", "earned_summed", "summed"}

\* Mutant: requests of one freelancer are not serialised.
AdvisoryFree_Always(f) == TRUE

\* pg_advisory_xact_lock(freelancer id), held to the end of the transaction.
AdvisoryFree(f) ==
    \A r \in PayoutRequests :
        ~(withdrawal[r].who = f /\ withdrawal[r].stage \in Withdrawing)

WithdrawalGoes(r, stage) ==
    withdrawal' = [withdrawal EXCEPT ![r].stage = stage]

EndWithdrawal(r) == withdrawal' = [withdrawal EXCEPT ![r] = NoWithdrawal]

\* The verified payment account is found.
RequestPayout(r, f, a) ==
    /\ withdrawal[r] = NoWithdrawal
    /\ withdrawal' = [withdrawal EXCEPT ![r] =
                         [NoWithdrawal EXCEPT !.stage = "account", !.who = f,
                                              !.amount = a]]
    /\ UNCHANGED PayoutLedger

TakeAdvisoryLock(r) ==
    /\ withdrawal[r].stage = "account"
    /\ AdvisoryFree(withdrawal[r].who)
    /\ WithdrawalGoes(r, "locked")
    /\ UNCHANGED PayoutLedger

SumEarned(r) ==
    /\ withdrawal[r].stage = "locked"
    /\ withdrawal' = [withdrawal EXCEPT ![r].stage = "earned_summed",
                                        ![r].sum = earned[withdrawal[r].who]]
    /\ UNCHANGED PayoutLedger

\* COMPLETED and PROCESSING payouts.
TakenOut(f) == booked[f]

SumPaidOut(r) ==
    /\ withdrawal[r].stage = "earned_summed"
    /\ withdrawal' = [withdrawal EXCEPT ![r].stage = "summed",
                         ![r].sum = withdrawal[r].sum - TakenOut(withdrawal[r].who)]
    /\ UNCHANGED PayoutLedger

\* In the sandbox the payout is complete at once.
InsertPayout(r, p) ==
    LET f == withdrawal[r].who
        a == withdrawal[r].amount IN
    /\ withdrawal[r].stage = "summed"
    /\ a <= withdrawal[r].sum
    /\ a >= MinimumPayout
    /\ payout[p].status = "none"
    /\ payout' = [payout EXCEPT ![p] =
                     [status |-> IF Sandbox THEN "completed" ELSE "processing",
                      payee |-> f]]
    /\ booked' = [booked EXCEPT ![f] = @ + a]
    /\ EndWithdrawal(r)
    /\ UNCHANGED <<earned, marks>>

\* A refusal, an error or a lost connection: nothing was written.
AbandonPayout(r) ==
    /\ withdrawal[r].stage # "idle"
    /\ EndWithdrawal(r)
    /\ UNCHANGED PayoutLedger

\* Mutant: the row is read without FOR UPDATE.
PayoutRowFree_Always(p) == TRUE

PayoutRowFree(p) == \A r \in PayoutRequests : withdrawal[r].row # p

LockPayout(r, p) ==
    /\ withdrawal[r] = NoWithdrawal
    /\ PayoutRowFree(p)
    /\ payout[p].status = "processing"
    /\ withdrawal' = [withdrawal EXCEPT ![r].stage = "marking", ![r].row = p]
    /\ UNCHANGED PayoutLedger

\* The audit row is written in the same transaction.
MarkPayoutPaid(r) ==
    LET p == withdrawal[r].row IN
    /\ withdrawal[r].stage = "marking"
    /\ payout' = [payout EXCEPT ![p].status = "completed"]
    /\ marks' = [marks EXCEPT ![p] = @ + 1]
    /\ EndWithdrawal(r)
    /\ UNCHANGED <<earned, booked>>

\* An escrow of the freelancer is released, by whichever handler.
EscrowReleases(f, a) ==
    /\ earned[f] + a <= MaxReleased
    /\ earned' = [earned EXCEPT ![f] = @ + a]
    /\ UNCHANGED <<booked, payout, marks, withdrawal>>

PayoutNext ==
    \/ \E r \in PayoutRequests :
          \/ \E f \in Earners, a \in PayoutAmounts : RequestPayout(r, f, a)
          \/ TakeAdvisoryLock(r)
          \/ SumEarned(r)
          \/ SumPaidOut(r)
          \/ \E p \in PayoutRows : InsertPayout(r, p) \/ LockPayout(r, p)
          \/ AbandonPayout(r)
          \/ MarkPayoutPaid(r)
    \/ \E f \in Earners, a \in PayoutAmounts : EscrowReleases(f, a)

PayoutSpec == PayoutInit /\ [][PayoutNext]_payoutVars

---------------------------------------------------------------------------

\* Freelancers never take out more than was released to them, however many
\* requests they send at once and whatever is released or paid meanwhile.
PayoutsBacked == \A f \in Earners : booked[f] <= earned[f]

\* A payout is marked paid at most once, by whichever administrator: the
\* money is sent by hand, and a second mark would be a second transfer.
MarkedOnce ==
    \A p \in PayoutRows :
        /\ marks[p] <= 1
        /\ marks[p] = 1 => payout[p].status = "completed"

---------------------------------------------------------------------------

\* One request of a freelancer at a time is between its lock and its end.
OneWithdraws ==
    \A r, s \in PayoutRequests :
        /\ withdrawal[r].stage \in Withdrawing
        /\ withdrawal[s].stage \in Withdrawing
        /\ withdrawal[r].who = withdrawal[s].who
        => r = s

\* What a request has summed is still available: releases only add to it.
SumsHold ==
    \A r \in PayoutRequests :
        LET w == withdrawal[r] IN
        /\ w.stage \in Withdrawing \cup {"account"} => w.who \in Earners
        /\ w.stage = "earned_summed" => w.sum <= earned[w.who]
        /\ w.stage = "summed" => w.sum <= earned[w.who] - booked[w.who]

\* A payout is marked by the request that holds its row while it is still
\* to be paid.
MarkersHold ==
    \A r \in PayoutRequests :
        LET w == withdrawal[r] IN
        /\ w.stage = "marking" <=> w.row \in PayoutRows
        /\ w.stage = "marking" =>
              /\ payout[w.row].status = "processing"
              /\ marks[w.row] = 0
              /\ \A s \in PayoutRequests \ {r} : withdrawal[s].row # w.row

FreshUnmarked ==
    \A p \in PayoutRows : payout[p].status # "completed" => marks[p] = 0

PayoutInv == PayoutTypeOK /\ OneWithdraws /\ SumsHold /\ MarkersHold
                /\ FreshUnmarked /\ PayoutsBacked /\ MarkedOnce
============================================================================
