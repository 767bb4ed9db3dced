-------------------------- MODULE MilestoneEscrow --------------------------
(***************************************************************************)
(* One contract, its milestones, and the escrow payments that fund them.   *)
(*                                                                         *)
(* ContractService loads a milestone with its contract, tests both, and    *)
(* writes by id later, without a lock.  PaymentService locks: the          *)
(* milestone while it is funded, the escrow while it is released.  The two *)
(* meet in review_milestone, whose release autoflushes APPROVED first (the *)
(* milestone's row lock) and whose sum over the milestones is taken before *)
(* the commit.                                                             *)
(*                                                                         *)
(* Each milestone is paid through Qi Card under the order id               *)
(* "escrow-<milestone>", which every retry uses again.                     *)
(***************************************************************************)
EXTENDS Integers, FiniteSets, Functions

CONSTANTS
    Milestones,
    ClientTabs,         \* requests of the client in flight
    FreelancerTabs,     \* requests of the freelancer in flight
    FailureTabs,        \* failure and cancel redirects in flight
    Amounts,            \* amounts a milestone can have
    Total,              \* contracts.total_amount
    MaxAttempts         \* bound on the payments of a milestone

Sessions == ClientTabs \cup FreelancerTabs \cup FailureTabs

Attempts == 1 .. MaxAttempts

Payments == Milestones \X Attempts

ASSUME MilestoneAssumption == IsFiniteSet(Milestones)
ASSUME AmountAssumption == Amounts \subseteq Nat \ {0}
ASSUME TotalAssumption == Total \in Nat
ASSUME AttemptAssumption == MaxAttempts \in Nat
ASSUME TabAssumption == FailureTabs \cap (ClientTabs \cup FreelancerTabs) = {}

VARIABLES
    contract,       \* contracts row: status and amount_paid
    milestone,      \* milestones rows
    escrow,         \* status of the escrow of each payment
    fundTx,         \* status of its ESCROW_FUND transaction
    funded,         \* history: times the escrow was marked FUNDED
    failed,         \* history: failure redirects that wrote
    released,       \* ledger: ESCROW_RELEASE transactions of the payment
    req,            \* what each request has in hand
    overtaken,      \* history: requests that others committed past
    orderly         \* history: what was committed is free of such requests

Rows == <<contract, milestone, escrow, fundTx>>

Books == <<funded, failed, released>>

Course == <<overtaken, orderly>>

vars == <<contract, milestone, escrow, fundTx, funded, failed, released, req,
          overtaken, orderly>>

MilestoneStatus == {"pending", "in_progress", "submitted", "approved",
                    "revision_requested", "paid"}

MilestoneRow == [status : MilestoneStatus \cup {"none", "deleted"},
                 amount : Amounts \cup {0}]

ContractRow == [status : {"active", "completed"}, paid : Nat]

\* "gone": the row went with its milestone (ON DELETE CASCADE).
EscrowStatus == {"none", "pending", "funded", "released", "refunded", "gone"}

Ops == {"none", "add", "update", "delete", "start", "submit", "revise",
        "approve", "failed"}

Stages == {"idle", "loaded", "no_escrow", "flushed", "tallied"}

\* "amount" is the milestone's as loaded (or the new one, for add and
\* update), "paid" the contract's amount_paid as loaded, "sum" and "all" what
\* an approval found in the other milestones.
Request == [op : Ops, stage : Stages, m : Milestones \cup {"none"},
            k : Attempts \cup {0}, amount : Amounts \cup {0}, paid : Nat,
            sum : Nat, all : BOOLEAN]

Idle == [op |-> "none", stage |-> "idle", m |-> "none", k |-> 0,
         amount |-> 0, paid |-> 0, sum |-> 0, all |-> FALSE]

TypeOK ==
    /\ contract \in ContractRow
    /\ milestone \in [Milestones -> MilestoneRow]
    /\ escrow \in [Payments -> EscrowStatus]
    /\ fundTx \in [Payments -> {"none", "pending", "completed", "failed"}]
    /\ funded \in [Payments -> Nat]
    /\ failed \in [Payments -> Nat]
    /\ released \in [Payments -> Nat]
    /\ req \in [Sessions -> Request]
    /\ overtaken \subseteq ClientTabs \cup FreelancerTabs
    /\ orderly \in BOOLEAN

Init ==
    /\ contract = [status |-> "active", paid |-> 0]
    /\ milestone = [m \in Milestones |-> [status |-> "none", amount |-> 0]]
    /\ escrow = [p \in Payments |-> "none"]
    /\ fundTx = [p \in Payments |-> "none"]
    /\ funded = [p \in Payments |-> 0]
    /\ failed = [p \in Payments |-> 0]
    /\ released = [p \in Payments |-> 0]
    /\ req = [s \in Sessions |-> Idle]
    /\ overtaken = {}
    /\ orderly = TRUE

---------------------------------------------------------------------------

At(s, op, stage) == req[s].op = op /\ req[s].stage = stage

Exists(m) == milestone[m].status \in MilestoneStatus

PaymentsOf(m) == {m} \X Attempts

\* uq_escrow_milestone_active: what the partial unique index counts.
Active(p) == escrow[p] \in {"pending", "funded"}

\* An approval holds its milestone from its first flush, and its escrow from
\* the SELECT ... FOR UPDATE; both until it ends.
MilestoneFree(m) ==
    \A s \in ClientTabs : ~(req[s].m = m /\ req[s].stage \in {"flushed", "tallied"})

\* (mutant: the escrow is read without FOR UPDATE)
EscrowFree_Always(p) == TRUE

EscrowFree(p) ==
    \A s \in ClientTabs :
        ~(At(s, "approve", "tallied") /\ <<req[s].m, req[s].k>> = p)

Load(s, op, m, a) ==
    req' = [req EXCEPT ![s] = [op |-> op, stage |-> "loaded", m |-> m, k |-> 0,
                               amount |-> a, paid |-> contract.paid,
                               sum |-> 0, all |-> FALSE]]

End(s) == req' = [req EXCEPT ![s] = Idle]

SamePerson(s, t) ==
    \/ s \in ClientTabs /\ t \in ClientTabs
    \/ s \in FreelancerTabs /\ t \in FreelancerTabs

(* A request is overtaken when, since it loaded its rows, its sender has   *)
(* committed another one, or anybody one that was overtaken itself.  What  *)
(* is committed is orderly until an overtaken request commits, and again   *)
(* once an approval that was not overtaken has summed everything up.       *)
Commit(s, summed) ==
    /\ End(s)
    /\ overtaken' = {t \in (ClientTabs \cup FreelancerTabs) \ {s} :
                       \/ t \in overtaken
                       \/ req[t] # Idle /\ (SamePerson(s, t) \/ s \in overtaken)}
    /\ orderly' = (s \notin overtaken /\ (orderly \/ summed))

SetMilestone(m, status) ==
    milestone' = [milestone EXCEPT ![m].status = status]

\* UPDATE milestones ... WHERE id: the row is there and nobody holds it.
\* (A deleted row matches nothing; SQLAlchemy raises and the request ends.)
Writable(m) == Exists(m) /\ MilestoneFree(m)

---------------------------------------------------------------------------
(* ContractService: the client's milestones.                               *)

Existing == {m \in Milestones : Exists(m)}

Price == [m \in Milestones |-> milestone[m].amount]

Worth(M) == SumFunctionOnSet(Price, M)

LoadAdd(s, m, a) ==
    /\ req[s] = Idle
    /\ milestone[m].status = "none"
    /\ contract.status = "active"
    /\ Worth(Existing) + a <= Total
    /\ Load(s, "add", m, a)
    /\ UNCHANGED <<Rows, Books, Course>>

AddMilestone(s) ==
    LET m == req[s].m IN
    /\ At(s, "add", "loaded")
    /\ milestone[m].status = "none"
    /\ milestone' = [milestone EXCEPT ![m] = [status |-> "pending",
                                              amount |-> req[s].amount]]
    /\ Commit(s, FALSE)
    /\ UNCHANGED <<contract, escrow, fundTx, Books>>

\* update_milestone does not look at the contract's total again.
LoadUpdate(s, m, a) ==
    /\ req[s] = Idle
    /\ milestone[m].status = "pending"
    /\ Load(s, "update", m, a)
    /\ UNCHANGED <<Rows, Books, Course>>

UpdateMilestone(s) ==
    LET m == req[s].m IN
    /\ At(s, "update", "loaded")
    /\ Writable(m)
    /\ milestone' = [milestone EXCEPT ![m].amount = req[s].amount]
    /\ Commit(s, FALSE)
    /\ UNCHANGED <<contract, escrow, fundTx, Books>>

LoadDelete(s, m) ==
    /\ req[s] = Idle
    /\ milestone[m].status = "pending"
    /\ Load(s, "delete", m, 0)
    /\ UNCHANGED <<Rows, Books, Course>>

\* escrows.milestone_id cascades; transactions keep their row.
DeleteMilestone(s) ==
    LET m == req[s].m IN
    /\ At(s, "delete", "loaded")
    /\ Writable(m)
    /\ SetMilestone(m, "deleted")
    /\ escrow' = [p \in Payments |->
                     IF p \in PaymentsOf(m) /\ escrow[p] # "none"
                     THEN "gone" ELSE escrow[p]]
    /\ Commit(s, FALSE)
    /\ UNCHANGED <<contract, fundTx, Books>>

---------------------------------------------------------------------------
(* The freelancer's side.                                                  *)

LoadStart(s, m) ==
    /\ req[s] = Idle
    /\ contract.status = "active"
    /\ milestone[m].status = "pending"
    /\ Load(s, "start", m, 0)
    /\ UNCHANGED <<Rows, Books, Course>>

StartMilestone(s) ==
    /\ At(s, "start", "loaded")
    /\ Writable(req[s].m)
    /\ SetMilestone(req[s].m, "in_progress")
    /\ Commit(s, FALSE)
    /\ UNCHANGED <<contract, escrow, fundTx, Books>>

Submittable == {"in_progress", "revision_requested"}

LoadSubmit(s, m) ==
    /\ req[s] = Idle
    /\ contract.status = "active"
    /\ milestone[m].status \in Submittable
    /\ Load(s, "submit", m, 0)
    /\ UNCHANGED <<Rows, Books, Course>>

SubmitMilestone(s) ==
    /\ At(s, "submit", "loaded")
    /\ Writable(req[s].m)
    /\ SetMilestone(req[s].m, "submitted")
    /\ Commit(s, FALSE)
    /\ UNCHANGED <<contract, escrow, fundTx, Books>>

---------------------------------------------------------------------------
(* review_milestone.                                                       *)

LoadReview(s, op, m) ==
    /\ req[s] = Idle
    /\ op \in {"revise", "approve"}
    /\ contract.status = "active"
    /\ milestone[m].status = "submitted"
    /\ Load(s, op, m, milestone[m].amount)
    /\ UNCHANGED <<Rows, Books, Course>>

RequestRevision(s) ==
    /\ At(s, "revise", "loaded")
    /\ Writable(req[s].m)
    /\ SetMilestone(req[s].m, "revision_requested")
    /\ Commit(s, FALSE)
    /\ UNCHANGED <<contract, escrow, fundTx, Books>>

\* The SELECT in release_escrow flushes the milestone first: the UPDATE to
\* APPROVED waits for the row and then keeps it.
FlushApproved(s) ==
    /\ At(s, "approve", "loaded")
    /\ Writable(req[s].m)
    /\ req' = [req EXCEPT ![s].stage = "flushed"]
    /\ UNCHANGED <<Rows, Books, Course>>

\* Mutant: release_escrow does not ask for the status.
Releasable_Any(m) == {p \in PaymentsOf(m) : escrow[p] \in {"funded", "released"}}

Releasable(m) == {p \in PaymentsOf(m) : escrow[p] = "funded"}

\* No funded escrow: the milestone stays APPROVED.
ApproveUnfunded(s) ==
    LET m == req[s].m IN
    /\ At(s, "approve", "flushed")
    /\ Releasable(m) = {}
    /\ SetMilestone(m, "approved")
    /\ Commit(s, FALSE)
    /\ UNCHANGED <<contract, escrow, fundTx, Books>>

\* amount_paid is the sum over the milestones that are PAID.
Counted(M) == {m \in M : milestone[m].status = "paid"}

AllPaid(M) == \A m \in M : milestone[m].status = "paid"

\* Mutant: the milestone's amount is added to what the contract said.
NewPaid_Increment(s) == req[s].paid + req[s].amount

NewPaid(s) == Worth(Counted(Existing \ {req[s].m})) + req[s].amount

\* The escrow is locked and released, and _get_contract reads the other
\* milestones; this one is PAID in the session.
Tally(s) ==
    LET m == req[s].m IN
    /\ At(s, "approve", "flushed")
    /\ \E p \in Releasable(m) :
          /\ EscrowFree(p)
          /\ req' = [req EXCEPT ![s].stage = "tallied", ![s].k = p[2],
                                ![s].sum = NewPaid(s),
                                ![s].all = AllPaid(Existing \ {m})]
    /\ UNCHANGED <<Rows, Books, Course>>

\* ck_contract_paid_le_total refuses the sum an enlarged milestone makes.
\* amount_paid is written only when it differs from what was loaded.
FinishApproval(s) ==
    LET m == req[s].m
        p == <<m, req[s].k>> IN
    /\ At(s, "approve", "tallied")
    /\ req[s].sum <= Total
    /\ SetMilestone(m, "paid")
    /\ escrow' = [escrow EXCEPT ![p] = "released"]
    /\ released' = [released EXCEPT ![p] = @ + 1]
    /\ contract' = [status |-> IF req[s].all THEN "completed" ELSE contract.status,
                    paid |-> IF req[s].sum # req[s].paid
                             THEN req[s].sum ELSE contract.paid]
    /\ Commit(s, TRUE)
    /\ UNCHANGED <<fundTx, funded, failed>>

\* An error, a refused CHECK or a closed connection before the commit.
Rollback(s) ==
    /\ req[s] # Idle
    /\ End(s)
    /\ overtaken' = overtaken \ {s}
    /\ UNCHANGED <<Rows, Books, orderly>>

---------------------------------------------------------------------------
(* PaymentService: funding, redirects, and the administrator's release.    *)

Used(m) == {p \in PaymentsOf(m) : fundTx[p] # "none"}

Unfunded(m) == \A p \in PaymentsOf(m) : ~Active(p)

\* The milestone is locked from the tests to the commit.
FundEscrow(s, m, k) ==
    /\ req[s] = Idle
    /\ milestone[m].status \in {"pending", "in_progress"}
    /\ MilestoneFree(m)
    /\ Unfunded(m)
    /\ Used(m) = {m} \X (1 .. k - 1)
    /\ escrow' = [escrow EXCEPT ![<<m, k>>] = "pending"]
    /\ fundTx' = [fundTx EXCEPT ![<<m, k>>] = "pending"]
    /\ UNCHANGED <<contract, milestone, Books, req, Course>>

\* scalar_one_or_none on the order id: two attempts make it raise.
TheTransaction(p) == Used(p[1]) = {p}

\* Mutant: the duplicate redirect is handled again.
Unprocessed_Always(p) == TRUE

Unprocessed(p) == fundTx[p] # "completed"

\* The success redirect; browsers repeat it.  Its signature is the HMAC of the
\* order id, the same in the success, failure and cancel URLs of every attempt,
\* and the gateway is not asked: the redirect may come once the transaction is
\* there, whatever the gateway did.
ConfirmPayment(p) ==
    /\ TheTransaction(p)
    /\ Unprocessed(p)
    /\ EscrowFree(p)
    /\ escrow[p] \in {"pending", "refunded"} =>
          \A q \in PaymentsOf(p[1]) \ {p} : ~Active(q)
    /\ fundTx' = [fundTx EXCEPT ![p] = "completed"]
    /\ IF escrow[p] = "gone" THEN UNCHANGED <<escrow, funded>>
       ELSE /\ escrow' = [escrow EXCEPT ![p] = "funded"]
            /\ funded' = [funded EXCEPT ![p] = @ + 1]
    /\ UNCHANGED <<contract, milestone, failed, released, req, Course>>

\* The failure or cancel redirect finds the PENDING transaction of the order
\* id, with no lock, and then its escrow.  What it writes later goes over
\* whatever a success redirect and a release have made of the rows meanwhile.
LoadFailed(s, p) ==
    /\ req[s] = Idle
    /\ fundTx[p] = "pending"
    /\ req' = [req EXCEPT ![s] =
                  [Idle EXCEPT !.op = "failed", !.m = p[1], !.k = p[2],
                               !.stage = IF escrow[p] = "gone"
                                         THEN "no_escrow" ELSE "loaded"]]
    /\ UNCHANGED <<Rows, Books, Course>>

WriteFailed(s) ==
    LET p == <<req[s].m, req[s].k>> IN
    /\ req[s].op = "failed"
    /\ req[s].stage = "loaded" => escrow[p] # "gone"
    /\ EscrowFree(p)
    /\ fundTx' = [fundTx EXCEPT ![p] = "failed"]
    /\ escrow' = [escrow EXCEPT ![p] = IF req[s].stage = "loaded"
                                       THEN "refunded" ELSE @]
    /\ failed' = [failed EXCEPT ![p] = @ + 1]
    /\ End(s)
    /\ UNCHANGED <<contract, milestone, funded, released, Course>>

\* release_escrow_by_id from the payout page: the milestone is not touched.
AdminRelease(p) ==
    /\ p \in Releasable(p[1])
    /\ EscrowFree(p)
    /\ escrow' = [escrow EXCEPT ![p] = "released"]
    /\ released' = [released EXCEPT ![p] = @ + 1]
    /\ UNCHANGED <<contract, milestone, fundTx, funded, failed, req, Course>>

---------------------------------------------------------------------------

ClientStep(s) ==
    \/ \E m \in Milestones, a \in Amounts : LoadAdd(s, m, a) \/ LoadUpdate(s, m, a)
    \/ \E m \in Milestones :
          \/ LoadDelete(s, m)
          \/ \E op \in Ops : LoadReview(s, op, m)
          \/ \E k \in Attempts : FundEscrow(s, m, k)
    \/ AddMilestone(s) \/ UpdateMilestone(s) \/ DeleteMilestone(s)
    \/ RequestRevision(s)
    \/ FlushApproved(s) \/ ApproveUnfunded(s) \/ Tally(s) \/ FinishApproval(s)

FreelancerStep(s) ==
    \/ \E m \in Milestones : LoadStart(s, m) \/ LoadSubmit(s, m)
    \/ StartMilestone(s) \/ SubmitMilestone(s)

FailureStep(s) ==
    \/ \E p \in Payments : LoadFailed(s, p)
    \/ WriteFailed(s)

Environment ==
    \E p \in Payments : ConfirmPayment(p) \/ AdminRelease(p)

Next ==
    \/ \E s \in ClientTabs : ClientStep(s)
    \/ \E s \in FreelancerTabs : FreelancerStep(s)
    \/ \E s \in FailureTabs : FailureStep(s)
    \/ \E s \in Sessions : Rollback(s)
    \/ Environment

Spec == Init /\ [][Next]_vars

---------------------------------------------------------------------------

\* While what was committed is orderly, contracts.amount_paid is the sum of the
\* milestones that are PAID, although it is written from a sum taken before the
\* commit: only a request committed past another of its sender can part them,
\* and the next approval that nobody overtakes brings them together again.
AmountPaidExact == orderly => contract.paid = Worth(Counted(Existing))

\* Likewise, a completed contract has no milestone that is not paid: whatever
\* the freelancer, the redirects and the administrator do meanwhile.
CompletedIsPaid ==
    orderly /\ contract.status = "completed" =>
        /\ Existing # {}
        /\ \A m \in Existing : milestone[m].status = "paid"

\* A milestone is PAID only when the ledger has a release for it, and the
\* escrow still says so unless a failure redirect reopened the payment.
PaidIsReleased ==
    \A m \in Milestones : milestone[m].status = "paid" =>
        \E p \in PaymentsOf(m) :
            released[p] > 0 /\ (escrow[p] = "released" \/ failed[p] > 0)

\* Redirects repeat, arrive late and overtake each other: a payment is marked
\* FUNDED once, and again only after a failure redirect wrote over it; and it
\* is released no more often than it was marked FUNDED.
SettledOnce ==
    \A p \in Payments : funded[p] <= failed[p] + 1 /\ released[p] <= funded[p]

---------------------------------------------------------------------------
(* What keeps the payments apart, for any number of requests.              *)

\* Escrow, transaction and ledger of one payment tell the same story.
PaymentsAgree ==
    \A p \in Payments :
        /\ fundTx[p] = "none" <=> escrow[p] = "none"
        /\ escrow[p] \in {"funded", "released"} => fundTx[p] = "completed"
        /\ fundTx[p] # "completed" => funded[p] <= failed[p]
        /\ escrow[p] = "funded" => released[p] < funded[p]

\* A failure redirect in flight holds a payment that was started.
FailuresAreBacked ==
    \A s \in Sessions : req[s].op = "failed" =>
        /\ req[s].m \in Milestones /\ req[s].k \in Attempts
        /\ fundTx[<<req[s].m, req[s].k>>] # "none"
        /\ req[s].stage # "loaded" => escrow[<<req[s].m, req[s].k>>] = "gone"

\* Approvals own what they are about to write.
ApprovalsOwn ==
    \A s \in Sessions : req[s].stage \in {"flushed", "tallied"} =>
        /\ s \in ClientTabs /\ req[s].op = "approve" /\ req[s].m \in Milestones
        /\ req[s].stage = "tallied" =>
              req[s].k \in Attempts /\ escrow[<<req[s].m, req[s].k>>] = "funded"
        /\ \A t \in Sessions \ {s} :
              ~(req[t].m = req[s].m /\ req[t].stage \in {"flushed", "tallied"})

---------------------------------------------------------------------------
(* What a request that was not overtaken can rely on.                      *)

ClientOps == {"add", "update", "delete", "revise", "approve"}

\* Each request is its sender's, and names a milestone.
RequestsApart ==
    \A s \in Sessions :
        /\ req[s].op \in ClientOps => s \in ClientTabs
        /\ req[s].op \in {"start", "submit"} => s \in FreelancerTabs
        /\ req[s].op # "none" => req[s].m \in Milestones
        /\ s \in overtaken => req[s] # Idle

Current == Sessions \ overtaken

\* What a request has tested of its milestone still excludes that the
\* milestone is PAID under it, or loses what it was PAID for.
MilestonesWait ==
    \A s \in Current :
        LET row == milestone[req[s].m] IN
        /\ req[s].op = "add" => contract.status = "active"
        /\ req[s].op \in {"update", "delete"} => row.status # "paid"
        /\ req[s].op = "start" => row.status \in {"pending", "deleted"}
        /\ req[s].op = "submit" =>
              row.status \in {"in_progress", "revision_requested", "deleted"}
        /\ req[s].op \in {"revise", "approve"} =>
              row.status = "submitted" /\ contract.status = "active"
        /\ req[s].op = "approve" => row.amount = req[s].amount

\* What an approval found in the contract and in the other milestones is
\* still so.
TalliesHold ==
    \A s \in Current :
        LET others == Existing \ {req[s].m} IN
        /\ req[s].op = "approve" => req[s].paid = contract.paid
        /\ req[s].stage = "tallied" =>
              /\ req[s].sum = Worth(Counted(others)) + req[s].amount
              /\ req[s].all => AllPaid(others)

\* With one request of the client and one of the freelancer at a time, nobody
\* is overtaken and everything is orderly.
OneAtATime ==
    /\ \A s, t \in ClientTabs : s = t
    /\ \A s, t \in FreelancerTabs : s = t

TabInv ==
    /\ RequestsApart /\ MilestonesWait /\ TalliesHold
    /\ AmountPaidExact /\ CompletedIsPaid
    /\ OneAtATime => overtaken = {} /\ orderly

IInv == /\ TypeOK /\ PaymentsAgree /\ FailuresAreBacked /\ ApprovalsOwn
        /\ SettledOnce /\ PaidIsReleased /\ TabInv

Ledger == INSTANCE EscrowLedger WITH
    reopened <- failed,
    refunded <- [p \in Payments |-> 0]

ImplementsLedger == Ledger!LedgerSpec
============================================================================
