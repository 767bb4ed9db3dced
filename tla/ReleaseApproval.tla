-------------------------- MODULE ReleaseApproval --------------------------
(***************************************************************************)
(* Dual control of escrow releases: an administrator asks the payout page  *)
(* to release an escrow; a large one, or one of many to the same seller,   *)
(* waits for a second administrator.                                       *)
(*                                                                         *)
(* request_release holds the escrow row from its first SELECT to its       *)
(* commit, but the sums it decides by are taken over other escrows, in two *)
(* statements that each see what was committed before them.                *)
(***************************************************************************)
EXTENDS Integers, FiniteSets, Functions

CONSTANTS
    Escrows,        \* escrows rows whose payment was confirmed
    Freelancers,    \* sellers the escrows pay
    Payee,          \* seller of each escrow
    Amount,         \* amount of each escrow
    Threshold,      \* PAYOUT_APPROVAL_THRESHOLD_IQD
    Admins,         \* administrators
    Requests,       \* requests of administrators in flight
    Approvals,      \* payout_approvals rows that may be inserted
    NoRequest       \* owner of a free row lock

ASSUME AmountAssumption ==
    Amount \in [Escrows -> Nat \ {0}] /\ Threshold \in Nat
ASSUME PayeeAssumption == Payee \in [Escrows -> Freelancers]
ASSUME FiniteAssumption ==
    IsFiniteSet(Escrows) /\ IsFiniteSet(Approvals) /\ IsFiniteSet(Requests)
ASSUME RequestAssumption == NoRequest \notin Requests

VARIABLES
    escrow,         \* status of each escrow
    releases,       \* the admin_audit_logs rows of each escrow's releases
    approval,       \* payout_approvals rows
    escrowLock,     \* request that holds an escrow row
    approvalLock,   \* request that holds an approval row
    req,            \* what each request has in hand
    total           \* its freelancer_total

vars == <<escrow, releases, approval, escrowLock, approvalLock, req, total>>

EscrowStatus == {"funded", "disputed", "released", "refunded"}

ApprovalStatus == {"pending", "approved", "rejected", "cancelled"}

\* "recent" says that a row is inside the aggregation window.
Release == [times : Nat, signers : SUBSET Admins, recent : BOOLEAN]

NotReleased == [times |-> 0, signers |-> {}, recent |-> FALSE]

ApprovalRow == [status : ApprovalStatus \cup {"none"},
                escrow : Escrows \cup {"none"}, by : Admins \cup {"nobody"},
                decidedBy : Admins \cup {"nobody"}]

NoRow == [status |-> "none", escrow |-> "none", by |-> "nobody",
          decidedBy |-> "nobody"]

Stages == {"idle", "escrow_locked", "released_summed", "summed", "approving"}

Request == [stage : Stages, admin : Admins \cup {"nobody"},
            escrow : Escrows \cup {"none"}, approval : Approvals \cup {"none"}]

Idle == [stage |-> "idle", admin |-> "nobody", escrow |-> "none",
         approval |-> "none"]

TypeOK ==
    /\ escrow \in [Escrows -> EscrowStatus]
    /\ releases \in [Escrows -> Release]
    /\ approval \in [Approvals -> ApprovalRow]
    /\ escrowLock \in [Escrows -> Requests \cup {NoRequest}]
    /\ approvalLock \in [Approvals -> Requests \cup {NoRequest}]
    /\ req \in [Requests -> Request]
    /\ total \in [Requests -> Nat]

Init ==
    /\ escrow = [e \in Escrows |-> "funded"]
    /\ releases = [e \in Escrows |-> NotReleased]
    /\ approval = [a \in Approvals |-> NoRow]
    /\ escrowLock = [e \in Escrows |-> NoRequest]
    /\ approvalLock = [a \in Approvals |-> NoRequest]
    /\ req = [r \in Requests |-> Idle]
    /\ total = [r \in Requests |-> 0]

---------------------------------------------------------------------------

At(r, stage) == req[r].stage = stage

Go(r, stage) == req' = [req EXCEPT ![r].stage = stage]

\* Commit and rollback both free every row the request holds.
FreeRows(r) ==
    /\ escrowLock' = [e \in Escrows |-> IF escrowLock[e] = r THEN NoRequest
                                                         ELSE escrowLock[e]]
    /\ approvalLock' = [a \in Approvals |->
                          IF approvalLock[a] = r THEN NoRequest
                                                 ELSE approvalLock[a]]

End(r) ==
    /\ req' = [req EXCEPT ![r] = Idle]
    /\ total' = [total EXCEPT ![r] = 0]
    /\ FreeRows(r)

\* Mutant: the SELECT has no FOR UPDATE.
EscrowFree_NoLock(e) == TRUE

\* SELECT ... FOR UPDATE, and every UPDATE, waits for the row's holder.
EscrowFree(e) == escrowLock[e] = NoRequest

Pending == {a \in Approvals : approval[a].status = "pending"}

\* The escrow's row is in the table as FUNDED, as release_escrow_by_id wants.
Releasable(e) == escrow[e] = "funded"

\* release_escrow_by_id and the ESCROW_RELEASED audit row.
ReleaseBy(e, signers) ==
    /\ escrow' = [escrow EXCEPT ![e] = "released"]
    /\ releases' = [releases EXCEPT ![e] = [times |-> @.times + 1,
                                            signers |-> signers,
                                            recent |-> TRUE]]

---------------------------------------------------------------------------
(* request_release.                                                        *)

\* Bound: a request starts only if a row is left for the approval it may insert.
RoomForApproval ==
    Cardinality({a \in Approvals : approval[a] = NoRow})
      > Cardinality({r \in Requests : req[r] # Idle})

\* SELECT ... WHERE status = 'funded' FOR UPDATE, or NotFoundError.
RequestRelease(r, adm, e) ==
    /\ req[r] = Idle
    /\ RoomForApproval
    /\ escrow[e] = "funded"
    /\ EscrowFree(e)
    /\ escrowLock' = [escrowLock EXCEPT ![e] = r]
    /\ req' = [req EXCEPT ![r] = [stage |-> "escrow_locked", admin |-> adm,
                                  escrow |-> e, approval |-> "none"]]
    /\ UNCHANGED <<escrow, releases, approval, approvalLock, total>>

SameFreelancer(e) == {x \in Escrows : Payee[x] = Payee[e]}

ReleasedSum(e) ==
    SumFunctionOnSet(Amount, {x \in SameFreelancer(e) : releases[x].recent})

PendingSum(e) ==
    SumFunctionOnSet([a \in Pending |-> Amount[approval[a].escrow]],
                     {a \in Pending : approval[a].escrow \in SameFreelancer(e)})

\* _freelancer_recent_release_total: the audited releases, ...
SumReleased(r) ==
    /\ At(r, "escrow_locked")
    /\ total' = [total EXCEPT ![r] = ReleasedSum(req[r].escrow)]
    /\ Go(r, "released_summed")
    /\ UNCHANGED <<escrow, releases, approval, escrowLock, approvalLock>>

\* ... then, in a statement of its own, the pending approvals.
SumPending(r) ==
    /\ At(r, "released_summed")
    /\ total' = [total EXCEPT ![r] = @ + PendingSum(req[r].escrow)]
    /\ Go(r, "summed")
    /\ UNCHANGED <<escrow, releases, approval, escrowLock, approvalLock>>

\* Mutant: the row's own amount only, as before the sums were introduced.
RequiresDual_RowOnly(r) == Amount[req[r].escrow] > Threshold

RequiresDual(r) ==
    LET amount == Amount[req[r].escrow]
    IN  amount > Threshold \/ total[r] + amount > Threshold

\* Below the threshold: release now, with one signature.
ReleaseNow(r) ==
    /\ At(r, "summed")
    /\ ~RequiresDual(r)
    /\ Releasable(req[r].escrow)
    /\ ReleaseBy(req[r].escrow, {req[r].admin})
    /\ End(r)
    /\ UNCHANGED <<approval>>

\* The early return "An approval is already pending for this escrow", which
\* the partial unique index uq_payout_approvals_escrow_active repeats.
AlreadyPending(e) == \E a \in Pending : approval[a].escrow = e

RequestApproval(r, a) ==
    /\ At(r, "summed")
    /\ RequiresDual(r)
    /\ ~AlreadyPending(req[r].escrow)
    /\ approval[a] = NoRow
    /\ approval' = [approval EXCEPT ![a] =
                      [status |-> "pending", escrow |-> req[r].escrow,
                       by |-> req[r].admin, decidedBy |-> "nobody"]]
    /\ End(r)
    /\ UNCHANGED <<escrow, releases>>

\* ConflictError: nothing is written.
RefuseSecondRequest(r) ==
    /\ At(r, "summed")
    /\ RequiresDual(r)
    /\ AlreadyPending(req[r].escrow)
    /\ End(r)
    /\ UNCHANGED <<escrow, releases, approval>>

---------------------------------------------------------------------------
(* approve and reject.                                                     *)

\* Mutant: the requester may decide too.
MayDecide_Anyone(adm, a) == TRUE

\* The decider must be another administrator than the requester.
MayDecide(adm, a) == approval[a].by # adm

\* _load_pending: SELECT ... FOR UPDATE, then the two refusals.
LoadPending(r, adm, a) ==
    /\ req[r] = Idle
    /\ a \in Pending
    /\ approvalLock[a] = NoRequest
    /\ MayDecide(adm, a)
    /\ approvalLock' = [approvalLock EXCEPT ![a] = r]
    /\ req' = [req EXCEPT ![r] = [stage |-> "approving", admin |-> adm,
                                  escrow |-> approval[a].escrow,
                                  approval |-> a]]
    /\ UNCHANGED <<escrow, releases, approval, escrowLock, total>>

Decide(a, status, adm) ==
    approval' = [approval EXCEPT ![a].status = status, ![a].decidedBy = adm]

\* The release waits for a funded row another request holds.
Approve(r) ==
    /\ At(r, "approving")
    /\ Releasable(req[r].escrow)
    /\ EscrowFree(req[r].escrow)
    /\ ReleaseBy(req[r].escrow,
                 {approval[req[r].approval].by, req[r].admin})
    /\ Decide(req[r].approval, "approved", req[r].admin)
    /\ End(r)

\* The escrow left FUNDED since the request: the approval leaves the queue.
CancelApproval(r) ==
    /\ At(r, "approving")
    /\ ~Releasable(req[r].escrow)
    /\ Decide(req[r].approval, "cancelled", req[r].admin)
    /\ End(r)
    /\ UNCHANGED <<escrow, releases>>

\* reject loads, writes and commits under the one row lock.
Reject(adm, a) ==
    /\ a \in Pending
    /\ approvalLock[a] = NoRequest
    /\ MayDecide(adm, a)
    /\ Decide(a, "rejected", adm)
    /\ UNCHANGED <<escrow, releases, escrowLock, approvalLock, req, total>>

\* ConflictError, incomplete payout details, a failed audit insert, a lost
\* connection or a killed worker: the transaction is rolled back.
Rollback(r) ==
    /\ req[r] # Idle
    /\ End(r)
    /\ UNCHANGED <<escrow, releases, approval>>

---------------------------------------------------------------------------
(* The rest of the program, as far as it moves an escrow (OrderEscrow has  *)
(* the detail): completion by the buyer or the sweep, disputes.            *)

Moves == {<<"funded", "released">>, <<"funded", "disputed">>,
          <<"disputed", "refunded">>, <<"disputed", "released">>}

MovesElsewhere(e) ==
    /\ EscrowFree(e)
    /\ \E st \in EscrowStatus : /\ <<escrow[e], st>> \in Moves
                                /\ escrow' = [escrow EXCEPT ![e] = st]
    /\ UNCHANGED <<releases, approval, escrowLock, approvalLock, req, total>>

\* A release leaves the 24-hour aggregation window.
LeavesWindow(e) ==
    /\ releases[e].recent
    /\ releases' = [releases EXCEPT ![e].recent = FALSE]
    /\ UNCHANGED <<escrow, approval, escrowLock, approvalLock, req, total>>

Handling(r) ==
    \/ SumReleased(r) \/ SumPending(r) \/ ReleaseNow(r)
    \/ \E a \in Approvals : RequestApproval(r, a)
    \/ RefuseSecondRequest(r) \/ Approve(r) \/ CancelApproval(r)

AdminStep(r) ==
    \/ \E adm \in Admins, e \in Escrows : RequestRelease(r, adm, e)
    \/ \E adm \in Admins, a \in Approvals : LoadPending(r, adm, a)
    \/ Handling(r) \/ Rollback(r)

Next ==
    \/ \E r \in Requests : AdminStep(r)
    \/ \E adm \in Admins, a \in Approvals : Reject(adm, a)
    \/ \E e \in Escrows : MovesElsewhere(e) \/ LeavesWindow(e)

Spec == Init /\ [][Next]_vars

---------------------------------------------------------------------------

\* However requests, decisions and the rest of the program interleave, one
\* escrow never has two approvals in the queue (request_release, the index).
OnePending ==
    \A a, b \in Pending : approval[a].escrow = approval[b].escrow => a = b

\* An escrow above the threshold that left through the payout page carries
\* the signatures of two different administrators (approve, request_release).
LargePayoutsNeedTwo ==
    \A e \in Escrows :
      Amount[e] > Threshold /\ releases[e].times > 0
        => \E x, y \in releases[e].signers : x # y

\* A seller's escrows that left on one signature within the window.
SignedOnce(f) ==
    {e \in Escrows : /\ Payee[e] = f
                     /\ releases[e].recent
                     /\ \A x, y \in releases[e].signers : x = y}

\* How much of that survives requests that do not see each other: what one
\* signature each has moved to a seller within the window is at most the
\* threshold for every request that can be in flight at once.
SplitBounded ==
    \A f \in Freelancers :
      SumFunctionOnSet(Amount, SignedOnce(f)) <= Cardinality(Requests) * Threshold

(* The inductive invariant behind these (proofs in ReleaseApproval_proofs). *)

\* An escrow leaves through the payout page at most once, and for good; an
\* approved request names the two administrators who signed the release.
ReleaseInv ==
    /\ \A a \in Approvals :
         approval[a].status # "none" => /\ approval[a].escrow \in Escrows
                                       /\ approval[a].by \in Admins
    /\ \A e \in Escrows : releases[e].times > 0 =>
         releases[e].times = 1 /\ escrow[e] = "released"
    /\ \A a \in Approvals :
         approval[a].status = "approved" =>
           /\ releases[approval[a].escrow].times = 1
           /\ releases[approval[a].escrow].signers
                = {approval[a].by, approval[a].decidedBy}
           /\ approval[a].by # approval[a].decidedBy

\* A request that asks holds its funded escrow; one that decides holds its
\* approval, still pending and another administrator's.
Fit(r) ==
    /\ req[r].stage # "idle"
    /\ req[r].escrow \in Escrows
    /\ req[r].admin \in Admins
    /\ IF req[r].stage = "approving"
       THEN /\ req[r].approval \in Pending
            /\ approvalLock[req[r].approval] = r
            /\ approval[req[r].approval].escrow = req[r].escrow
            /\ approval[req[r].approval].by # req[r].admin
       ELSE /\ escrowLock[req[r].escrow] = r
            /\ escrow[req[r].escrow] = "funded"

RequestInv == \A r \in Requests : req[r] # Idle => Fit(r)

\* The requests that have taken their sum and may still release an escrow of
\* the seller on one signature.
Releasing(f) ==
    {r \in Requests : /\ req[r].stage \in {"released_summed", "summed"}
                      /\ Payee[req[r].escrow] = f
                      /\ ~RequiresDual(r)}

\* What each request is about to release.
Asked == [r \in Requests |-> Amount[req[r].escrow]]

\* SplitBounded counts what these requests are about to release too; what is
\* in the window was released.
SplitInv ==
    /\ \A e \in Escrows : releases[e].recent => releases[e].times > 0
    /\ \A f \in Freelancers :
         SumFunctionOnSet(Amount, SignedOnce(f))
           + SumFunctionOnSet(Asked, Releasing(f))
           <= Cardinality(Requests) * Threshold

IInv == TypeOK /\ OnePending /\ LargePayoutsNeedTwo /\ ReleaseInv /\ RequestInv
          /\ SplitInv
============================================================================
