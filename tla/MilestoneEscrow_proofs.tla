----------------------- MODULE MilestoneEscrow_proofs -----------------------
(* The money of a contract's milestones, for any number of milestones,     *)
(* attempts and requests in flight: a payment is booked in again only      *)
(* after a failure redirect wrote over it, and out no more often than in;  *)
(* a PAID milestone has its release; and the contract's amount_paid and    *)
(* its completion are what its milestones say, unless a request was        *)
(* committed past another of its own sender.                               *)
EXTENDS MilestoneEscrow, Sums_proofs

---------------------------------------------------------------------------
(* Shapes: what the proofs about payments need of the rows' types.         *)

Fields == {"op", "stage", "m", "k", "amount", "paid", "sum", "all"}

RequestShape ==
  /\ req = [s \in Sessions |-> req[s]]
  /\ \A s \in Sessions : req[s] = [f \in Fields |-> req[s][f]]
  /\ \A s \in Sessions : req[s].op = "approve" => req[s].m \in Milestones

MilestoneShape ==
  /\ milestone = [m \in Milestones |-> milestone[m]]
  /\ \A m \in Milestones :
       milestone[m] = [f \in {"status", "amount"} |-> milestone[m][f]]

PaymentShape ==
  /\ escrow \in [Payments -> EscrowStatus]
  /\ fundTx \in [Payments -> {"none", "pending", "completed", "failed"}]
  /\ funded \in [Payments -> Nat]
  /\ failed \in [Payments -> Nat]
  /\ released \in [Payments -> Nat]

Shape == RequestShape /\ MilestoneShape /\ PaymentShape

\* IInv, with Shape for the types.
Sound == Shape /\ PaymentsAgree /\ FailuresAreBacked /\ ApprovalsOwn
               /\ SettledOnce /\ PaidIsReleased

\* The other requests are as they were.
OnlyRequest(s) == \A t \in Sessions \ {s} : req'[t] = req[t]

---------------------------------------------------------------------------
(* What the small steps do, taken together.                                *)

Loads(s) ==
  \/ \E m \in Milestones, a \in Amounts : LoadAdd(s, m, a) \/ LoadUpdate(s, m, a)
  \/ \E m \in Milestones : LoadDelete(s, m) \/ LoadStart(s, m) \/ LoadSubmit(s, m)
  \/ \E m \in Milestones, op \in Ops : LoadReview(s, op, m)

Edits(s) ==
  \/ AddMilestone(s) \/ UpdateMilestone(s) \/ StartMilestone(s)
  \/ SubmitMilestone(s) \/ RequestRevision(s) \/ ApproveUnfunded(s)

\* A request that ends leaves nothing behind.
LEMMA EndEffect ==
  ASSUME RequestShape, NEW s \in Sessions, End(s)
  PROVE  RequestShape' /\ OnlyRequest(s) /\ req'[s] = Idle
<1>1. Idle = [f \in Fields |-> Idle[f]] /\ Idle.op # "approve"
  BY DEF Idle, Fields
<1>2. req' = [t \in Sessions |-> IF t = s THEN Idle ELSE req[t]]
  BY DEF End, RequestShape
<1> QED
  BY <1>1, <1>2 DEF RequestShape, OnlyRequest

\* A load fills the request and touches no row.
LEMMA LoadEffect ==
  ASSUME RequestShape, NEW s \in Sessions, Loads(s)
  PROVE  /\ UNCHANGED <<Rows, Books, Course>> /\ req[s] = Idle
         /\ RequestShape' /\ OnlyRequest(s)
         /\ req'[s].stage = "loaded" /\ req'[s].op # "failed"
<1>1. /\ UNCHANGED <<Rows, Books, Course>> /\ req[s] = Idle
      /\ \E op, a : \E m \in Milestones : op # "failed" /\ Load(s, op, m, a)
  BY DEF Loads, LoadAdd, LoadUpdate, LoadDelete, LoadStart, LoadSubmit, LoadReview
<1>2. PICK op, a : \E m \in Milestones : op # "failed" /\ Load(s, op, m, a)
  BY <1>1
<1>5. PICK m \in Milestones : op # "failed" /\ Load(s, op, m, a)
  BY <1>2
<1> DEFINE r == [op |-> op, stage |-> "loaded", m |-> m, k |-> 0, amount |-> a,
                 paid |-> contract.paid, sum |-> 0, all |-> FALSE]
<1>3. r = [f \in Fields |-> r[f]] /\ r.stage = "loaded" /\ r.op = op /\ r.m = m
  BY DEF Fields
<1>4. req' = [t \in Sessions |-> IF t = s THEN r ELSE req[t]]
  BY <1>5 DEF Load, RequestShape
<1> HIDE DEF r
<1> QED
  BY <1>1, <1>3, <1>4, <1>5 DEF RequestShape, OnlyRequest

\* An edit writes one milestone, makes none PAID, and ends its request.
LEMMA EditEffect ==
  ASSUME RequestShape, MilestoneShape, NEW s \in Sessions, Edits(s)
  PROVE  /\ UNCHANGED <<escrow, fundTx, Books>>
         /\ RequestShape' /\ MilestoneShape' /\ OnlyRequest(s) /\ req'[s] = Idle
         /\ \A m \in Milestones :
              milestone'[m].status = "paid" => milestone[m].status = "paid"
<1>1. UNCHANGED <<escrow, fundTx, Books>> /\ End(s)
  BY DEF Edits, AddMilestone, UpdateMilestone, StartMilestone, SubmitMilestone,
         RequestRevision, ApproveUnfunded, Commit
<1>2. \/ \E status : status # "paid" /\ SetMilestone(req[s].m, status)
      \/ AddMilestone(s) \/ UpdateMilestone(s)
  BY DEF Edits, StartMilestone, SubmitMilestone, RequestRevision, ApproveUnfunded
<1>3. /\ MilestoneShape'
      /\ \A m \in Milestones :
           milestone'[m].status = "paid" => milestone[m].status = "paid"
  <2>1. ASSUME NEW status, status # "paid", SetMilestone(req[s].m, status)
        PROVE  <1>3!1 /\ <1>3!2
    BY <2>1 DEF SetMilestone, MilestoneShape
  <2>2. CASE AddMilestone(s)
    BY <2>2 DEF AddMilestone, MilestoneShape
  <2>3. CASE UpdateMilestone(s)
    BY <2>3 DEF UpdateMilestone, MilestoneShape
  <2> QED
    BY <1>2, <2>1, <2>2, <2>3
<1> QED
  BY <1>1, <1>3, EndEffect

\* An approval on its way takes a lock, then a tally.
LEMMA FlushEffect ==
  ASSUME RequestShape, NEW s \in Sessions, FlushApproved(s)
  PROVE  /\ UNCHANGED <<Rows, Books, Course>> /\ RequestShape' /\ OnlyRequest(s)
         /\ req'[s].stage = "flushed" /\ req'[s].op = "approve"
         /\ req'[s].m = req[s].m
  BY DEF FlushApproved, RequestShape, OnlyRequest, At, Fields

LEMMA TallyEffect ==
  ASSUME RequestShape, NEW s \in Sessions, Tally(s)
  PROVE  /\ UNCHANGED <<Rows, Books, Course>> /\ RequestShape' /\ OnlyRequest(s)
         /\ req'[s].stage = "tallied" /\ req'[s].op = "approve"
         /\ req'[s].m = req[s].m
         /\ <<req[s].m, req'[s].k>> \in Releasable(req[s].m)
<1>0. PICK p \in Releasable(req[s].m) : \E sum, all :
        req' = [req EXCEPT ![s].stage = "tallied", ![s].k = p[2],
                           ![s].sum = sum, ![s].all = all]
  BY DEF Tally
<1>1. PICK sum, all :
        req' = [req EXCEPT ![s].stage = "tallied", ![s].k = p[2],
                           ![s].sum = sum, ![s].all = all]
  BY <1>0
<1>2. p = <<req[s].m, p[2]>>
  BY DEF Releasable, PaymentsOf
<1>3. UNCHANGED <<Rows, Books, Course>> /\ req[s].op = "approve"
  BY DEF Tally, At
<1> DEFINE r == [req[s] EXCEPT !.stage = "tallied", !.k = p[2],
                               !.sum = sum, !.all = all]
<1>4. req' = [t \in Sessions |-> IF t = s THEN r ELSE req[t]]
  <2>1. req' = [req EXCEPT ![s] = r]
    BY <1>1
  <2> HIDE DEF r
  <2> QED
    BY <2>1 DEF RequestShape
<1>5. req[s] = [f \in Fields |-> req[s][f]]
  BY DEF RequestShape
<1>6. r = [f \in Fields |-> CASE f = "stage" -> "tallied" [] f = "k" -> p[2]
                             [] f = "sum" -> sum [] f = "all" -> all
                             [] OTHER -> req[s][f]]
  BY <1>5 DEF Fields
<1>7. /\ r = [f \in Fields |-> r[f]]
      /\ r.stage = "tallied" /\ r.op = req[s].op /\ r.m = req[s].m /\ r.k = p[2]
  BY <1>6 DEF Fields
<1> HIDE DEF r
<1> QED
  BY <1>2, <1>3, <1>4, <1>7 DEF RequestShape, OnlyRequest

\* The failure redirect in hand names its payment.
LEMMA LoadFailedEffect ==
  ASSUME RequestShape, NEW s \in Sessions, NEW p \in Payments, LoadFailed(s, p)
  PROVE  /\ UNCHANGED <<Rows, Books, Course>> /\ RequestShape' /\ OnlyRequest(s)
         /\ req'[s].op = "failed" /\ req'[s].m = p[1] /\ req'[s].k = p[2]
         /\ req'[s].stage = IF escrow[p] = "gone" THEN "no_escrow" ELSE "loaded"
<1> DEFINE stage == IF escrow[p] = "gone" THEN "no_escrow" ELSE "loaded"
           r == [Idle EXCEPT !.op = "failed", !.m = p[1], !.k = p[2], !.stage = stage]
<1>1. /\ r = [f \in Fields |-> r[f]]
      /\ r.op = "failed" /\ r.m = p[1] /\ r.k = p[2]
      /\ r.stage = stage
  BY DEF Idle, Fields
<1>2. req' = [t \in Sessions |-> IF t = s THEN r ELSE req[t]]
  BY DEF LoadFailed, RequestShape
<1> HIDE DEF r
<1> QED
  BY <1>1, <1>2 DEF LoadFailed, RequestShape, OnlyRequest

---------------------------------------------------------------------------
(* The steps, in the groups the proofs treat alike.                        *)

ClientMoves(s) ==
  FlushApproved(s) \/ Tally(s) \/ FinishApproval(s) \/ DeleteMilestone(s)

\* Next, with the small steps gathered.
LEMMA Steps ==
  ASSUME [Next]_vars
  PROVE  \/ \E s \in Sessions : Loads(s) \/ Edits(s) \/ Rollback(s)
         \/ \E s \in ClientTabs : ClientMoves(s)
         \/ \E s \in ClientTabs, m \in Milestones, k \in Attempts : FundEscrow(s, m, k)
         \/ \E s \in FailureTabs : WriteFailed(s)
         \/ \E s \in FailureTabs, p \in Payments : LoadFailed(s, p)
         \/ Environment
         \/ UNCHANGED vars
<1>1. ASSUME NEW s \in ClientTabs, ClientStep(s)
      PROVE  \/ Loads(s) \/ Edits(s) \/ ClientMoves(s)
             \/ \E m \in Milestones, k \in Attempts : FundEscrow(s, m, k)
  BY <1>1, Zenon DEF ClientStep, Loads, Edits, ClientMoves
<1>2. ASSUME NEW s \in FreelancerTabs, FreelancerStep(s) PROVE Loads(s) \/ Edits(s)
  BY <1>2, Zenon DEF FreelancerStep, Loads, Edits
<1>3. ASSUME NEW s \in FailureTabs, FailureStep(s)
      PROVE  WriteFailed(s) \/ \E p \in Payments : LoadFailed(s, p)
  BY <1>3, Zenon DEF FailureStep
<1>4. ClientTabs \subseteq Sessions /\ FreelancerTabs \subseteq Sessions
  BY DEF Sessions
<1>5. CASE \E s \in ClientTabs : ClientStep(s)
  BY <1>1, <1>4, <1>5
<1>6. CASE \E s \in FreelancerTabs : FreelancerStep(s)
  BY <1>2, <1>4, <1>6
<1>7. CASE \E s \in FailureTabs : FailureStep(s)
  BY <1>3, <1>7
<1> QED
  BY <1>5, <1>6, <1>7 DEF Next

\* A payment's parts, from its number.
LEMMA PaymentParts ==
  ASSUME NEW p \in Payments
  PROVE  p[1] \in Milestones /\ p[2] \in Attempts /\ p = <<p[1], p[2]>>
         /\ p \in PaymentsOf(p[1])
  BY DEF Payments, PaymentsOf

---------------------------------------------------------------------------
(* The money: escrow, transaction and ledger of each payment.              *)

Money == PaymentShape /\ PaymentsAgree /\ SettledOnce

LEMMA MoneyRests ==
  ASSUME Money, UNCHANGED <<escrow, fundTx, funded, failed, released>>
  PROVE  Money'
  BY DEF Money, PaymentShape, PaymentsAgree, SettledOnce

\* A step that releases one funded payment.
LEMMA ReleaseKeepsMoney ==
  ASSUME Money, NEW p \in Payments, escrow[p] = "funded",
         escrow' = [escrow EXCEPT ![p] = "released"],
         released' = [released EXCEPT ![p] = @ + 1],
         UNCHANGED <<fundTx, funded, failed>>
  PROVE  Money'
  BY DEF Money, PaymentShape, PaymentsAgree, SettledOnce, EscrowStatus

\* The approval in hand holds a funded payment of its milestone.
LEMMA ApprovalHolds ==
  ASSUME ApprovalsOwn, NEW s \in ClientTabs, FinishApproval(s)
  PROVE  <<req[s].m, req[s].k>> \in Payments /\ escrow[<<req[s].m, req[s].k>>] = "funded"
  BY DEF ApprovalsOwn, FinishApproval, At, Sessions, Payments

\* The failure redirect in hand holds a payment that was started.
LEMMA FailureHolds ==
  ASSUME FailuresAreBacked, NEW s \in FailureTabs, WriteFailed(s)
  PROVE  /\ <<req[s].m, req[s].k>> \in Payments
         /\ fundTx[<<req[s].m, req[s].k>>] # "none"
         /\ req[s].stage # "loaded" => escrow[<<req[s].m, req[s].k>>] = "gone"
  BY DEF FailuresAreBacked, WriteFailed, Sessions, Payments

\* The transaction a success redirect finds is there, and not yet confirmed.
LEMMA ConfirmedIsOpen ==
  ASSUME NEW p \in Payments, ConfirmPayment(p)
  PROVE  fundTx[p] \notin {"none", "completed"}
  BY PaymentParts DEF ConfirmPayment, TheTransaction, Unprocessed, Used

LEMMA MoneyStep ==
  ASSUME RequestShape, MilestoneShape, Money, FailuresAreBacked, ApprovalsOwn,
         [Next]_vars
  PROVE  Money'
<1>1. ASSUME NEW s \in Sessions, Loads(s) \/ Edits(s) \/ Rollback(s) PROVE Money'
  BY <1>1, LoadEffect, EditEffect, MoneyRests DEF Rollback, Rows, Books
<1>2. ASSUME NEW s \in ClientTabs, FlushApproved(s) \/ Tally(s) PROVE Money'
  BY <1>2, MoneyRests DEF FlushApproved, Tally, Rows, Books
<1>3. ASSUME NEW s \in ClientTabs, FinishApproval(s) PROVE Money'
  BY <1>3, ApprovalHolds, ReleaseKeepsMoney DEF FinishApproval
<1>4. ASSUME NEW s \in ClientTabs, DeleteMilestone(s) PROVE Money'
  BY <1>4 DEF DeleteMilestone, Books, Money, PaymentShape, PaymentsAgree,
              SettledOnce, EscrowStatus
<1>5. ASSUME NEW s \in ClientTabs, NEW m \in Milestones, NEW k \in Attempts,
             FundEscrow(s, m, k)
      PROVE  Money'
  <2>1. <<m, k>> \in Payments /\ fundTx[<<m, k>>] = "none"
    BY <1>5 DEF FundEscrow, Used, PaymentsOf, Payments, Attempts
  <2> QED
    BY <1>5, <2>1 DEF FundEscrow, Books, Money, PaymentShape, PaymentsAgree,
                      SettledOnce, EscrowStatus
<1>6. ASSUME NEW s \in FailureTabs, WriteFailed(s) PROVE Money'
  <2> DEFINE p == <<req[s].m, req[s].k>>
  <2>1. p \in Payments /\ fundTx[p] # "none"
    BY <1>6, FailureHolds
  <2>2. /\ fundTx' = [fundTx EXCEPT ![p] = "failed"]
        /\ failed' = [failed EXCEPT ![p] = @ + 1]
        /\ UNCHANGED <<funded, released>>
    BY <1>6 DEF WriteFailed
  <2>3. \/ UNCHANGED escrow /\ escrow[p] = "gone"
        \/ escrow' = [escrow EXCEPT ![p] = "refunded"] /\ escrow[p] # "gone"
    <3>1. CASE req[s].stage = "loaded"
      BY <1>6, <3>1 DEF WriteFailed
    <3>2. CASE req[s].stage # "loaded"
      <4>1. escrow' = [escrow EXCEPT ![p] = escrow[p]] /\ escrow[p] = "gone"
        BY <1>6, <3>2, FailureHolds DEF WriteFailed
      <4> HIDE DEF p
      <4> QED
        BY <4>1 DEF Money, PaymentShape
    <3> QED
      BY <3>1, <3>2
  <2> HIDE DEF p
  <2> QED
    BY <2>1, <2>2, <2>3 DEF Money, PaymentShape, PaymentsAgree, SettledOnce, EscrowStatus
<1>7. ASSUME NEW s \in FailureTabs, NEW p \in Payments, LoadFailed(s, p) PROVE Money'
  BY <1>7, MoneyRests DEF LoadFailed, Rows, Books
<1>8. CASE Environment
  <2>2. ASSUME NEW p \in Payments, ConfirmPayment(p) PROVE Money'
    <3>1. fundTx[p] \notin {"none", "completed"}
      BY <2>2, ConfirmedIsOpen
    <3>2. /\ fundTx' = [fundTx EXCEPT ![p] = "completed"]
          /\ UNCHANGED <<failed, released>>
      BY <2>2 DEF ConfirmPayment
    <3>3. CASE escrow[p] = "gone"
      <4>1. UNCHANGED <<escrow, funded>>
        BY <2>2, <3>3 DEF ConfirmPayment
      <4> QED
        BY <3>1, <3>2, <3>3, <4>1
           DEF Money, PaymentShape, PaymentsAgree, SettledOnce, EscrowStatus
    <3>4. CASE escrow[p] # "gone"
      <4>1. /\ escrow' = [escrow EXCEPT ![p] = "funded"]
            /\ funded' = [funded EXCEPT ![p] = @ + 1]
        BY <2>2, <3>4 DEF ConfirmPayment
      <4> QED
        BY <3>1, <3>2, <3>4, <4>1
           DEF Money, PaymentShape, PaymentsAgree, SettledOnce, EscrowStatus
    <3> QED
      BY <3>3, <3>4
  <2>3. ASSUME NEW p \in Payments, AdminRelease(p) PROVE Money'
    BY <2>3, ReleaseKeepsMoney DEF AdminRelease, Releasable
  <2> QED
    BY <1>8, <2>2, <2>3 DEF Environment
<1>9. CASE UNCHANGED vars
  BY <1>9, MoneyRests DEF vars
<1> QED
  BY <1>1, <1>2, <1>3, <1>4, <1>5, <1>6, <1>7, <1>8, <1>9, Steps DEF ClientMoves

---------------------------------------------------------------------------
(* The requests in flight.                                                 *)

\* FailuresAreBacked, of one request.
Backed(s) ==
  req[s].op = "failed" =>
    /\ req[s].m \in Milestones /\ req[s].k \in Attempts
    /\ fundTx[<<req[s].m, req[s].k>>] # "none"
    /\ req[s].stage # "loaded" => escrow[<<req[s].m, req[s].k>>] = "gone"

\* A payment that was started stays so, and a row that is gone stays away.
Onwards ==
  \A p \in Payments :
    /\ fundTx[p] # "none" => fundTx'[p] # "none"
    /\ escrow[p] = "gone" => escrow'[p] = "gone"

LEMMA BackedRests ==
  ASSUME FailuresAreBacked, NEW s \in Sessions, OnlyRequest(s),
         req'[s].op # "failed", Onwards
  PROVE  FailuresAreBacked'
<1>1. \A t \in Sessions : Backed(t) => Backed(t)'
  BY DEF Backed, OnlyRequest, Onwards, Payments
<1> QED
  BY <1>1 DEF FailuresAreBacked, Backed

LEMMA FailuresStep ==
  ASSUME RequestShape, MilestoneShape, Money, FailuresAreBacked, ApprovalsOwn,
         [Next]_vars
  PROVE  FailuresAreBacked'
<1>0. Idle.op # "failed"
  BY DEF Idle
<1>1. ASSUME NEW s \in Sessions, Loads(s) \/ Edits(s) \/ Rollback(s)
      PROVE  FailuresAreBacked'
  <2>1. OnlyRequest(s) /\ req'[s].op # "failed" /\ UNCHANGED <<fundTx, escrow>>
    BY <1>0, <1>1, LoadEffect, EditEffect, EndEffect DEF Rollback, Rows
  <2> QED
    BY <2>1, BackedRests DEF Onwards
<1>2. ASSUME NEW s \in ClientTabs, ClientMoves(s) PROVE FailuresAreBacked'
  <2>0. s \in Sessions
    BY DEF Sessions
  <2>1. CASE FlushApproved(s)
    BY <2>0, <2>1, FlushEffect, BackedRests DEF Rows, Onwards
  <2>2. CASE Tally(s)
    BY <2>0, <2>2, TallyEffect, BackedRests DEF Rows, Onwards
  <2>3. CASE FinishApproval(s)
    <3>1. Onwards
      BY <2>3, ApprovalHolds DEF FinishApproval, Onwards, Money, PaymentShape
    <3> QED
      BY <1>0, <2>0, <2>3, <3>1, EndEffect, BackedRests DEF FinishApproval, Commit
  <2>4. CASE DeleteMilestone(s)
    <3>1. Onwards
      BY <2>4 DEF DeleteMilestone, Onwards
    <3> QED
      BY <1>0, <2>0, <2>4, <3>1, EndEffect, BackedRests DEF DeleteMilestone, Commit
  <2> QED
    BY <1>2, <2>1, <2>2, <2>3, <2>4 DEF ClientMoves
<1>3. ASSUME NEW s \in ClientTabs, NEW m \in Milestones, NEW k \in Attempts,
             FundEscrow(s, m, k)
      PROVE  FailuresAreBacked'
  <2>1. /\ fundTx[<<m, k>>] = "none" /\ UNCHANGED req
        /\ fundTx' = [fundTx EXCEPT ![<<m, k>>] = "pending"]
        /\ escrow' = [escrow EXCEPT ![<<m, k>>] = "pending"]
        /\ <<m, k>> \in Payments
    BY <1>3 DEF FundEscrow, Used, PaymentsOf, Payments, Attempts
  <2>2. Onwards
    BY <2>1 DEF Onwards, Money, PaymentShape, PaymentsAgree
  <2>3. \A t \in Sessions : Backed(t) => Backed(t)'
    BY <2>1, <2>2 DEF Backed, Onwards, Payments
  <2> QED
    BY <2>3 DEF FailuresAreBacked, Backed
<1>4. ASSUME NEW s \in FailureTabs, WriteFailed(s) PROVE FailuresAreBacked'
  <2> DEFINE p == <<req[s].m, req[s].k>>
  <2>1. OnlyRequest(s) /\ req'[s].op # "failed"
    BY <1>0, <1>4, EndEffect DEF WriteFailed, Sessions
  <2>2. Onwards
    <3>1. fundTx' = [fundTx EXCEPT ![p] = "failed"]
      BY <1>4 DEF WriteFailed
    <3>2. \A q \in Payments \ {p} : escrow'[q] = escrow[q]
      BY <1>4 DEF WriteFailed, Money, PaymentShape
    <3>3. p \in Payments /\ escrow[p] = "gone" => escrow'[p] = "gone"
      BY <1>4 DEF WriteFailed, Money, PaymentShape
    <3> HIDE DEF p
    <3> QED
      BY <3>1, <3>2, <3>3 DEF Onwards, Money, PaymentShape
  <2> QED
    BY <2>1, <2>2, BackedRests DEF Sessions
<1>5. ASSUME NEW s \in FailureTabs, NEW p \in Payments, LoadFailed(s, p)
      PROVE  FailuresAreBacked'
  <2>1. /\ OnlyRequest(s) /\ UNCHANGED <<fundTx, escrow>>
        /\ req'[s].m = p[1] /\ req'[s].k = p[2]
        /\ req'[s].stage = IF escrow[p] = "gone" THEN "no_escrow" ELSE "loaded"
    BY <1>5, LoadFailedEffect DEF Rows, Sessions
  <2>2. fundTx[<<p[1], p[2]>>] = "pending"
    BY <1>5, PaymentParts DEF LoadFailed
  <2>3. Backed(s)'
    BY <2>1, <2>2, PaymentParts DEF Backed
  <2>4. \A t \in Sessions \ {s} : Backed(t) => Backed(t)'
    BY <2>1 DEF OnlyRequest, Backed
  <2> QED
    BY <2>3, <2>4 DEF FailuresAreBacked, Backed
<1>6. CASE Environment
  <2>1. Onwards /\ UNCHANGED req
    <3>1. ASSUME NEW p \in Payments, ConfirmPayment(p) PROVE <2>1
      BY <3>1 DEF ConfirmPayment, Onwards, Money, PaymentShape
    <3>2. ASSUME NEW p \in Payments, AdminRelease(p) PROVE <2>1
      BY <3>2 DEF AdminRelease, Releasable, Onwards, Money, PaymentShape
    <3> QED
      BY <1>6, <3>1, <3>2 DEF Environment
  <2>2. \A t \in Sessions : Backed(t) => Backed(t)'
    BY <2>1 DEF Backed, Onwards, Payments
  <2> QED
    BY <2>2 DEF FailuresAreBacked, Backed
<1>7. CASE UNCHANGED vars
  BY <1>7 DEF vars, FailuresAreBacked
<1> QED
  BY <1>1, <1>2, <1>3, <1>4, <1>5, <1>6, <1>7, Steps

\* ApprovalsOwn, of one request: what it holds is funded, and nobody else's.
Holding(s) == req[s].stage \in {"flushed", "tallied"}

LEMMA ApprovalsRest ==
  ASSUME ApprovalsOwn, NEW s \in Sessions, OnlyRequest(s), ~Holding(s)',
         \A p \in Payments : escrow[p] = "funded" => escrow'[p] = "funded"
  PROVE  ApprovalsOwn'
  BY DEF ApprovalsOwn, OnlyRequest, Holding, Payments

\* Whoever ends an escrow has asked whether an approval holds it.
LEMMA ApprovalsKeepTheirs ==
  ASSUME ApprovalsOwn, NEW p, EscrowFree(p),
         \A t \in Sessions : req'[t] = req[t] \/ ~Holding(t)',
         \A q \in Payments \ {p} : escrow[q] = "funded" => escrow'[q] = "funded"
  PROVE  ApprovalsOwn'
<1>1. \A s \in Sessions : req[s].stage = "tallied" => <<req[s].m, req[s].k>> # p
  BY DEF EscrowFree, ApprovalsOwn, At
<1> QED
  BY <1>1 DEF ApprovalsOwn, Payments, Holding

LEMMA ApprovalsStep ==
  ASSUME RequestShape, MilestoneShape, Money, FailuresAreBacked, ApprovalsOwn,
         [Next]_vars
  PROVE  ApprovalsOwn'
<1>0. Idle.stage = "idle"
  BY DEF Idle
<1>1. ASSUME NEW s \in Sessions, Loads(s) \/ Edits(s) \/ Rollback(s)
      PROVE  ApprovalsOwn'
  <2>1. OnlyRequest(s) /\ req'[s].stage \in {"idle", "loaded"} /\ UNCHANGED escrow
    BY <1>0, <1>1, LoadEffect, EditEffect, EndEffect DEF Rollback, Rows
  <2> QED
    BY <2>1, ApprovalsRest DEF Holding
<1>2. ASSUME NEW s \in ClientTabs, FlushApproved(s) PROVE ApprovalsOwn'
  <2>1. /\ OnlyRequest(s) /\ req'[s].m = req[s].m /\ UNCHANGED escrow
        /\ req'[s].stage = "flushed" /\ req'[s].op = "approve"
    BY <1>2, FlushEffect DEF Rows, Sessions
  <2>2. /\ req[s].m \in Milestones
        /\ \A t \in Sessions : ~(req[t].m = req[s].m /\ Holding(t))
    BY <1>2 DEF FlushApproved, At, Writable, MilestoneFree, Holding, ApprovalsOwn,
                RequestShape, Sessions
  <2> QED
    BY <2>1, <2>2 DEF ApprovalsOwn, OnlyRequest, Holding, Sessions
<1>3. ASSUME NEW s \in ClientTabs, Tally(s) PROVE ApprovalsOwn'
  <2>1. /\ OnlyRequest(s) /\ req'[s].m = req[s].m /\ UNCHANGED escrow
        /\ req'[s].stage = "tallied" /\ req'[s].op = "approve"
        /\ <<req[s].m, req'[s].k>> \in Releasable(req[s].m)
    BY <1>3, TallyEffect DEF Rows, Sessions
  <2>2. req'[s].k \in Attempts /\ escrow[<<req[s].m, req'[s].k>>] = "funded"
    BY <2>1 DEF Releasable, PaymentsOf
  <2>3. /\ req[s].m \in Milestones
        /\ \A t \in Sessions \ {s} : ~(req[t].m = req[s].m /\ Holding(t))
    BY <1>3 DEF Tally, At, Holding, ApprovalsOwn, Sessions
  <2> QED
    BY <2>1, <2>2, <2>3 DEF ApprovalsOwn, OnlyRequest, Holding, Sessions
<1>4. ASSUME NEW s \in ClientTabs, FinishApproval(s) PROVE ApprovalsOwn'
  <2> DEFINE p == <<req[s].m, req[s].k>>
  <2>1. OnlyRequest(s) /\ req'[s].stage = "idle"
    BY <1>0, <1>4, EndEffect DEF FinishApproval, Commit, Sessions
  <2>2. \A q \in Payments \ {p} : escrow'[q] = escrow[q]
    BY <1>4 DEF FinishApproval, Money, PaymentShape
  <2>3. \A t \in Sessions \ {s} : Holding(t) => req[t].m # req[s].m
    BY <1>4 DEF FinishApproval, At, ApprovalsOwn, Holding, Sessions
  <2> QED
    BY <2>1, <2>2, <2>3 DEF ApprovalsOwn, OnlyRequest, Holding, Payments
<1>5. ASSUME NEW s \in ClientTabs, DeleteMilestone(s) PROVE ApprovalsOwn'
  <2>1. OnlyRequest(s) /\ req'[s].stage = "idle"
    BY <1>0, <1>5, EndEffect DEF DeleteMilestone, Commit, Sessions
  <2>2. \A q \in Payments : q \notin PaymentsOf(req[s].m) => escrow'[q] = escrow[q]
    BY <1>5 DEF DeleteMilestone
  <2>3. \A t \in Sessions : Holding(t) => req[t].m # req[s].m
    BY <1>5 DEF DeleteMilestone, Writable, MilestoneFree, ApprovalsOwn, Holding
  <2> QED
    BY <2>1, <2>2, <2>3 DEF ApprovalsOwn, OnlyRequest, Holding, Payments, PaymentsOf
<1>6. ASSUME NEW s \in ClientTabs, NEW m \in Milestones, NEW k \in Attempts,
             FundEscrow(s, m, k)
      PROVE  ApprovalsOwn'
  <2>1. /\ fundTx[<<m, k>>] = "none" /\ <<m, k>> \in Payments /\ UNCHANGED req
        /\ escrow' = [escrow EXCEPT ![<<m, k>>] = "pending"]
    BY <1>6 DEF FundEscrow, Used, PaymentsOf, Payments, Attempts
  <2>2. escrow[<<m, k>>] # "funded"
    BY <2>1 DEF Money, PaymentsAgree
  <2> QED
    BY <2>1, <2>2 DEF ApprovalsOwn, Money, PaymentShape, Payments
<1>7. ASSUME NEW s \in FailureTabs, WriteFailed(s) PROVE ApprovalsOwn'
  <2> DEFINE p == <<req[s].m, req[s].k>>
  <2>1. OnlyRequest(s) /\ req'[s].stage = "idle"
    BY <1>0, <1>7, EndEffect DEF WriteFailed, Sessions
  <2>2. EscrowFree(p) /\ \A q \in Payments \ {p} : escrow'[q] = escrow[q]
    BY <1>7 DEF WriteFailed, Money, PaymentShape
  <2> HIDE DEF p
  <2>3. \A t \in Sessions : req'[t] = req[t] \/ ~Holding(t)'
    BY <2>1 DEF Holding, OnlyRequest
  <2> QED
    BY <2>2, <2>3, ApprovalsKeepTheirs
<1>8. ASSUME NEW s \in FailureTabs, NEW p \in Payments, LoadFailed(s, p)
      PROVE  ApprovalsOwn'
  <2>1. /\ OnlyRequest(s) /\ UNCHANGED escrow
        /\ req'[s].stage \in {"loaded", "no_escrow"}
    BY <1>8, LoadFailedEffect DEF Rows, Sessions
  <2> QED
    BY <2>1, ApprovalsRest DEF Holding, Sessions
<1>9. CASE Environment
  <2>2. ASSUME NEW p \in Payments, ConfirmPayment(p) \/ AdminRelease(p)
        PROVE  ApprovalsOwn'
    <3>1. \A q \in Payments \ {p} : escrow'[q] = escrow[q]
      BY <2>2 DEF ConfirmPayment, AdminRelease, Money, PaymentShape
    <3>2. EscrowFree(p) /\ UNCHANGED req
      BY <2>2 DEF ConfirmPayment, AdminRelease
    <3> QED
      BY <3>1, <3>2, ApprovalsKeepTheirs
  <2> QED
    BY <1>9, <2>2 DEF Environment
<1>10. CASE UNCHANGED vars
  BY <1>10 DEF vars, ApprovalsOwn
<1> QED
  BY <1>1, <1>2, <1>3, <1>4, <1>5, <1>6, <1>7, <1>8, <1>9, <1>10, Steps DEF ClientMoves

---------------------------------------------------------------------------
(* The milestones.                                                         *)

LEMMA ShapeStep ==
  ASSUME Shape, [Next]_vars
  PROVE  RequestShape' /\ MilestoneShape'
<1>1. ASSUME NEW s \in Sessions, Loads(s) \/ Edits(s) \/ Rollback(s)
      PROVE  RequestShape' /\ MilestoneShape'
  BY <1>1, LoadEffect, EditEffect, EndEffect DEF Shape, Rollback, Rows, MilestoneShape
<1>2. ASSUME NEW s \in ClientTabs, FlushApproved(s) \/ Tally(s)
      PROVE  RequestShape' /\ MilestoneShape'
  BY <1>2, FlushEffect, TallyEffect DEF Shape, Rows, MilestoneShape, Sessions
<1>3. ASSUME NEW s \in ClientTabs, FinishApproval(s) \/ DeleteMilestone(s)
      PROVE  RequestShape' /\ MilestoneShape'
  <2>1. RequestShape'
    BY <1>3, EndEffect DEF FinishApproval, DeleteMilestone, Commit, Shape, Sessions
  <2>2. \E status : SetMilestone(req[s].m, status)
    BY <1>3 DEF FinishApproval, DeleteMilestone
  <2> QED
    BY <2>1, <2>2 DEF SetMilestone, Shape, MilestoneShape
<1>4. ASSUME NEW s \in ClientTabs, NEW m \in Milestones, NEW k \in Attempts,
             FundEscrow(s, m, k)
      PROVE  RequestShape' /\ MilestoneShape'
  BY <1>4 DEF FundEscrow, Shape, RequestShape, MilestoneShape
<1>5. ASSUME NEW s \in FailureTabs, WriteFailed(s) PROVE RequestShape' /\ MilestoneShape'
  <2>1. RequestShape'
    BY <1>5, EndEffect DEF WriteFailed, Shape, Sessions
  <2> QED
    BY <1>5, <2>1 DEF WriteFailed, Shape, MilestoneShape
<1>6. ASSUME NEW s \in FailureTabs, NEW p \in Payments, LoadFailed(s, p)
      PROVE  RequestShape' /\ MilestoneShape'
  BY <1>6, LoadFailedEffect DEF Shape, Rows, MilestoneShape, Sessions
<1>7. CASE Environment
  <2>1. UNCHANGED <<milestone, req>>
    BY <1>7, Zenon DEF Environment, ConfirmPayment, AdminRelease, Rows
  <2> QED
    BY <2>1 DEF Shape, RequestShape, MilestoneShape
<1>8. CASE UNCHANGED vars
  BY <1>8 DEF vars, Shape, RequestShape, MilestoneShape
<1> QED
  BY <1>1, <1>2, <1>3, <1>4, <1>5, <1>6, <1>7, <1>8, Steps DEF ClientMoves

\* The release of a payment.
Out(p) == released[p] > 0 /\ (escrow[p] = "released" \/ failed[p] > 0)

\* What is out stays out, while no milestone becomes PAID.
LEMMA PaidRests ==
  ASSUME PaidIsReleased,
         \A m \in Milestones : milestone'[m].status = "paid" =>
            /\ milestone[m].status = "paid"
            /\ \A p \in PaymentsOf(m) : Out(p) => Out(p)'
  PROVE  PaidIsReleased'
  BY DEF PaidIsReleased, Out, PaymentsOf, Attempts

LEMMA PaidStep ==
  ASSUME Sound, [Next]_vars
  PROVE  PaidIsReleased'
<1>0. \A m \in Milestones : PaymentsOf(m) \subseteq Payments
  BY DEF PaymentsOf, Payments
<1>1. ASSUME NEW s \in Sessions, Loads(s) \/ Edits(s) \/ Rollback(s)
      PROVE  PaidIsReleased'
  <2>1. /\ UNCHANGED <<escrow, failed, released>>
        /\ \A m \in Milestones :
             milestone'[m].status = "paid" => milestone[m].status = "paid"
    BY <1>1, LoadEffect, EditEffect DEF Rollback, Rows, Books, Sound, Shape
  <2> QED
    BY <2>1, PaidRests DEF Out, Sound
<1>2. ASSUME NEW s \in ClientTabs, FlushApproved(s) \/ Tally(s) PROVE PaidIsReleased'
  BY <1>2, PaidRests DEF FlushApproved, Tally, Rows, Books, Out, Sound
<1>3. ASSUME NEW s \in ClientTabs, FinishApproval(s) PROVE PaidIsReleased'
  <2>0. PICK m, p : m = req[s].m /\ p = <<req[s].m, req[s].k>>
    OBVIOUS
  <2>1. p \in Payments /\ escrow[p] = "funded" /\ p \in PaymentsOf(m)
    BY <1>3, <2>0, ApprovalHolds DEF Sound, PaymentsOf, Payments
  <2>2. Out(p)'
    BY <1>3, <2>0, <2>1 DEF FinishApproval, Out, Sound, Shape, PaymentShape
  <2>3. \A q \in Payments \ {p} : Out(q) => Out(q)'
    BY <1>3, <2>0 DEF FinishApproval, Out, Sound, Shape, PaymentShape
  <2>4. \A n \in Milestones \ {m} : milestone'[n] = milestone[n]
    BY <1>3, <2>0 DEF FinishApproval, SetMilestone, Sound, Shape, MilestoneShape
  <2>6. ASSUME NEW n \in Milestones, milestone'[n].status = "paid"
        PROVE  \E q \in PaymentsOf(n) : Out(q)'
    <3>1. CASE n = m
      BY <2>1, <2>2, <3>1
    <3>2. CASE n # m
      <4>1. PICK q \in PaymentsOf(n) : Out(q)
        BY <2>4, <2>6, <3>2 DEF Sound, PaidIsReleased, Out
      <4>2. q # p
        BY <2>0, <3>2 DEF PaymentsOf
      <4> QED
        BY <1>0, <2>3, <4>1, <4>2
    <3> QED
      BY <3>1, <3>2
  <2> QED
    BY <2>6 DEF PaidIsReleased, Out, PaymentsOf, Attempts
<1>4. ASSUME NEW s \in ClientTabs, DeleteMilestone(s) PROVE PaidIsReleased'
  <2>1. ASSUME NEW m \in Milestones, milestone'[m].status = "paid"
        PROVE  milestone[m].status = "paid" /\ m # req[s].m
    BY <1>4, <2>1 DEF DeleteMilestone, SetMilestone, Sound, Shape, MilestoneShape
  <2>2. ASSUME NEW m \in Milestones, m # req[s].m, NEW p \in PaymentsOf(m), Out(p)
        PROVE  Out(p)'
    <3>1. p \in Payments /\ p \notin PaymentsOf(req[s].m)
      BY <1>0, <2>2 DEF PaymentsOf
    <3> QED
      BY <1>4, <2>2, <3>1 DEF DeleteMilestone, Books, Out
  <2> QED
    BY <2>1, <2>2, PaidRests DEF Sound
<1>5. ASSUME NEW s \in ClientTabs, NEW m \in Milestones, NEW k \in Attempts,
             FundEscrow(s, m, k)
      PROVE  PaidIsReleased'
  <2>1. fundTx[<<m, k>>] = "none" /\ <<m, k>> \in Payments
    BY <1>5 DEF FundEscrow, Used, PaymentsOf, Payments, Attempts
  <2>2. escrow[<<m, k>>] # "released"
    BY <2>1 DEF Sound, PaymentsAgree
  <2>3. \A p \in Payments : Out(p) => Out(p)'
    BY <1>5, <2>2 DEF FundEscrow, Books, Out, Sound, Shape, PaymentShape
  <2> QED
    BY <1>0, <1>5, <2>3, PaidRests DEF FundEscrow, Sound
<1>6. ASSUME NEW s \in FailureTabs, WriteFailed(s) PROVE PaidIsReleased'
  <2> DEFINE q == <<req[s].m, req[s].k>>
  <2>1. /\ UNCHANGED <<milestone, released>>
        /\ failed' = [failed EXCEPT ![q] = @ + 1]
        /\ \A p \in Payments \ {q} : escrow'[p] = escrow[p]
    BY <1>6 DEF WriteFailed, Sound, Shape, PaymentShape
  <2>2. q \in Payments
    BY <1>6, FailureHolds DEF Sound
  <2> HIDE DEF q
  <2>3. \A p \in Payments : Out(p) => Out(p)'
    BY <2>1, <2>2 DEF Out, Sound, Shape, PaymentShape
  <2> QED
    BY <1>0, <2>1, <2>3, PaidRests DEF Sound
<1>7. ASSUME NEW s \in FailureTabs, NEW p \in Payments, LoadFailed(s, p)
      PROVE  PaidIsReleased'
  BY <1>7, PaidRests DEF LoadFailed, Rows, Books, Out, Sound
<1>8. CASE Environment
  <2>1. UNCHANGED milestone
    BY <1>8, Zenon DEF Environment, ConfirmPayment, AdminRelease, Rows
  <2>2. \A p \in Payments : Out(p) => Out(p)'
    <3>2. ASSUME NEW p \in Payments, ConfirmPayment(p) PROVE <2>2
      <4>1. escrow[p] # "released"
        BY <3>2, ConfirmedIsOpen DEF Sound, PaymentsAgree
      <4>2. /\ UNCHANGED <<failed, released>>
            /\ \A q \in Payments \ {p} : escrow'[q] = escrow[q]
        BY <3>2 DEF ConfirmPayment, Sound, Shape, PaymentShape
      <4> QED
        BY <4>1, <4>2 DEF Out
    <3>3. ASSUME NEW p \in Payments, AdminRelease(p) PROVE <2>2
      BY <3>3 DEF AdminRelease, Releasable, Out, Sound, Shape, PaymentShape
    <3> QED
      BY <1>8, <3>2, <3>3 DEF Environment
  <2> QED
    BY <1>0, <2>1, <2>2, PaidRests DEF Sound
<1>9. CASE UNCHANGED vars
  BY <1>9, PaidRests DEF vars, Out, Sound
<1> QED
  BY <1>1, <1>2, <1>3, <1>4, <1>5, <1>6, <1>7, <1>8, <1>9, Steps DEF ClientMoves

---------------------------------------------------------------------------

LEMMA SoundInit == Init => Sound
<1> SUFFICES ASSUME Init PROVE Sound
  OBVIOUS
<1>1. Idle = [f \in Fields |-> Idle[f]] /\ Idle.op = "none" /\ Idle.stage = "idle"
  BY DEF Idle, Fields
<1>2. Shape
  BY <1>1 DEF Init, Shape, RequestShape, MilestoneShape, PaymentShape, EscrowStatus
<1>3. PaymentsAgree /\ SettledOnce
  BY DEF Init, PaymentsAgree, SettledOnce
<1>4. FailuresAreBacked /\ ApprovalsOwn
  BY <1>1 DEF Init, FailuresAreBacked, ApprovalsOwn
<1>5. PaidIsReleased
  BY DEF Init, PaidIsReleased
<1> QED
  BY <1>2, <1>3, <1>4, <1>5 DEF Sound

LEMMA SoundStep == Sound /\ [Next]_vars => Sound'
<1> SUFFICES ASSUME Sound, [Next]_vars PROVE Sound'
  OBVIOUS
<1>1. Money /\ RequestShape /\ MilestoneShape
  BY DEF Sound, Shape, Money
<1> QED
  BY <1>1, ShapeStep, MoneyStep, FailuresStep, ApprovalsStep, PaidStep
     DEF Sound, Shape, Money

\* Escrow, transaction and ledger of every payment agree, failures and
\* approvals in flight hold what they are about to write.
THEOREM Invariance == Spec => []Sound
BY SoundInit, SoundStep, PTL DEF Spec

\* Redirects may repeat, arrive late and overtake each other, and approvals
\* meet administrators: a payment is booked in at most once more than failure
\* redirects wrote over it, and out no more often than in.
THEOREM SettlesOnce == Spec => []SettledOnce
<1>1. Sound => SettledOnce
  BY DEF Sound
<1> QED
  BY <1>1, Invariance, PTL

\* No milestone is PAID without a release in the ledger, and while no failure
\* redirect wrote over the payment its escrow says RELEASED.
THEOREM PaidMeansReleased == Spec => []PaidIsReleased
<1>1. Sound => PaidIsReleased
  BY DEF Sound
<1> QED
  BY <1>1, Invariance, PTL

---------------------------------------------------------------------------
(* Types.                                                                  *)

\* What milestones are worth is a natural number, and changes with their
\* prices only.
LEMMA WorthIsNat ==
  ASSUME TypeOK, NEW M \in SUBSET Milestones
  PROVE  /\ IsFiniteSet(M) /\ IntegersOn(Price, M)
         /\ \A m \in Milestones : milestone[m].amount \in Nat
         /\ Worth(M) \in Nat
<1>1. IsFiniteSet(M)
  BY MilestoneAssumption, FS_Subset
<1>2. \A m \in Milestones : milestone[m].amount \in Nat
  <2> SUFFICES ASSUME NEW m \in Milestones PROVE milestone[m].amount \in Nat
    OBVIOUS
  <2>1. milestone[m].amount \in Amounts \cup {0}
    BY DEF TypeOK, MilestoneRow
  <2>2. \A a \in Amounts \cup {0} : a \in Nat
    BY AmountAssumption
  <2> QED
    BY <2>1, <2>2
<1>3. \A m \in M : Price[m] \in Nat
  BY <1>2 DEF Price
<1>4. SumFunctionOnSet(Price, M) \in Nat
  BY <1>1, <1>3, SumNat
<1> QED
  BY <1>1, <1>2, <1>3, <1>4 DEF IntegersOn, Worth

LEMMA SameWorth ==
  ASSUME TypeOK, NEW M \in SUBSET Milestones,
         \A m \in M : milestone'[m].amount = milestone[m].amount
  PROVE  SumFunctionOnSet(Price', M) = Worth(M)
<1> DEFINE e == Price'
<1>1. \A m \in M : Price[m] = e[m]
  BY DEF Price
<1> HIDE DEF e
<1>2. SumFunctionOnSet(Price, M) = SumFunctionOnSet(e, M)
  BY <1>1, WorthIsNat, SumSame
<1> QED
  BY <1>2 DEF Worth, e

LEMMA IdleType == Idle \in Request
  BY DEF Idle, Request, Ops, Stages

LEMMA EndType ==
  ASSUME TypeOK, NEW s \in Sessions, End(s)
  PROVE  req' \in [Sessions -> Request]
  BY IdleType DEF TypeOK, End

LEMMA LoadType ==
  ASSUME TypeOK, NEW s \in Sessions, NEW op \in Ops, NEW m \in Milestones,
         NEW a \in Amounts \cup {0}, Load(s, op, m, a)
  PROVE  req' \in [Sessions -> Request]
<1>1. contract.paid \in Nat
  BY DEF TypeOK, ContractRow
<1>2. [op |-> op, stage |-> "loaded", m |-> m, k |-> 0, amount |-> a,
       paid |-> contract.paid, sum |-> 0, all |-> FALSE] \in Request
  BY <1>1 DEF Request, Stages
<1> QED
  BY <1>2 DEF TypeOK, Load

LEMMA SetMilestoneType ==
  ASSUME TypeOK, NEW m, NEW st \in MilestoneStatus \cup {"none", "deleted"},
         SetMilestone(m, st)
  PROVE  milestone' \in [Milestones -> MilestoneRow]
  BY DEF TypeOK, SetMilestone, MilestoneRow

\* An approval tallies numbers.
LEMMA TallyType ==
  ASSUME TypeOK, NEW s \in Sessions, Tally(s)
  PROVE  req' \in [Sessions -> Request]
<1> DEFINE others == Existing \ {req[s].m}
           n == Worth(Counted(others)) + req[s].amount
           all == AllPaid(others)
<1>1. PICK p \in Releasable(req[s].m) :
        req' = [req EXCEPT ![s].stage = "tallied", ![s].k = p[2],
                           ![s].sum = n, ![s].all = all]
  BY DEF Tally, NewPaid
<1>2. p[2] \in Attempts
  BY DEF Releasable, PaymentsOf
<1>3. req[s] \in Request
  BY DEF TypeOK
<1>4. n \in Nat
  <2>1. Counted(others) \in SUBSET Milestones
    BY DEF Counted, Existing
  <2>2. Worth(Counted(others)) \in Nat
    BY <2>1, WorthIsNat
  <2>3. req[s].amount \in Amounts \cup {0}
    BY <1>3 DEF Request
  <2>4. \A a \in Amounts \cup {0} : a \in Nat
    BY AmountAssumption
  <2> QED
    BY <2>2, <2>3, <2>4
<1>5. all \in BOOLEAN
  BY DEF AllPaid
<1> HIDE DEF n, all, others
<1> DEFINE r == [req[s] EXCEPT !.stage = "tallied", !.k = p[2], !.sum = n, !.all = all]
<1>6. "tallied" \in Stages
  BY DEF Stages
<1>7. r \in Request
  BY <1>2, <1>3, <1>4, <1>5, <1>6 DEF Request
<1>8. req' = [req EXCEPT ![s] = r]
  BY <1>1
<1> HIDE DEF r
<1> QED
  BY <1>7, <1>8 DEF TypeOK

\* A step keeps the course of events, commits, or gives a request up.
LEMMA CourseStep ==
  ASSUME [Next]_vars
  PROVE  \/ UNCHANGED Course
         \/ \E s \in Sessions : Rollback(s)
         \/ \E s \in Sessions : Commit(s, TRUE) \/ Commit(s, FALSE)
<1>0. /\ ClientTabs \subseteq Sessions /\ FreelancerTabs \subseteq Sessions
      /\ FailureTabs \subseteq Sessions
  BY DEF Sessions
<1>1. ASSUME NEW s \in Sessions, Loads(s)
      PROVE  UNCHANGED Course
  BY <1>1 DEF Loads, LoadAdd, LoadUpdate, LoadDelete, LoadStart, LoadSubmit, LoadReview
<1>2. ASSUME NEW s \in Sessions, Edits(s)
      PROVE  Commit(s, FALSE)
  BY <1>2, Zenon DEF Edits, AddMilestone, UpdateMilestone, StartMilestone, SubmitMilestone,
              RequestRevision, ApproveUnfunded
<1>3. ASSUME NEW s \in ClientTabs, ClientMoves(s)
      PROVE  UNCHANGED Course \/ Commit(s, TRUE) \/ Commit(s, FALSE)
  BY <1>3, Zenon DEF ClientMoves, FlushApproved, Tally, FinishApproval, DeleteMilestone
<1>4. ASSUME \/ \E s \in ClientTabs, m \in Milestones, k \in Attempts : FundEscrow(s, m, k)
             \/ \E s \in FailureTabs : WriteFailed(s)
             \/ \E s \in FailureTabs, p \in Payments : LoadFailed(s, p)
             \/ Environment
      PROVE  UNCHANGED Course
  BY <1>4, Zenon DEF FundEscrow, WriteFailed, LoadFailed, Environment, ConfirmPayment,
                     AdminRelease
<1>5. UNCHANGED vars => UNCHANGED Course
  BY DEF vars, Course
<1> QED
  BY <1>0, <1>1, <1>2, <1>3, <1>4, <1>5, Steps

LEMMA CourseType ==
  ASSUME overtaken \subseteq ClientTabs \cup FreelancerTabs, orderly \in BOOLEAN,
         [Next]_vars
  PROVE  overtaken' \subseteq ClientTabs \cup FreelancerTabs /\ orderly' \in BOOLEAN
<1>1. ASSUME NEW s \in Sessions, NEW x \in BOOLEAN, Commit(s, x)
      PROVE  overtaken' \subseteq ClientTabs \cup FreelancerTabs /\ orderly' \in BOOLEAN
  BY <1>1 DEF Commit
<1>2. ASSUME NEW s \in Sessions, Rollback(s)
      PROVE  overtaken' \subseteq ClientTabs \cup FreelancerTabs /\ orderly' \in BOOLEAN
  BY <1>2 DEF Rollback
<1> QED
  BY <1>1, <1>2, CourseStep DEF Course

\* Every step keeps the types of rows, books and requests.
LEMMA TypeStep ==
  ASSUME TypeOK, Sound, Sound', [Next]_vars
  PROVE  TypeOK'
<1>20. overtaken' \subseteq ClientTabs \cup FreelancerTabs /\ orderly' \in BOOLEAN
  BY CourseType DEF TypeOK
<1> DEFINE Rest == /\ contract' \in ContractRow
                   /\ milestone' \in [Milestones -> MilestoneRow]
                   /\ req' \in [Sessions -> Request]
<1> SUFFICES Rest
  BY <1>20 DEF Sound, Shape, PaymentShape, TypeOK
<1>0. /\ contract \in ContractRow
      /\ milestone \in [Milestones -> MilestoneRow]
      /\ req \in [Sessions -> Request]
      /\ ClientTabs \subseteq Sessions /\ FreelancerTabs \subseteq Sessions
      /\ FailureTabs \subseteq Sessions
  BY DEF TypeOK, Sessions
<1>1. ASSUME NEW s \in Sessions, Loads(s) PROVE Rest
  <2>1. UNCHANGED <<contract, milestone>>
    BY <1>1, LoadEffect DEF Rows, Sound, Shape
  <2>2. \E op \in Ops, m \in Milestones, a \in Amounts \cup {0} : Load(s, op, m, a)
    <3>1. \A m \in Milestones : milestone[m].amount \in Amounts \cup {0}
      BY DEF TypeOK, MilestoneRow
    <3>2. {"add", "update", "delete", "start", "submit"} \subseteq Ops
      BY DEF Ops
    <3> QED
      BY <1>1, <3>1, <3>2
         DEF Loads, LoadAdd, LoadUpdate, LoadDelete, LoadStart, LoadSubmit, LoadReview
  <2>3. req' \in [Sessions -> Request]
    BY <2>2, LoadType
  <2> QED
    BY <1>0, <2>1, <2>3
<1>2. ASSUME NEW s \in Sessions, Edits(s) PROVE Rest
  <2>1. UNCHANGED contract /\ End(s)
    BY <1>2 DEF Edits, AddMilestone, UpdateMilestone, StartMilestone, SubmitMilestone,
                RequestRevision, ApproveUnfunded, Commit
  <2>2. \/ \E m, st : st \in MilestoneStatus /\ SetMilestone(m, st)
        \/ AddMilestone(s) \/ UpdateMilestone(s)
    BY <1>2 DEF Edits, StartMilestone, SubmitMilestone, RequestRevision,
                ApproveUnfunded, MilestoneStatus
  <2>3. req[s].amount \in Amounts \cup {0}
    BY <1>0 DEF Request
  <2>4. milestone' \in [Milestones -> MilestoneRow]
    <3>1. CASE \E m, st : st \in MilestoneStatus /\ SetMilestone(m, st)
      BY <3>1, SetMilestoneType
    <3>2. CASE AddMilestone(s)
      BY <1>0, <2>3, <3>2 DEF AddMilestone, MilestoneRow, MilestoneStatus
    <3>3. CASE UpdateMilestone(s)
      BY <1>0, <2>3, <3>3 DEF UpdateMilestone, MilestoneRow
    <3> QED
      BY <2>2, <3>1, <3>2, <3>3
  <2> QED
    BY <1>0, <2>1, <2>4, EndType
<1>3. ASSUME NEW s \in Sessions, Rollback(s) PROVE Rest
  BY <1>0, <1>3, EndType DEF Rollback, Rows
<1>4. ASSUME NEW s \in ClientTabs, FlushApproved(s) PROVE Rest
  BY <1>0, <1>4 DEF FlushApproved, Rows, Request, Stages
<1>5. ASSUME NEW s \in ClientTabs, Tally(s) PROVE Rest
  BY <1>0, <1>5, TallyType DEF Tally, Rows
<1>6. ASSUME NEW s \in ClientTabs, FinishApproval(s) PROVE Rest
  <2>1. req[s].sum \in Nat /\ contract.paid \in Nat
        /\ contract.status \in {"active", "completed"}
    BY <1>0 DEF Request, ContractRow
  <2>2. contract' \in ContractRow
    BY <1>6, <2>1 DEF FinishApproval, ContractRow
  <2>3. milestone' \in [Milestones -> MilestoneRow]
    BY <1>6, SetMilestoneType DEF FinishApproval, MilestoneStatus
  <2> QED
    BY <1>0, <1>6, <2>2, <2>3, EndType DEF FinishApproval, Commit
<1>7. ASSUME NEW s \in ClientTabs, DeleteMilestone(s) PROVE Rest
  BY <1>0, <1>7, EndType, SetMilestoneType DEF DeleteMilestone, Commit
<1>8. ASSUME NEW s \in ClientTabs, NEW m \in Milestones, NEW k \in Attempts,
             FundEscrow(s, m, k)
      PROVE  Rest
  BY <1>0, <1>8 DEF FundEscrow
<1>9. ASSUME NEW s \in FailureTabs, WriteFailed(s) PROVE Rest
  BY <1>0, <1>9, EndType DEF WriteFailed
<1>10. ASSUME NEW s \in FailureTabs, NEW p \in Payments, LoadFailed(s, p) PROVE Rest
  <2>1. UNCHANGED <<contract, milestone>>
    BY <1>10 DEF LoadFailed, Rows
  <2> DEFINE stage == IF escrow[p] = "gone" THEN "no_escrow" ELSE "loaded"
             r == [Idle EXCEPT !.op = "failed", !.m = p[1], !.k = p[2], !.stage = stage]
  <2>2. r \in Request
    BY PaymentParts DEF Idle, Request, Ops, Stages
  <2>3. req' = [req EXCEPT ![s] = r]
    BY <1>10 DEF LoadFailed
  <2> HIDE DEF r
  <2> QED
    BY <1>0, <2>1, <2>2, <2>3
<1>11. CASE Environment
  <2>1. UNCHANGED <<contract, milestone, req>>
    BY <1>11, Zenon DEF Environment, ConfirmPayment, AdminRelease, Rows
  <2> QED
    BY <1>0, <2>1
<1>12. CASE UNCHANGED vars
  BY <1>0, <1>12 DEF vars
<1> HIDE DEF Rest
<1> QED
  BY <1>1, <1>2, <1>3, <1>4, <1>5, <1>6, <1>7, <1>8, <1>9, <1>10, <1>11, <1>12, Steps
     DEF ClientMoves

---------------------------------------------------------------------------
(* Requests that nobody overtook.                                          *)

\* TabInv, of one request: whose it is, ...
Belongs(s) ==
  /\ req[s].op \in ClientOps => s \in ClientTabs
  /\ req[s].op \in {"start", "submit"} => s \in FreelancerTabs
  /\ req[s].op # "none" => req[s].m \in Milestones
  /\ s \in overtaken => req[s] # Idle

\* ... what it has tested of its milestone, ...
Waits(s) ==
  LET row == milestone[req[s].m] IN
  /\ req[s].op = "add" => contract.status = "active"
  /\ req[s].op \in {"update", "delete"} => row.status # "paid"
  /\ req[s].op = "start" => row.status \in {"pending", "deleted"}
  /\ req[s].op = "submit" =>
        row.status \in {"in_progress", "revision_requested", "deleted"}
  /\ req[s].op \in {"revise", "approve"} =>
        row.status = "submitted" /\ contract.status = "active"
  /\ req[s].op = "approve" => row.amount = req[s].amount

\* ... what it found in the others, ...
Found(s) ==
  LET others == Existing \ {req[s].m} IN
  /\ req[s].op = "approve" => req[s].paid = contract.paid
  /\ req[s].stage = "tallied" =>
        /\ req[s].sum = Worth(Counted(others)) + req[s].amount
        /\ req[s].all => AllPaid(others)

\* ... and all of these, unless it was overtaken.
Stands(s) == Waits(s) /\ Found(s)

Fits(s) == Belongs(s) /\ (s \notin overtaken => Stands(s))

Alone == OneAtATime => overtaken = {} /\ orderly

LEMMA TabParts ==
  TabInv <=> (\A s \in Sessions : Fits(s)) /\ AmountPaidExact /\ CompletedIsPaid /\ Alone
BY DEF TabInv, RequestsApart, MilestonesWait, TalliesHold, Fits, Belongs, Stands, Waits,
       Found, Current, Alone

LEMMA TabPartsNext ==
  TabInv' <=> /\ \A s \in Sessions : Fits(s)'
              /\ AmountPaidExact' /\ CompletedIsPaid' /\ Alone'
BY DEF TabInv, RequestsApart, MilestonesWait, TalliesHold, Fits, Belongs, Stands, Waits,
       Found, Current, Alone

\* A request without a milestone of its own stands.
LEMMA Nothing ==
  ASSUME NEW s, req'[s].op \in {"none", "failed"}, req'[s].stage # "tallied"
  PROVE  Stands(s)'
  BY DEF Stands, Waits, Found

\* A request stands on rows that did not change.
LEMMA StandsRest ==
  ASSUME NEW s, Stands(s), req'[s] = req[s], UNCHANGED <<contract, milestone>>
  PROVE  Stands(s)'
  BY DEF Stands, Waits, Found, Worth, Price, Counted, AllPaid, Existing, Exists

LEMMA MoneyPartsRest ==
  ASSUME AmountPaidExact, CompletedIsPaid, UNCHANGED <<contract, milestone, orderly>>
  PROVE  AmountPaidExact' /\ CompletedIsPaid'
  BY DEF AmountPaidExact, CompletedIsPaid, Worth, Price, Counted, Existing, Exists

\* A step that writes no row leaves everybody but its own request as it was.
LEMMA TabQuiet ==
  ASSUME TabInv, NEW s \in Sessions, OnlyRequest(s), Fits(s)',
         UNCHANGED <<contract, milestone, orderly>>,
         overtaken' \in {overtaken, overtaken \ {s}}
  PROVE  TabInv'
<1>1. ASSUME NEW t \in Sessions \ {s} PROVE Fits(t)'
  <2>1. Fits(t) /\ req'[t] = req[t] /\ (t \in overtaken' <=> t \in overtaken)
    BY TabParts DEF OnlyRequest
  <2>2. t \notin overtaken => Stands(t)'
    BY <2>1, StandsRest DEF Fits
  <2> QED
    BY <2>1, <2>2 DEF Fits, Belongs
<1>2. AmountPaidExact' /\ CompletedIsPaid'
  BY TabParts, MoneyPartsRest
<1>3. Alone'
  BY TabParts DEF Alone, OneAtATime
<1> QED
  BY <1>1, <1>2, <1>3, TabPartsNext

---------------------------------------------------------------------------
(* Who is overtaken by a commit.                                           *)

\* Whoever tallies, approves.
LEMMA TalliesApprove ==
  ASSUME Sound, NEW s \in Sessions, req[s].stage = "tallied"
  PROVE  req[s].op = "approve" /\ req[s].op \in ClientOps
  BY DEF Sound, ApprovalsOwn, ClientOps

Given == TypeOK /\ Sound /\ TabInv

\* What every commit does to the requests.
LEMMA CommitEffect ==
  ASSUME Given, NEW s \in Sessions, NEW x \in BOOLEAN, Commit(s, x)
  PROVE  /\ OnlyRequest(s) /\ req'[s] = Idle /\ Fits(s)' /\ Alone'
         /\ \A t \in Sessions \ {s} :
              Fits(t) /\ Belongs(t)' /\ (t \notin overtaken' => t \notin overtaken)
<1>1. OnlyRequest(s) /\ req'[s] = Idle
  BY EndEffect DEF Commit, Given, Sound, Shape
<1>2. s \notin overtaken' /\ overtaken \subseteq ClientTabs \cup FreelancerTabs
  BY DEF Commit, Given, TypeOK
<1>3. Fits(s)'
  <2>1. Belongs(s)'
    BY <1>1, <1>2 DEF Belongs, Idle, ClientOps
  <2>2. Stands(s)'
    BY <1>1, Nothing DEF Idle
  <2> QED
    BY <2>1, <2>2 DEF Fits
<1>4. ASSUME NEW t \in Sessions \ {s}
      PROVE  Fits(t) /\ Belongs(t)' /\ (t \notin overtaken' => t \notin overtaken)
  <2>1. Fits(t) /\ req'[t] = req[t]
    BY <1>1, TabParts DEF Given, OnlyRequest
  <2>2. t \in overtaken' => t \in overtaken \/ req[t] # Idle
    BY DEF Commit
  <2>3. t \in overtaken => t \in overtaken'
    BY <1>2 DEF Commit
  <2> QED
    BY <2>1, <2>2, <2>3 DEF Fits, Belongs
<1>5. Alone'
  <2> SUFFICES ASSUME OneAtATime PROVE overtaken' = {} /\ orderly'
    BY DEF Alone, OneAtATime
  <2>1. overtaken = {} /\ orderly
    BY TabParts DEF Given, Alone
  <2>2. \A t \in Sessions \ {s} : ~SamePerson(s, t)
    BY DEF OneAtATime, SamePerson
  <2> QED
    BY <2>1, <2>2 DEF Commit, Sessions
<1> QED
  BY <1>1, <1>3, <1>4, <1>5

\* A request that was overtaken takes everybody along.
LEMMA OvertakenCommits ==
  ASSUME Given, NEW s \in overtaken, NEW x \in BOOLEAN, Commit(s, x)
  PROVE  TabInv'
<1>0. s \in Sessions
  BY DEF Given, TypeOK, Sessions
<1>1. ASSUME NEW t \in Sessions \ {s} PROVE Fits(t)'
  <2>1. Fits(t) /\ Belongs(t)' /\ req'[t] = req[t]
    BY <1>0, CommitEffect DEF OnlyRequest
  <2>2. ASSUME t \notin overtaken' PROVE Stands(t)'
    <3>1. CASE req[t] = Idle
      BY <2>1, <3>1, Nothing DEF Idle
    <3>2. CASE req[t] # Idle
      <4>1. t \notin ClientTabs \cup FreelancerTabs
        BY <2>2, <3>2 DEF Commit
      <4>2. req[t].op \in {"none", "failed"}
        BY <2>1, <4>1 DEF Fits, Belongs, ClientOps, Given, TypeOK, Request, Ops
      <4>3. req[t].stage # "tallied"
        BY <4>2, TalliesApprove DEF Given
      <4> QED
        BY <2>1, <4>2, <4>3, Nothing
    <3> QED
      BY <3>1, <3>2
  <2> QED
    BY <2>1, <2>2 DEF Fits
<1>2. ~orderly'
  BY DEF Commit
<1>3. AmountPaidExact' /\ CompletedIsPaid'
  BY <1>2 DEF AmountPaidExact, CompletedIsPaid
<1> QED
  BY <1>0, <1>1, <1>3, CommitEffect, TabPartsNext

\* Past the client's commit stand requests that are not the client's.
LEMMA ClientAlone ==
  ASSUME Given, NEW c \in ClientTabs, NEW x \in BOOLEAN, Commit(c, x), c \notin overtaken,
         NEW s \in Sessions \ {c}, s \notin overtaken'
  PROVE  /\ req'[s] = req[s] /\ Belongs(s)
         /\ req[s].op \notin ClientOps /\ req[s].stage # "tallied"
         /\ Stands(s)
<1>0. c \in Sessions
  BY DEF Sessions
<1>1. req'[s] = req[s] /\ Fits(s) /\ s \notin overtaken
  BY <1>0, CommitEffect DEF OnlyRequest
<1>2. req[s].op \notin ClientOps
  <2> SUFFICES ASSUME req[s].op \in ClientOps PROVE FALSE
    OBVIOUS
  <2>1. s \in ClientTabs
    BY <1>1 DEF Fits, Belongs
  <2>2. req[s] # Idle
    BY DEF Idle, ClientOps
  <2> QED
    BY <2>1, <2>2 DEF Commit, SamePerson
<1> QED
  BY <1>1, <1>2, TalliesApprove DEF Given, Fits

\* Past the freelancer's, those that are not the freelancer's.
LEMMA FreelancerAlone ==
  ASSUME Given, NEW f \in FreelancerTabs, NEW x \in BOOLEAN, Commit(f, x),
         NEW s \in Sessions \ {f}, s \notin overtaken'
  PROVE  /\ req'[s] = req[s] /\ Belongs(s) /\ Stands(s)
         /\ req[s].op \notin {"start", "submit"}
<1>0. f \in Sessions
  BY DEF Sessions
<1>1. req'[s] = req[s] /\ Fits(s) /\ s \notin overtaken
  BY <1>0, CommitEffect DEF OnlyRequest
<1>2. req[s].op \notin {"start", "submit"}
  <2> SUFFICES ASSUME req[s].op \in {"start", "submit"} PROVE FALSE
    OBVIOUS
  <2>1. s \in FreelancerTabs
    BY <1>1 DEF Fits, Belongs
  <2>2. req[s] # Idle
    BY DEF Idle
  <2> QED
    BY <2>1, <2>2 DEF Commit, SamePerson
<1> QED
  BY <1>1, <1>2 DEF Fits

---------------------------------------------------------------------------
(* Writes of one milestone that is not PAID, before or after.              *)

OneRow(m) ==
  /\ m \in Milestones
  /\ \A n \in Milestones \ {m} : milestone'[n] = milestone[n]
  /\ milestone[m].status # "paid" /\ milestone'[m].status # "paid"
  /\ UNCHANGED contract

\* What the PAID ones are worth does not change.
LEMMA OneRowWorth ==
  ASSUME TypeOK, NEW m, OneRow(m), NEW x
  PROVE  Worth(Counted(Existing \ {x}))' = Worth(Counted(Existing \ {x}))
         /\ Worth(Counted(Existing))' = Worth(Counted(Existing))
<1> DEFINE M == Counted(Existing \ {x})
           N == Counted(Existing)
<1>1. Counted(Existing \ {x})' = M /\ Counted(Existing)' = N
  <2>1. Existing' \ {m} = Existing \ {m}
    BY DEF OneRow, Existing, Exists
  <2> QED
    BY <2>1 DEF OneRow, Counted, Existing
<1>2. M \in SUBSET Milestones /\ N \in SUBSET Milestones
  BY DEF Counted, Existing
<1>3. \A n \in M \cup N : milestone'[n].amount = milestone[n].amount
  BY <1>2 DEF OneRow, Counted
<1> HIDE DEF M, N
<1>4. SumFunctionOnSet(Price', M) = Worth(M) /\ SumFunctionOnSet(Price', N) = Worth(N)
  BY <1>2, <1>3, SameWorth
<1> QED
  BY <1>1, <1>4 DEF Worth, M, N

\* A request that another one's write leaves stands again.
LEMMA OneRowStands ==
  ASSUME TypeOK, NEW m, OneRow(m), NEW s \in Sessions, req'[s] = req[s], Stands(s),
         Waits(s)', req[s].stage = "tallied" => req[s].m # m /\ Exists(m)
  PROVE  Stands(s)'
<1>1. Found(s)'
  <2>1. req[s].stage = "tallied" => (req[s].all => AllPaid(Existing \ {req[s].m})')
    BY DEF OneRow, Stands, Found, AllPaid, Existing
  <2>2. PICK x : x = req[s].m
    OBVIOUS
  <2>3. x = req'[s].m
    BY <2>2
  <2>4. Worth(Counted(Existing \ {x}))' = Worth(Counted(Existing \ {x}))
    BY OneRowWorth
  <2> QED
    BY <2>1, <2>2, <2>3, <2>4 DEF Found, Stands, OneRow
<1> QED
  BY <1>1 DEF Stands

LEMMA TabOneRow ==
  ASSUME Given, NEW m, OneRow(m), orderly => contract.status # "completed",
         NEW s \in Sessions, Commit(s, FALSE),
         \A t \in Sessions \ {s} : t \notin overtaken' =>
            /\ Stands(t) /\ Waits(t)'
            /\ req[t].stage = "tallied" => req[t].m # m /\ Exists(m)
  PROVE  TabInv'
<1>0. TypeOK /\ AmountPaidExact
  BY TabParts DEF Given
<1>1. ASSUME NEW t \in Sessions \ {s} PROVE Fits(t)'
  <2>1. Belongs(t)' /\ req'[t] = req[t]
    BY CommitEffect DEF OnlyRequest
  <2>2. t \notin overtaken' => Stands(t)'
    BY <1>0, <2>1, OneRowStands
  <2> QED
    BY <2>1, <2>2 DEF Fits
<1>2. orderly' => orderly
  BY DEF Commit
<1>3. CompletedIsPaid'
  BY <1>2 DEF OneRow, CompletedIsPaid
<1>4. AmountPaidExact'
  BY <1>0, <1>2, OneRowWorth DEF OneRow, AmountPaidExact
<1> QED
  BY <1>1, <1>3, <1>4, CommitEffect, TabPartsNext

\* A milestone that is there and not PAID keeps its contract open.
LEMMA StillOpen ==
  ASSUME CompletedIsPaid, NEW m \in Milestones, Exists(m),
         milestone[m].status # "paid"
  PROVE  orderly => contract.status # "completed"
  BY DEF CompletedIsPaid, Existing

LEMMA ClientEdits ==
  ASSUME Given, NEW c \in ClientTabs, c \notin overtaken,
         \/ AddMilestone(c) \/ UpdateMilestone(c) \/ DeleteMilestone(c)
         \/ RequestRevision(c) \/ ApproveUnfunded(c)
  PROVE  TabInv'
<1> DEFINE m == req[c].m
<1>0. c \in Sessions
  BY DEF Sessions
<1>1. Commit(c, FALSE) /\ UNCHANGED contract
  BY DEF AddMilestone, UpdateMilestone, DeleteMilestone, RequestRevision,
         ApproveUnfunded
<1>3. req[c].op \in {"add", "update", "delete", "revise", "approve"}
  BY DEF AddMilestone, UpdateMilestone, DeleteMilestone, RequestRevision,
         ApproveUnfunded, At
<1>4. Waits(c) /\ m \in Milestones
  BY <1>0, <1>3, TabParts DEF Given, Fits, Belongs, Stands
<1>5. milestone \in [Milestones -> MilestoneRow]
  BY DEF Given, TypeOK
<1>7. /\ OneRow(m)
      /\ milestone'[m].status \in {milestone[m].status, "deleted"}
           \/ milestone[m].status \in {"none", "submitted"}
  <2>1. CASE AddMilestone(c)
    BY <1>1, <1>4, <1>5, <2>1 DEF AddMilestone, OneRow
  <2>2. CASE UpdateMilestone(c)
    <3>1. milestone[m].status # "paid"
      BY <1>4, <2>2 DEF UpdateMilestone, At, Waits
    <3> QED
      BY <1>1, <1>4, <1>5, <2>2, <3>1 DEF UpdateMilestone, OneRow, MilestoneRow
  <2>3. CASE DeleteMilestone(c)
    <3>1. milestone[m].status # "paid"
      BY <1>4, <2>3 DEF DeleteMilestone, At, Waits
    <3> QED
      BY <1>1, <1>4, <1>5, <2>3, <3>1 DEF DeleteMilestone, SetMilestone, OneRow, MilestoneRow
  <2>4. CASE RequestRevision(c)
    <3>1. milestone[m].status = "submitted"
      BY <1>4, <2>4 DEF RequestRevision, At, Waits
    <3> QED
      BY <1>1, <1>4, <1>5, <2>4, <3>1 DEF RequestRevision, SetMilestone, OneRow, MilestoneRow
  <2>5. CASE ApproveUnfunded(c)
    <3>1. milestone[m].status = "submitted"
      BY <1>4, <2>5 DEF ApproveUnfunded, At, Waits
    <3> QED
      BY <1>1, <1>4, <1>5, <2>5, <3>1 DEF ApproveUnfunded, SetMilestone, OneRow, MilestoneRow
  <2> QED
    BY <2>1, <2>2, <2>3, <2>4, <2>5
<1>8. orderly => contract.status # "completed"
  <2>1. CASE req[c].op = "add"
    BY <1>4, <2>1 DEF Waits
  <2>2. CASE req[c].op # "add"
    <3>1. Exists(m)
      <4>1. CASE UpdateMilestone(c) \/ DeleteMilestone(c) \/ RequestRevision(c)
        BY <4>1 DEF UpdateMilestone, DeleteMilestone, RequestRevision, Writable
      <4>2. CASE ApproveUnfunded(c)
        BY <1>4, <4>2 DEF ApproveUnfunded, At, Waits, Exists, MilestoneStatus
      <4> QED
        BY <2>2, <4>1, <4>2 DEF AddMilestone, At
    <3> QED
      BY <1>4, <1>7, <3>1, StillOpen DEF OneRow, Given, TabInv
  <2> QED
    BY <2>1, <2>2
<1>9. ASSUME NEW s \in Sessions \ {c}, s \notin overtaken'
      PROVE  Stands(s) /\ Waits(s)' /\ req[s].stage # "tallied"
  <2>1. /\ req[s].op \notin ClientOps /\ Waits(s) /\ req'[s] = req[s]
        /\ req[s].op # "none" => req[s].m \in Milestones
        /\ req[s].stage # "tallied" /\ Stands(s)
    BY <1>1, <1>9, ClientAlone DEF Belongs, Stands
  <2>2. CASE req[s].m # m
    BY <1>7, <2>1, <2>2 DEF OneRow, Waits, ClientOps
  <2>3. CASE req[s].m = m
    BY <1>7, <2>1, <2>3 DEF Waits, ClientOps
  <2> QED
    BY <2>1, <2>2, <2>3
<1> HIDE DEF m
<1> QED
  BY <1>0, <1>1, <1>7, <1>8, <1>9, TabOneRow

\* The freelancer's edits meet the client's requests, on another milestone or
\* before the client has anything to approve.
LEMMA FreelancerEdits ==
  ASSUME Given, NEW f \in FreelancerTabs, f \notin overtaken,
         StartMilestone(f) \/ SubmitMilestone(f)
  PROVE  TabInv'
<1> DEFINE m == req[f].m
<1>0. f \in Sessions
  BY DEF Sessions
<1>1. Commit(f, FALSE) /\ UNCHANGED contract
  BY DEF StartMilestone, SubmitMilestone
<1>3. req[f].op \in {"start", "submit"} /\ Exists(m)
  BY DEF StartMilestone, SubmitMilestone, At, Writable
<1>4. Waits(f) /\ m \in Milestones
  BY <1>0, <1>3, TabParts DEF Given, Fits, Belongs, Stands
<1>5. milestone \in [Milestones -> MilestoneRow]
  BY DEF Given, TypeOK
<1>7. milestone[m].status \in {"pending", "in_progress", "revision_requested"}
  BY <1>3, <1>4 DEF Waits, Exists, MilestoneStatus
<1>8. /\ OneRow(m)
      /\ milestone'[m].status \in {"in_progress", "submitted"}
      /\ milestone'[m].amount = milestone[m].amount
  <2>1. \E st \in {"in_progress", "submitted"} : SetMilestone(m, st)
    BY DEF StartMilestone, SubmitMilestone
  <2> QED
    BY <1>1, <1>4, <1>5, <1>7, <2>1 DEF SetMilestone, OneRow, MilestoneRow
<1>9. orderly => contract.status # "completed"
  BY <1>3, <1>4, <1>7, StillOpen DEF Given, TabInv
<1>10. ASSUME NEW s \in Sessions \ {f}, s \notin overtaken'
       PROVE  /\ Stands(s) /\ Waits(s)'
              /\ req[s].stage = "tallied" => req[s].m # m
  <2>1. /\ Waits(s) /\ req'[s] = req[s] /\ req[s].op \notin {"start", "submit"}
        /\ req[s].op # "none" => req[s].m \in Milestones
        /\ Stands(s)
    BY <1>1, <1>10, FreelancerAlone DEF Belongs, Stands
  <2>2. req[s].op \in {"revise", "approve"} => req[s].m # m
    BY <1>7, <2>1 DEF Waits
  <2>3. Waits(s)'
    <3>1. CASE req[s].m # m
      BY <1>1, <1>8, <2>1, <3>1 DEF OneRow, Waits
    <3>2. CASE req[s].m = m
      BY <1>1, <1>8, <2>1, <2>2, <3>2 DEF Waits
    <3> QED
      BY <3>1, <3>2
  <2> QED
    BY <2>1, <2>2, <2>3, TalliesApprove DEF Given
<1> HIDE DEF m
<1> QED
  BY <1>0, <1>1, <1>3, <1>8, <1>9, <1>10, TabOneRow

\* The approval books what it found, which is still what there is.
LEMMA ApprovalBooks ==
  ASSUME Given, NEW c \in ClientTabs, c \notin overtaken, FinishApproval(c)
  PROVE  TabInv'
<1>0. PICK m : m = req[c].m
  OBVIOUS
<1>1. c \in Sessions /\ req[c].op = "approve" /\ req[c].stage = "tallied"
  BY DEF Sessions, FinishApproval, At
<1>2. Commit(c, TRUE)
  BY DEF FinishApproval
<1>3. Waits(c) /\ Found(c) /\ m \in Milestones
  BY <1>0, <1>1, TabParts DEF Given, Fits, Belongs, Stands
<1>4. /\ milestone[m].status = "submitted" /\ contract.status = "active"
      /\ milestone[m].amount = req[c].amount
      /\ req[c].paid = contract.paid
      /\ req[c].sum = Worth(Counted(Existing \ {m})) + milestone[m].amount
      /\ req[c].all => AllPaid(Existing \ {m})
  BY <1>0, <1>1, <1>3 DEF Waits, Found
<1>5. /\ \A n \in Milestones \ {m} : milestone'[n] = milestone[n]
      /\ milestone'[m].status = "paid"
      /\ milestone'[m].amount = milestone[m].amount
  BY <1>0, <1>3 DEF FinishApproval, SetMilestone, Given, TypeOK, MilestoneRow
<1>6. ASSUME NEW s \in Sessions \ {c} PROVE Fits(s)'
  <2>1. Belongs(s)'
    BY <1>1, <1>2, CommitEffect
  <2>2. ASSUME s \notin overtaken' PROVE Stands(s)'
    <3>1. /\ req'[s] = req[s] /\ req[s].op \notin ClientOps
          /\ req[s].op # "none" => req[s].m \in Milestones
          /\ req[s].stage # "tallied" /\ Waits(s)
      BY <1>2, <2>2, ClientAlone DEF Belongs, Stands
    <3>2. req[s].op \in {"start", "submit"} => req[s].m # m
      BY <1>4, <3>1 DEF Waits
    <3> QED
      BY <1>5, <3>1, <3>2 DEF Stands, Waits, Found, ClientOps
  <2> QED
    BY <2>1, <2>2 DEF Fits
<1>8. /\ contract'.paid = req[c].sum
      /\ contract'.status = "completed" => req[c].all \/ contract.status = "completed"
  BY <1>4 DEF FinishApproval
<1> DEFINE M == Counted(Existing \ {m})
<1>9. AmountPaidExact'
  <2>1. Counted(Existing)' = M \cup {m} /\ m \notin M /\ M \in SUBSET Milestones
    BY <1>3, <1>5 DEF Counted, Existing, Exists, MilestoneStatus
  <2> HIDE DEF M
  <2>2. /\ M \cup {m} \in SUBSET Milestones /\ (M \cup {m}) \ {m} = M
    BY <1>3, <2>1
  <2>3. /\ IsFiniteSet(M \cup {m}) /\ IntegersOn(Price, M \cup {m})
        /\ SumFunctionOnSet(Price', M \cup {m}) = Worth(M \cup {m})
    BY <1>5, <2>2, WorthIsNat, SameWorth DEF Given
  <2>4. SumFunctionOnSet(Price, M \cup {m})
          = SumFunctionOnSet(Price, (M \cup {m}) \ {m}) + Price[m]
    BY <2>3, SumSplit
  <2>5. Worth(M \cup {m}) = Worth(M) + milestone[m].amount
    BY <1>3, <2>2, <2>4 DEF Worth, Price
  <2> QED
    BY <1>4, <1>8, <2>1, <2>3, <2>5 DEF AmountPaidExact, Worth, M
<1>10. CompletedIsPaid'
  <2> SUFFICES ASSUME contract'.status = "completed"
               PROVE  /\ Existing' # {}
                      /\ \A n \in Existing' : milestone'[n].status = "paid"
    BY DEF CompletedIsPaid
  <2>1. m \in Existing'
    BY <1>3, <1>5 DEF Existing, Exists, MilestoneStatus
  <2>2. req[c].all
    <3>1. contract.status # "completed"
      BY <1>4
    <3> QED
      BY <1>8, <3>1
  <2>3. \A n \in Existing \ {m} : milestone[n].status = "paid"
    BY <1>4, <2>2 DEF AllPaid
  <2> QED
    BY <1>5, <2>1, <2>3 DEF Existing, Exists
<1> QED
  BY <1>1, <1>2, <1>6, <1>9, <1>10, CommitEffect, TabPartsNext

\* A load fits the rows it was loaded from.
LEMMA LoadFits ==
  ASSUME TypeOK, NEW s \in Sessions, NEW op, NEW m \in Milestones, NEW a,
         Load(s, op, m, a), UNCHANGED <<contract, milestone>>, s \notin overtaken',
         op \in ClientOps => s \in ClientTabs,
         op \in {"start", "submit"} => s \in FreelancerTabs,
         op \in {"add", "revise", "approve"} => contract.status = "active",
         op \in {"update", "delete", "start"} => milestone[m].status = "pending",
         op = "submit" => milestone[m].status \in Submittable,
         op \in {"revise", "approve"} => milestone[m].status = "submitted",
         op = "approve" => milestone[m].amount = a
  PROVE  Fits(s)'
<1>1. /\ req'[s].op = op /\ req'[s].stage = "loaded" /\ req'[s].m = m
      /\ req'[s].amount = a /\ req'[s].paid = contract.paid
  BY DEF Load, TypeOK
<1>2. Belongs(s)'
  BY <1>1 DEF Belongs
<1>3. Stands(s)'
  BY <1>1 DEF Stands, Waits, Found, Submittable
<1> QED
  BY <1>2, <1>3 DEF Fits

\* A load of the right sender's keeps everything.
LEMMA TabLoads ==
  ASSUME Given, NEW s \in Sessions, Loads(s), s \notin overtaken' => Fits(s)'
  PROVE  TabInv'
<1>1. UNCHANGED <<contract, milestone, overtaken, orderly>> /\ OnlyRequest(s)
      /\ req[s] = Idle
  BY LoadEffect DEF Rows, Course, Given, Sound, Shape
<1>2. s \notin overtaken
  BY <1>1, TabParts DEF Given, Fits, Belongs
<1> QED
  BY <1>1, <1>2, TabQuiet DEF Given

\* Nor does one that writes no row and no request.
LEMMA TabRests ==
  ASSUME TabInv, UNCHANGED <<contract, milestone, req, overtaken, orderly>>
  PROVE  TabInv'
<1>1. ASSUME NEW t \in Sessions PROVE Fits(t)'
  <2>1. Fits(t) /\ req'[t] = req[t]
    BY TabParts
  <2>2. t \notin overtaken => Stands(t)'
    BY <2>1, StandsRest DEF Fits
  <2> QED
    BY <2>1, <2>2 DEF Fits, Belongs
<1>2. AmountPaidExact' /\ CompletedIsPaid'
  BY TabParts, MoneyPartsRest
<1>3. Alone'
  BY TabParts DEF Alone, OneAtATime
<1> QED
  BY <1>1, <1>2, <1>3, TabPartsNext

\* The approval takes its lock, and then its tally.
LEMMA TabApproves ==
  ASSUME Given, NEW c \in ClientTabs, FlushApproved(c) \/ Tally(c)
  PROVE  TabInv'
<1>0. c \in Sessions /\ req \in [Sessions -> Request] /\ req[c].op = "approve"
  BY DEF Sessions, Given, TypeOK, FlushApproved, Tally, At
<1>1. UNCHANGED <<contract, milestone, overtaken, orderly>> /\ OnlyRequest(c)
  BY <1>0, FlushEffect, TallyEffect DEF Rows, Course, Given, Sound, Shape
<1>2. Fits(c)
  BY <1>0, TabParts DEF Given
<1>3. CASE FlushApproved(c)
  <2>1. req'[c] = [req[c] EXCEPT !.stage = "flushed"]
    BY <1>0, <1>3 DEF FlushApproved
  <2>2. /\ req'[c].op = req[c].op /\ req'[c].stage = "flushed"
        /\ req'[c].m = req[c].m /\ req'[c].amount = req[c].amount
        /\ req'[c].paid = req[c].paid
    BY <1>0, <2>1 DEF Request
  <2>3. Belongs(c)'
    BY <1>0, <1>1, <1>2, <2>2 DEF Fits, Belongs, ClientOps, Idle
  <2>4. Stands(c) => Stands(c)'
    BY <1>0, <1>1, <2>2 DEF Stands, Waits, Found
  <2>5. Fits(c)'
    BY <1>1, <1>2, <2>3, <2>4 DEF Fits
  <2> QED
    BY <1>0, <1>1, <2>5, TabQuiet DEF Given
<1>4. CASE Tally(c)
  <2> DEFINE others == Existing \ {req[c].m}
             n == Worth(Counted(others)) + req[c].amount
             all == AllPaid(others)
  <2>1. PICK p \in Releasable(req[c].m) :
          req' = [req EXCEPT ![c].stage = "tallied", ![c].k = p[2],
                             ![c].sum = n, ![c].all = all]
    BY <1>4 DEF Tally, NewPaid
  <2>2. PICK x : x = n
    OBVIOUS
  <2>3. PICK y : y = all
    OBVIOUS
  <2>4. req'[c] = [req[c] EXCEPT !.stage = "tallied", !.k = p[2], !.sum = x, !.all = y]
    BY <1>0, <2>1, <2>2, <2>3
  <2>5. /\ req'[c].op = req[c].op /\ req'[c].stage = "tallied"
        /\ req'[c].m = req[c].m /\ req'[c].amount = req[c].amount
        /\ req'[c].paid = req[c].paid /\ req'[c].sum = x /\ req'[c].all = y
    BY <1>0, <2>4 DEF Request
  <2>7. Stands(c) => Found(c)'
    <3>1. Stands(c) => req'[c].paid = contract'.paid
      BY <1>0, <1>1, <2>5 DEF Stands, Found
    <3>2. (Worth(Counted(others)))' = Worth(Counted(others))
      BY <1>1, <2>5 DEF Worth, Price, Counted, Existing, Exists
    <3>3. AllPaid(others)' <=> AllPaid(others)
      BY <1>1, <2>5 DEF AllPaid, Existing, Exists
    <3> QED
      BY <2>2, <2>3, <2>5, <3>1, <3>2, <3>3 DEF Found
  <2>8. Stands(c) => Waits(c)'
    BY <1>0, <1>1, <2>5 DEF Stands, Waits
  <2>9. Belongs(c)'
    BY <1>0, <1>1, <1>2, <2>5 DEF Fits, Belongs, ClientOps, Idle
  <2>10. Fits(c)'
    BY <1>1, <1>2, <2>7, <2>8, <2>9 DEF Fits, Stands
  <2> QED
    BY <1>0, <1>1, <2>10, TabQuiet DEF Given
<1> QED
  BY <1>3, <1>4

LEMMA TabClient ==
  ASSUME Given, NEW s \in ClientTabs, ClientStep(s)
  PROVE  TabInv'
<1>0. s \in Sessions
  BY DEF Sessions
<1>1. ASSUME NEW m \in Milestones, NEW a \in Amounts, LoadAdd(s, m, a) PROVE TabInv'
  <2>1. s \notin overtaken' => Fits(s)'
    BY <1>0, <1>1, LoadFits DEF LoadAdd, Given, Rows, Course
  <2> QED
    BY <1>0, <1>1, <2>1, TabLoads DEF Loads
<1>2. ASSUME NEW m \in Milestones, NEW a \in Amounts, LoadUpdate(s, m, a)
      PROVE  TabInv'
  <2>1. s \notin overtaken' => Fits(s)'
    BY <1>0, <1>2, LoadFits DEF LoadUpdate, Given, Rows, Course
  <2> QED
    BY <1>0, <1>2, <2>1, TabLoads DEF Loads
<1>3. ASSUME NEW m \in Milestones, LoadDelete(s, m) PROVE TabInv'
  <2>1. s \notin overtaken' => Fits(s)'
    BY <1>0, <1>3, LoadFits DEF LoadDelete, Given, Rows, Course
  <2> QED
    BY <1>0, <1>3, <2>1, TabLoads DEF Loads
<1>4. ASSUME NEW m \in Milestones, NEW op \in Ops, LoadReview(s, op, m) PROVE TabInv'
  <2>1. s \notin overtaken' => Fits(s)'
    BY <1>0, <1>4, LoadFits DEF LoadReview, Given, Rows, Course
  <2> QED
    BY <1>0, <1>4, <2>1, TabLoads DEF Loads
<1>5. ASSUME NEW m \in Milestones, NEW k \in Attempts, FundEscrow(s, m, k)
      PROVE  TabInv'
  <2>1. UNCHANGED <<contract, milestone, req, overtaken, orderly>>
    BY <1>5 DEF FundEscrow, Course
  <2> QED
    BY <1>0, <2>1, TabRests DEF Given
<1>6. ASSUME \/ AddMilestone(s) \/ UpdateMilestone(s) \/ DeleteMilestone(s)
             \/ RequestRevision(s) \/ ApproveUnfunded(s) \/ FinishApproval(s)
      PROVE  TabInv'
  <2>1. Commit(s, TRUE) \/ Commit(s, FALSE)
    BY <1>6, Zenon DEF AddMilestone, UpdateMilestone, DeleteMilestone, RequestRevision,
                       ApproveUnfunded, FinishApproval
  <2> QED
    BY <1>6, <2>1, OvertakenCommits, ClientEdits, ApprovalBooks
<1> QED
  BY <1>1, <1>2, <1>3, <1>4, <1>5, <1>6, TabApproves DEF ClientStep

LEMMA TabFreelancer ==
  ASSUME Given, NEW s \in FreelancerTabs, FreelancerStep(s)
  PROVE  TabInv'
<1>0. s \in Sessions
  BY DEF Sessions
<1>1. ASSUME NEW m \in Milestones, LoadStart(s, m) PROVE TabInv'
  <2>1. s \notin overtaken' => Fits(s)'
    BY <1>0, <1>1, LoadFits DEF LoadStart, Given, Rows, Course, ClientOps
  <2> QED
    BY <1>0, <1>1, <2>1, TabLoads DEF Loads
<1>2. ASSUME NEW m \in Milestones, LoadSubmit(s, m) PROVE TabInv'
  <2>1. s \notin overtaken' => Fits(s)'
    BY <1>0, <1>2, LoadFits DEF LoadSubmit, Given, Rows, Course, ClientOps
  <2> QED
    BY <1>0, <1>2, <2>1, TabLoads DEF Loads
<1>3. ASSUME StartMilestone(s) \/ SubmitMilestone(s) PROVE TabInv'
  <2>1. Commit(s, FALSE)
    BY <1>3 DEF StartMilestone, SubmitMilestone
  <2> QED
    BY <1>3, <2>1, OvertakenCommits, FreelancerEdits
<1> QED
  BY <1>1, <1>2, <1>3 DEF FreelancerStep

\* A request that ends, or carries a failure, waits for nothing.
LEMMA TabEnds ==
  ASSUME Given, NEW s \in Sessions, UNCHANGED <<contract, milestone, orderly>>,
         overtaken' \in {overtaken, overtaken \ {s}}, s \notin overtaken',
         End(s) \/ \E p \in Payments : LoadFailed(s, p)
  PROVE  TabInv'
<1>1. OnlyRequest(s) /\ Fits(s)'
  <2>1. CASE End(s)
    <3>1. OnlyRequest(s) /\ req'[s] = Idle
      BY <2>1, EndEffect DEF Given, Sound, Shape
    <3> QED
      BY <3>1, Nothing DEF Idle, Fits, Belongs, ClientOps
  <2>2. ASSUME NEW p \in Payments, LoadFailed(s, p) PROVE <1>1!1 /\ <1>1!2
    <3>1. /\ OnlyRequest(s) /\ req'[s].op = "failed" /\ req'[s].m \in Milestones
          /\ req'[s].stage # "tallied"
      BY <2>2, LoadFailedEffect, PaymentParts DEF Given, Sound, Shape
    <3> QED
      BY <3>1, Nothing DEF Fits, Belongs, ClientOps
  <2> QED
    BY <2>1, <2>2
<1> QED
  BY <1>1, TabQuiet DEF Given

LEMMA TabStep ==
  ASSUME Given, [Next]_vars
  PROVE  TabInv'
<1>1. ASSUME NEW s \in FailureTabs, FailureStep(s) PROVE TabInv'
  <2>1. s \in Sessions /\ s \notin overtaken
    BY TabAssumption DEF Sessions, Given, TypeOK
  <2>2. /\ UNCHANGED <<contract, milestone, overtaken, orderly>>
        /\ End(s) \/ \E p \in Payments : LoadFailed(s, p)
    BY <1>1, Zenon DEF FailureStep, WriteFailed, LoadFailed, Rows, Course
  <2> QED
    BY <2>1, <2>2, TabEnds
<1>2. ASSUME NEW s \in Sessions, Rollback(s) PROVE TabInv'
  BY <1>2, TabEnds DEF Rollback, Rows
<1>3. CASE Environment \/ UNCHANGED vars
  <2>1. UNCHANGED <<contract, milestone, req, overtaken, orderly>>
    BY <1>3, Zenon DEF Environment, ConfirmPayment, AdminRelease, Course, vars
  <2> QED
    BY <2>1, TabRests DEF Given
<1> QED
  BY <1>1, <1>2, <1>3, TabClient, TabFreelancer DEF Next

---------------------------------------------------------------------------
(* What the run checks, for every value of the constants.                  *)

LEMMA InitGiven == Init => TypeOK /\ TabInv
<1> SUFFICES ASSUME Init PROVE TypeOK /\ TabInv
  OBVIOUS
<1>1. TypeOK
  BY IdleType DEF Init, TypeOK, ContractRow, MilestoneRow, EscrowStatus
<1>2. Existing = {}
  BY DEF Init, Existing, Exists, MilestoneStatus
<1>3. Counted(Existing) = {} /\ Worth({}) = 0
  BY <1>2, SumEmpty DEF Counted, Worth
<1>4. AmountPaidExact
  BY <1>3 DEF AmountPaidExact, Init
<1>5. \A s \in Sessions : req[s] = Idle
  BY DEF Init
<1>6. /\ RequestsApart /\ MilestonesWait /\ TalliesHold
  BY <1>5 DEF RequestsApart, MilestonesWait, TalliesHold, Idle, ClientOps, Init, Current
<1> QED
  BY <1>1, <1>4, <1>6 DEF TabInv, CompletedIsPaid, Init

LEMMA GivenStep == Given /\ [Next]_vars => Given'
<1> SUFFICES ASSUME Given, [Next]_vars PROVE Given'
  OBVIOUS
<1>1. Sound'
  BY SoundStep DEF Given
<1>2. TypeOK'
  BY <1>1, TypeStep DEF Given
<1> QED
  BY <1>1, <1>2, TabStep DEF Given

\* The inductive invariant of a contract: payments and ledger agree whatever
\* is in flight, and what a request has tested is still so when it writes,
\* unless another request of its sender was committed meanwhile.
THEOREM MilestonesInvariant == Spec => []IInv
<1>1. Init => Given
  BY InitGiven, SoundInit DEF Given
<1>2. Given => IInv
  BY DEF Given, Sound, IInv
<1> QED
  BY <1>1, <1>2, GivenStep, PTL DEF Spec

\* For any milestones, prices and requests in flight: amount_paid is the sum
\* of the milestones that are PAID, unless a request was committed past
\* another of its sender since an approval last summed them up.
THEOREM AmountPaidIsExact == Spec => []AmountPaidExact
<1>1. IInv => AmountPaidExact
  BY DEF IInv, TabInv
<1> QED
  BY <1>1, MilestonesInvariant, PTL

\* Under the same condition a completed contract has milestones, and all of
\* them are PAID.
THEOREM CompletedMeansPaid == Spec => []CompletedIsPaid
<1>1. IInv => CompletedIsPaid
  BY DEF IInv, TabInv
<1> QED
  BY <1>1, MilestonesInvariant, PTL

---------------------------------------------------------------------------
(* The ledger.                                                             *)

\* A release of a funded payment is a release of the ledger.
LEMMA LedgerReleases ==
  ASSUME Money, NEW p \in Payments, escrow[p] = "funded",
         released' = [released EXCEPT ![p] = @ + 1], UNCHANGED <<funded, failed>>
  PROVE  Ledger!LedgerNext
<1>1. released[p] < funded[p]
  BY DEF Money, PaymentShape, PaymentsAgree
<1>2. Ledger!Release(p)
  BY <1>1 DEF Ledger!Release
<1> QED
  BY <1>2 DEF Ledger!LedgerNext

LEMMA LedgerStutters ==
  ASSUME UNCHANGED <<funded, failed, released>> PROVE UNCHANGED Ledger!ledgerVars
  BY DEF Ledger!ledgerVars

LEMMA LedgerStep ==
  ASSUME Sound, [Next]_vars
  PROVE  [Ledger!LedgerNext]_(Ledger!ledgerVars)
<1>0. Money
  BY DEF Sound, Shape, Money
<1>1. ASSUME NEW s \in Sessions, Loads(s) \/ Edits(s) \/ Rollback(s)
      PROVE  UNCHANGED Ledger!ledgerVars
  BY <1>1, LoadEffect, EditEffect, LedgerStutters DEF Rollback, Books, Sound, Shape
<1>2. ASSUME NEW s \in ClientTabs, FlushApproved(s) \/ Tally(s) \/ DeleteMilestone(s)
      PROVE  UNCHANGED Ledger!ledgerVars
  BY <1>2, LedgerStutters DEF FlushApproved, Tally, DeleteMilestone, Books
<1>3. ASSUME NEW s \in ClientTabs, FinishApproval(s) PROVE Ledger!LedgerNext
  BY <1>0, <1>3, ApprovalHolds, LedgerReleases DEF FinishApproval, Sound
<1>4. ASSUME NEW s \in ClientTabs, NEW m \in Milestones, NEW k \in Attempts,
             FundEscrow(s, m, k)
      PROVE  UNCHANGED Ledger!ledgerVars
  BY <1>4, LedgerStutters DEF FundEscrow, Books
<1>5. ASSUME NEW s \in FailureTabs, NEW p \in Payments, LoadFailed(s, p)
      PROVE  UNCHANGED Ledger!ledgerVars
  BY <1>5, LedgerStutters DEF LoadFailed, Books
<1>8. ASSUME NEW s \in FailureTabs, WriteFailed(s) PROVE Ledger!LedgerNext
  <2> DEFINE p == <<req[s].m, req[s].k>>
  <2>1. /\ p \in Payments /\ failed' = [failed EXCEPT ![p] = @ + 1]
        /\ UNCHANGED <<funded, released>>
    BY <1>8, FailureHolds DEF WriteFailed, Sound
  <2> HIDE DEF p
  <2>2. Ledger!Reopen(p)
    BY <2>1 DEF Ledger!Reopen
  <2> QED
    BY <2>1, <2>2 DEF Ledger!LedgerNext
<1>6. CASE Environment
  <2>2. ASSUME NEW p \in Payments, ConfirmPayment(p)
        PROVE  [Ledger!LedgerNext]_(Ledger!ledgerVars)
    <3>1. CASE escrow[p] = "gone"
      BY <2>2, <3>1, LedgerStutters DEF ConfirmPayment
    <3>2. CASE escrow[p] # "gone"
      <4>1. /\ funded' = [funded EXCEPT ![p] = @ + 1]
            /\ UNCHANGED <<failed, released>>
        BY <2>2, <3>2 DEF ConfirmPayment
      <4>2. funded[p] <= failed[p]
        BY <2>2, ConfirmedIsOpen DEF Sound, PaymentsAgree
      <4>3. Ledger!Fund(p)
        BY <4>1, <4>2 DEF Ledger!Fund
      <4> QED
        BY <4>3 DEF Ledger!LedgerNext
    <3> QED
      BY <3>1, <3>2
  <2>3. ASSUME NEW p \in Payments, AdminRelease(p) PROVE Ledger!LedgerNext
    BY <1>0, <2>3, LedgerReleases DEF AdminRelease, Releasable
  <2> QED
    BY <1>6, <2>2, <2>3 DEF Environment
<1>7. CASE UNCHANGED vars
  BY <1>7, LedgerStutters DEF vars
<1> QED
  BY <1>1, <1>2, <1>3, <1>4, <1>5, <1>6, <1>7, <1>8, Steps DEF ClientMoves

\* Funding, redirects, approvals and administrators only do what the abstract
\* ledger allows: a payment is booked in once, and again only after a failure
\* redirect reopened it, and no more is booked out than came in.
THEOREM LedgerImplemented == Spec => ImplementsLedger
<1>1. Init => Ledger!LedgerInit
  BY DEF Init, Ledger!LedgerInit
<1>2. Sound /\ [Next]_vars => [Ledger!LedgerNext]_(Ledger!ledgerVars)
  BY LedgerStep
<1> QED
  BY <1>1, <1>2, Invariance, PTL DEF Spec, ImplementsLedger, Ledger!LedgerSpec
============================================================================
