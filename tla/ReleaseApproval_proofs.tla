---------------------- MODULE ReleaseApproval_proofs ----------------------
(* Proofs about ReleaseApproval and Payouts, for any escrows, amounts,      *)
(* administrators and number of requests in flight.                        *)
EXTENDS ReleaseApproval, Payouts, Sums_proofs

\* The rows and memories the module starts from have their types.
LEMMA EmptyRows ==
    /\ NotReleased \in Release
    /\ NoRow \in ApprovalRow
    /\ Idle \in Request
  BY DEF NotReleased, Release, NoRow, ApprovalRow, Idle, Request, Stages

\* Nothing is released, queued or in flight at the start.
LEMMA InitIInv == Init => IInv
<1> SUFFICES ASSUME Init PROVE IInv
  OBVIOUS
<1> USE DEF Init
<1>1. TypeOK
  BY EmptyRows DEF TypeOK, EscrowStatus
<1>2. OnePending
  BY DEF OnePending, Pending, NoRow
<1>3. LargePayoutsNeedTwo /\ ReleaseInv
  BY DEF LargePayoutsNeedTwo, ReleaseInv, NotReleased, NoRow
<1>4. RequestInv
  BY DEF RequestInv
<1>5. SplitInv
  <2> SUFFICES ASSUME NEW f \in Freelancers
               PROVE  SumFunctionOnSet(Amount, SignedOnce(f))
                        + SumFunctionOnSet(Asked, Releasing(f))
                        <= Cardinality(Requests) * Threshold
    BY DEF SplitInv, NotReleased
  <2>1. SignedOnce(f) = {} /\ Releasing(f) = {}
    BY DEF SignedOnce, Releasing, NotReleased, Idle
  <2>2. Cardinality(Requests) \in Nat
    BY FiniteAssumption, FS_CardinalityType
  <2> QED
    BY <2>1, <2>2, SumEmpty, AmountAssumption
<1> QED
  BY <1>1, <1>2, <1>3, <1>4, <1>5 DEF IInv

\* A decision changes the status and the decider of one approval.
LEMMA DecideFields ==
  ASSUME TypeOK, NEW a \in Approvals, NEW adm \in Admins,
         NEW st \in ApprovalStatus, Decide(a, st, adm)
  PROVE  /\ approval' \in [Approvals -> ApprovalRow]
         /\ \A x \in Approvals :
              /\ approval'[x].status = IF x = a THEN st ELSE approval[x].status
              /\ approval'[x].decidedBy = IF x = a THEN adm
                                                   ELSE approval[x].decidedBy
              /\ approval'[x].escrow = approval[x].escrow
              /\ approval'[x].by = approval[x].by
  BY DEF TypeOK, Decide, ApprovalRow

\* A release changes one escrow and its audit rows.
LEMMA ReleaseFields ==
  ASSUME TypeOK, NEW e \in Escrows, NEW S \in SUBSET Admins, ReleaseBy(e, S)
  PROVE  /\ escrow' \in [Escrows -> EscrowStatus]
         /\ releases' \in [Escrows -> Release]
         /\ \A x \in Escrows :
              /\ escrow'[x] = IF x = e THEN "released" ELSE escrow[x]
              /\ x # e => releases'[x] = releases[x]
              /\ x = e => /\ releases'[x].times = releases[x].times + 1
                          /\ releases'[x].signers = S
  BY DEF TypeOK, ReleaseBy, Release, EscrowStatus

\* A request moves on to its next stage and keeps the rest of its memory.
LEMMA GoFields ==
  ASSUME TypeOK, NEW r \in Requests, NEW st \in Stages, Go(r, st)
  PROVE  /\ req' \in [Requests -> Request]
         /\ \A x \in Requests : x # r => req'[x] = req[x]
         /\ req'[r].stage = st
         /\ req'[r].escrow = req[r].escrow
         /\ req'[r].admin = req[r].admin
  BY DEF TypeOK, Go, Request

\* The end of a request frees its rows and leaves the others'.
LEMMA EndFields ==
  ASSUME TypeOK, NEW r \in Requests, End(r)
  PROVE  /\ req' \in [Requests -> Request]
         /\ escrowLock' \in [Escrows -> Requests \cup {NoRequest}]
         /\ approvalLock' \in [Approvals -> Requests \cup {NoRequest}]
         /\ total' \in [Requests -> Nat]
         /\ req'[r] = Idle
         /\ \A x \in Requests \ {r} :
              /\ req'[x] = req[x]
              /\ total'[x] = total[x]
              /\ \A e \in Escrows : escrowLock[e] = x => escrowLock'[e] = x
              /\ \A a \in Approvals : approvalLock[a] = x => approvalLock'[a] = x
  BY EmptyRows DEF TypeOK, End, FreeRows

\* What a request in flight has in hand, by its stage.
LEMMA InHand ==
  ASSUME TypeOK, RequestInv, ReleaseInv, NEW r \in Requests,
         req[r].stage # "idle"
  PROVE  /\ req[r] # Idle
         /\ req[r].escrow \in Escrows
         /\ req[r].admin \in Admins
         /\ req[r].stage # "approving" => /\ escrowLock[req[r].escrow] = r
                                         /\ escrow[req[r].escrow] = "funded"
         /\ req[r].stage = "approving" =>
              /\ req[r].approval \in Approvals
              /\ approvalLock[req[r].approval] = r
              /\ approval[req[r].approval].status = "pending"
              /\ approval[req[r].approval].escrow = req[r].escrow
              /\ approval[req[r].approval].by # req[r].admin
              /\ approval[req[r].approval].by \in Admins
  BY DEF RequestInv, ReleaseInv, Fit, Idle, Pending, TypeOK

---------------------------------------------------------------------------
(* Sums.                                                                   *)

\* What a request sums is a natural number.
LEMMA SummedAmounts ==
  ASSUME TypeOK, ReleaseInv, NEW e \in Escrows
  PROVE  ReleasedSum(e) \in Nat /\ PendingSum(e) \in Nat
<1>1. ReleasedSum(e) \in Nat
  <2> DEFINE S == {x \in SameFreelancer(e) : releases[x].recent}
  <2>1. S \in SUBSET Escrows /\ IsFiniteSet(S)
    BY FiniteAssumption, FS_Subset DEF SameFreelancer
  <2>2. \A x \in S : Amount[x] \in Nat
    BY <2>1, AmountAssumption
  <2> HIDE DEF S
  <2>3. SumFunctionOnSet(Amount, S) \in Nat
    BY <2>1, <2>2, SumNat
  <2> QED
    BY <2>3 DEF ReleasedSum, S
<1>2. PendingSum(e) \in Nat
  <2> DEFINE S == {a \in Pending : approval[a].escrow \in SameFreelancer(e)}
             g == [a \in Pending |-> Amount[approval[a].escrow]]
  <2>1. IsFiniteSet(S)
    BY FiniteAssumption, FS_Subset DEF Pending
  <2>2. \A a \in S : g[a] \in Nat
    BY AmountAssumption DEF SameFreelancer
  <2> HIDE DEF S, g
  <2>3. SumFunctionOnSet(g, S) \in Nat
    BY <2>1, <2>2, SumNat
  <2> QED
    BY <2>3 DEF PendingSum, S, g
<1> QED
  BY <1>1, <1>2

\* What has left on one signature, and what is about to, are sums of amounts.
LEMMA SplitTypes ==
  ASSUME TypeOK, RequestInv, NEW f
  PROVE  /\ SignedOnce(f) \in SUBSET Escrows /\ IsFiniteSet(SignedOnce(f))
         /\ \A e \in Escrows : Amount[e] \in Nat
         /\ SumFunctionOnSet(Amount, SignedOnce(f)) \in Nat
         /\ Releasing(f) \in SUBSET Requests /\ IsFiniteSet(Releasing(f))
         /\ \A r \in Releasing(f) : Asked[r] \in Nat /\ Asked[r] <= Threshold
         /\ SumFunctionOnSet(Asked, Releasing(f)) \in Nat
<1>1. SignedOnce(f) \in SUBSET Escrows /\ IsFiniteSet(SignedOnce(f))
  BY FiniteAssumption, FS_Subset DEF SignedOnce
<1>2. \A e \in Escrows : Amount[e] \in Nat
  BY AmountAssumption
<1>3. SumFunctionOnSet(Amount, SignedOnce(f)) \in Nat
  BY <1>1, <1>2, SumNat
<1>4. Releasing(f) \in SUBSET Requests /\ IsFiniteSet(Releasing(f))
  BY FiniteAssumption, FS_Subset DEF Releasing
<1>5. ASSUME NEW r \in Releasing(f)
      PROVE  Asked[r] \in Nat /\ Asked[r] <= Threshold
  <2>1. r \in Requests /\ req[r].stage # "idle" /\ ~RequiresDual(r)
    BY DEF Releasing
  <2>2. req[r].escrow \in Escrows
    BY <2>1 DEF RequestInv, Fit, Idle
  <2> QED
    BY <2>1, <2>2, AmountAssumption DEF Asked, RequiresDual
<1>6. SumFunctionOnSet(Asked, Releasing(f)) \in Nat
  BY <1>4, <1>5, SumNat
<1> QED
  BY <1>1, <1>2, <1>3, <1>4, <1>5, <1>6

\* Fewer escrows and fewer requests sum to no more.
LEMMA SplitShrinks ==
  ASSUME TypeOK, RequestInv, NEW f, NEW S \in SUBSET SignedOnce(f),
         NEW R \in SUBSET Releasing(f), NEW g, \A r \in R : g[r] = Asked[r]
  PROVE  /\ SumFunctionOnSet(Amount, S) \in Nat
         /\ SumFunctionOnSet(g, R) \in Nat
         /\ SumFunctionOnSet(Amount, S) <= SumFunctionOnSet(Amount, SignedOnce(f))
         /\ SumFunctionOnSet(g, R) <= SumFunctionOnSet(Asked, Releasing(f))
<1>1. /\ SumFunctionOnSet(Amount, S) <= SumFunctionOnSet(Amount, SignedOnce(f))
      /\ SumFunctionOnSet(Asked, R) <= SumFunctionOnSet(Asked, Releasing(f))
  BY SplitTypes, SumGrows
<1>2. IsFiniteSet(S) /\ IsFiniteSet(R)
  BY SplitTypes, FS_Subset
<1>3. IntegersOn(Asked, R)
  BY SplitTypes DEF IntegersOn
<1>4. SumFunctionOnSet(g, R) = SumFunctionOnSet(Asked, R)
  BY <1>2, <1>3, SumSame
<1>5. SumFunctionOnSet(Amount, S) \in Nat /\ SumFunctionOnSet(Asked, R) \in Nat
  BY <1>2, SplitTypes, SumNat
<1> QED
  BY <1>1, <1>4, <1>5

---------------------------------------------------------------------------
(* Types.                                                                  *)

\* Every step keeps the types of rows, locks and memories.
LEMMA TypeStep == TypeOK /\ RequestInv /\ ReleaseInv /\ [Next]_vars => TypeOK'
<1> SUFFICES ASSUME TypeOK, RequestInv, ReleaseInv, [Next]_vars PROVE TypeOK'
  OBVIOUS
<1>1. ASSUME NEW r \in Requests, SumReleased(r) PROVE TypeOK'
  <2>1. req[r].escrow \in Escrows
    BY <1>1, InHand DEF SumReleased, At
  <2>2. total' \in [Requests -> Nat]
    BY <1>1, <2>1, SummedAmounts DEF SumReleased, TypeOK
  <2> QED
    BY <1>1, <2>2, GoFields DEF SumReleased, Stages, TypeOK
<1>2. ASSUME NEW r \in Requests, SumPending(r) PROVE TypeOK'
  <2>1. req[r].escrow \in Escrows
    BY <1>2, InHand DEF SumPending, At
  <2>2. total' \in [Requests -> Nat]
    BY <1>2, <2>1, SummedAmounts DEF SumPending, TypeOK
  <2> QED
    BY <1>2, <2>2, GoFields DEF SumPending, Stages, TypeOK
<1>3. ASSUME NEW r \in Requests, ReleaseNow(r) PROVE TypeOK'
  <2>1. req[r].escrow \in Escrows /\ {req[r].admin} \in SUBSET Admins
    BY <1>3, InHand DEF ReleaseNow, At
  <2> QED
    BY <1>3, <2>1, EndFields, ReleaseFields DEF ReleaseNow, TypeOK
<1>4. ASSUME NEW r \in Requests, NEW a \in Approvals, RequestApproval(r, a)
      PROVE  TypeOK'
  <2>1. [status |-> "pending", escrow |-> req[r].escrow, by |-> req[r].admin,
         decidedBy |-> "nobody"] \in ApprovalRow
    BY <1>4, InHand DEF RequestApproval, At, ApprovalRow, ApprovalStatus
  <2> QED
    BY <1>4, <2>1, EndFields DEF RequestApproval, TypeOK
<1>5. ASSUME NEW r \in Requests, RefuseSecondRequest(r) PROVE TypeOK'
  BY <1>5, EndFields DEF RefuseSecondRequest, TypeOK
<1>6. ASSUME NEW r \in Requests, Approve(r) PROVE TypeOK'
  <2> DEFINE S == {approval[req[r].approval].by, req[r].admin}
  <2>1. req[r].escrow \in Escrows /\ req[r].approval \in Approvals
        /\ req[r].admin \in Admins /\ S \in SUBSET Admins
    BY <1>6, InHand DEF Approve, EscrowFree, At
  <2>2. escrow' \in [Escrows -> EscrowStatus] /\ releases' \in [Escrows -> Release]
    BY <1>6, <2>1, ReleaseFields DEF Approve, EscrowFree
  <2>3. approval' \in [Approvals -> ApprovalRow]
    BY <1>6, <2>1, DecideFields DEF Approve, EscrowFree, ApprovalStatus
  <2> QED
    BY <1>6, <2>2, <2>3, EndFields DEF Approve, EscrowFree, TypeOK
<1>7. ASSUME NEW r \in Requests, CancelApproval(r) PROVE TypeOK'
  <2>1. req[r].approval \in Approvals /\ req[r].admin \in Admins
    BY <1>7, InHand DEF CancelApproval, At
  <2>2. approval' \in [Approvals -> ApprovalRow]
    BY <1>7, <2>1, DecideFields DEF CancelApproval, ApprovalStatus
  <2> QED
    BY <1>7, <2>2, EndFields DEF CancelApproval, TypeOK
<1>8. ASSUME NEW r \in Requests, NEW adm \in Admins, NEW e \in Escrows,
             RequestRelease(r, adm, e)
      PROVE  TypeOK'
  BY <1>8 DEF RequestRelease, EscrowFree, TypeOK, Request, Stages
<1>9. ASSUME NEW r \in Requests, NEW adm \in Admins, NEW a \in Approvals,
             LoadPending(r, adm, a)
      PROVE  TypeOK'
  <2>1. approval[a].escrow \in Escrows
    BY <1>9 DEF LoadPending, Pending, ReleaseInv
  <2> QED
    BY <1>9, <2>1 DEF LoadPending, TypeOK, Request, Stages
<1>10. ASSUME NEW r \in Requests, Rollback(r) PROVE TypeOK'
  BY <1>10, EndFields DEF Rollback, TypeOK
<1>11. ASSUME NEW adm \in Admins, NEW a \in Approvals, Reject(adm, a)
       PROVE  TypeOK'
  <2>1. approval' \in [Approvals -> ApprovalRow]
    BY <1>11, DecideFields DEF Reject, ApprovalStatus
  <2> QED
    BY <1>11, <2>1 DEF Reject, TypeOK
<1>12. ASSUME NEW e \in Escrows, MovesElsewhere(e) PROVE TypeOK'
  BY <1>12 DEF MovesElsewhere, EscrowFree, TypeOK
<1>13. ASSUME NEW e \in Escrows, LeavesWindow(e) PROVE TypeOK'
  BY <1>13 DEF LeavesWindow, TypeOK, Release
<1>14. CASE UNCHANGED vars
  BY <1>14 DEF vars, TypeOK
<1> QED
  BY <1>1, <1>2, <1>3, <1>4, <1>5, <1>6, <1>7, <1>8, <1>9, <1>10, <1>11, <1>12,
     <1>13, <1>14 DEF Next, AdminStep, Handling

---------------------------------------------------------------------------
(* Requests in flight.                                                     *)

\* A request that another one's step leaves with its memory, its row and that
\* row's content still fits.
LEMMA FitKept ==
  ASSUME TypeOK, NEW x \in Requests, Fit(x), req'[x] = req[x],
         \A e \in Escrows : escrowLock[e] = x => /\ escrowLock'[e] = x
                                                /\ escrow'[e] = escrow[e],
         \A a \in Approvals : approvalLock[a] = x => /\ approvalLock'[a] = x
                                                    /\ approval'[a] = approval[a]
  PROVE  Fit(x)'
  BY DEF Fit, Pending, TypeOK

\* A request fits what it holds after every step.
LEMMA RequestStep ==
    TypeOK /\ RequestInv /\ ReleaseInv /\ [Next]_vars => RequestInv'
<1> SUFFICES ASSUME TypeOK, RequestInv, ReleaseInv, [Next]_vars,
                    NEW x \in Requests, req'[x] # Idle
             PROVE  Fit(x)'
  BY DEF RequestInv
<1>0. req[x] # Idle => Fit(x)
  BY DEF RequestInv
<1>1. ASSUME NEW r \in Requests, SumReleased(r) PROVE Fit(x)'
  <2>1. CASE x = r
    BY <1>1, <2>1, InHand, GoFields DEF SumReleased, At, Stages, Fit
  <2>2. CASE x # r
    BY <1>0, <1>1, <2>2, GoFields, FitKept DEF SumReleased, Stages
  <2> QED
    BY <2>1, <2>2
<1>2. ASSUME NEW r \in Requests, SumPending(r) PROVE Fit(x)'
  <2>1. CASE x = r
    BY <1>2, <2>1, InHand, GoFields DEF SumPending, At, Stages, Fit
  <2>2. CASE x # r
    BY <1>0, <1>2, <2>2, GoFields, FitKept DEF SumPending, Stages
  <2> QED
    BY <2>1, <2>2
<1>3. ASSUME NEW r \in Requests, ReleaseNow(r) PROVE Fit(x)'
  <2>1. req[r].escrow \in Escrows /\ {req[r].admin} \in SUBSET Admins
        /\ escrowLock[req[r].escrow] = r /\ x # r
    BY <1>3, InHand, EndFields DEF ReleaseNow, At
  <2>2. \A e \in Escrows : escrowLock[e] = x => escrow'[e] = escrow[e]
    BY <1>3, <2>1, ReleaseFields DEF ReleaseNow
  <2> QED
    BY <1>0, <1>3, <2>1, <2>2, EndFields, FitKept DEF ReleaseNow
<1>4. ASSUME NEW r \in Requests, NEW a \in Approvals, RequestApproval(r, a)
      PROVE  Fit(x)'
  <2>1. x # r /\ req'[x] = req[x] /\ UNCHANGED escrow
    BY <1>4, EndFields DEF RequestApproval
  <2>2. \A b \in Pending : b \in Approvals /\ approval'[b] = approval[b]
    <3>1. a \notin Pending
      BY <1>4 DEF RequestApproval, Pending, NoRow
    <3> QED
      BY <1>4, <3>1 DEF RequestApproval, Pending, TypeOK
  <2>3. Pending \subseteq Pending'
    BY <2>2 DEF Pending
  <2> QED
    BY <1>0, <1>4, <2>1, <2>2, <2>3, EndFields DEF RequestApproval, Fit
<1>5. ASSUME NEW r \in Requests, RefuseSecondRequest(r) PROVE Fit(x)'
  BY <1>0, <1>5, EndFields, FitKept DEF RefuseSecondRequest
<1>6. ASSUME NEW r \in Requests, Approve(r) PROVE Fit(x)'
  <2>1. /\ req[r].escrow \in Escrows /\ req[r].approval \in Approvals
        /\ approvalLock[req[r].approval] = r /\ x # r
        /\ escrowLock[req[r].escrow] # x
        /\ {approval[req[r].approval].by, req[r].admin} \in SUBSET Admins
    BY <1>6, InHand, EndFields, RequestAssumption DEF Approve, EscrowFree, At
  <2>2. \A e \in Escrows : escrowLock[e] = x => escrow'[e] = escrow[e]
    BY <1>6, <2>1, ReleaseFields DEF Approve, EscrowFree
  <2>3. \A a \in Approvals : approvalLock[a] = x => approval'[a] = approval[a]
    BY <1>6, <2>1 DEF Approve, EscrowFree, Decide, TypeOK
  <2> QED
    BY <1>0, <1>6, <2>1, <2>2, <2>3, EndFields, FitKept DEF Approve, EscrowFree
<1>7. ASSUME NEW r \in Requests, CancelApproval(r) PROVE Fit(x)'
  <2>1. /\ req[r].approval \in Approvals
        /\ approvalLock[req[r].approval] = r /\ x # r
    BY <1>7, InHand, EndFields DEF CancelApproval, At
  <2>2. \A a \in Approvals : approvalLock[a] = x => approval'[a] = approval[a]
    BY <1>7, <2>1 DEF CancelApproval, Decide, TypeOK
  <2> QED
    BY <1>0, <1>7, <2>1, <2>2, EndFields, FitKept DEF CancelApproval
<1>8. ASSUME NEW r \in Requests, NEW adm \in Admins, NEW e \in Escrows,
             RequestRelease(r, adm, e)
      PROVE  Fit(x)'
  <2>1. CASE x = r
    BY <1>8, <2>1 DEF RequestRelease, EscrowFree, TypeOK, Fit
  <2>2. CASE x # r
    BY <1>0, <1>8, <2>2, FitKept, RequestAssumption DEF RequestRelease, EscrowFree, TypeOK
  <2> QED
    BY <2>1, <2>2
<1>9. ASSUME NEW r \in Requests, NEW adm \in Admins, NEW a \in Approvals,
             LoadPending(r, adm, a)
      PROVE  Fit(x)'
  <2>1. CASE x = r
    BY <1>9, <2>1 DEF LoadPending, MayDecide, Pending, ReleaseInv, TypeOK, Fit
  <2>2. CASE x # r
    BY <1>0, <1>9, <2>2, FitKept, RequestAssumption DEF LoadPending, TypeOK
  <2> QED
    BY <2>1, <2>2
<1>10. ASSUME NEW r \in Requests, Rollback(r) PROVE Fit(x)'
  BY <1>0, <1>10, EndFields, FitKept DEF Rollback
<1>11. ASSUME NEW adm \in Admins, NEW a \in Approvals, Reject(adm, a)
       PROVE  Fit(x)'
  <2>1. \A b \in Approvals : approvalLock[b] = x => approval'[b] = approval[b]
    BY <1>11, RequestAssumption DEF Reject, Decide, TypeOK
  <2> QED
    BY <1>0, <1>11, <2>1, FitKept DEF Reject
<1>12. ASSUME NEW e \in Escrows, MovesElsewhere(e) PROVE Fit(x)'
  <2>1. \A y \in Escrows : escrowLock[y] = x => escrow'[y] = escrow[y]
    BY <1>12, RequestAssumption DEF MovesElsewhere, EscrowFree, TypeOK
  <2> QED
    BY <1>0, <1>12, <2>1, FitKept DEF MovesElsewhere, EscrowFree
<1>13. ASSUME NEW e \in Escrows, LeavesWindow(e) PROVE Fit(x)'
  BY <1>0, <1>13, FitKept DEF LeavesWindow
<1>14. CASE UNCHANGED vars
  BY <1>0, <1>14 DEF vars, Fit, Pending
<1> QED
  BY <1>1, <1>2, <1>3, <1>4, <1>5, <1>6, <1>7, <1>8, <1>9, <1>10, <1>11, <1>12,
     <1>13, <1>14 DEF Next, AdminStep, Handling

---------------------------------------------------------------------------
(* Releases and approvals.                                                 *)

Signatures == OnePending /\ LargePayoutsNeedTwo /\ ReleaseInv

\* Steps that touch neither the audit log nor the queue keep these.
LEMMA SignaturesKept ==
  ASSUME TypeOK, Signatures, UNCHANGED <<approval, releases>>,
         \A e \in Escrows : escrow[e] = "released" => escrow'[e] = "released"
  PROVE  Signatures'
  BY DEF Signatures, OnePending, Pending, LargePayoutsNeedTwo, ReleaseInv

\* A decision that approves nothing keeps them too.
LEMMA DecisionKept ==
  ASSUME TypeOK, Signatures, UNCHANGED <<escrow, releases>>,
         NEW a \in Approvals, NEW adm \in Admins,
         NEW st \in {"rejected", "cancelled"}, Decide(a, st, adm), a \in Pending
  PROVE  Signatures'
<1>1. /\ \A x \in Approvals :
           /\ approval'[x].status = IF x = a THEN st ELSE approval[x].status
           /\ x # a => approval'[x].decidedBy = approval[x].decidedBy
           /\ approval'[x].escrow = approval[x].escrow
           /\ approval'[x].by = approval[x].by
  BY DecideFields DEF ApprovalStatus
<1>2. OnePending' /\ LargePayoutsNeedTwo'
  BY <1>1 DEF Signatures, OnePending, Pending, LargePayoutsNeedTwo
<1>3. ReleaseInv'
  BY <1>1 DEF Signatures, ReleaseInv, Pending
<1> QED
  BY <1>2, <1>3 DEF Signatures

\* A release from FUNDED is the first one of its escrow.
LEMMA FirstRelease ==
  ASSUME TypeOK, ReleaseInv, NEW e \in Escrows, escrow[e] = "funded"
  PROVE  releases[e].times = 0
  BY DEF TypeOK, ReleaseInv, Release

\* Every step keeps them.
LEMMA SignaturesStep ==
    TypeOK /\ RequestInv /\ Signatures /\ [Next]_vars => Signatures'
<1> SUFFICES ASSUME TypeOK, RequestInv, Signatures, [Next]_vars
             PROVE  Signatures'
  OBVIOUS
<1>0. ReleaseInv
  BY DEF Signatures
<1>1. ASSUME NEW r \in Requests, ReleaseNow(r) PROVE Signatures'
  <2> DEFINE e == req[r].escrow
  <2>1. /\ e \in Escrows /\ escrow[e] = "funded"
        /\ {req[r].admin} \in SUBSET Admins
    BY <1>0, <1>1, InHand DEF ReleaseNow, At
  <2>2. Amount[e] <= Threshold
    BY <1>1, <2>1, AmountAssumption DEF ReleaseNow, RequiresDual
  <2>3. releases[e].times = 0
    BY <1>0, <2>1, FirstRelease
  <2>4. /\ \A x \in Escrows : /\ escrow'[x] = IF x = e THEN "released" ELSE escrow[x]
                              /\ x # e => releases'[x] = releases[x]
        /\ releases'[e].times = 1
        /\ UNCHANGED approval
    BY <1>1, <2>1, <2>3, ReleaseFields DEF ReleaseNow
  <2>5. OnePending'
    BY <2>4 DEF Signatures, OnePending, Pending
  <2>6. LargePayoutsNeedTwo'
    BY <2>1, <2>2, <2>4, AmountAssumption DEF Signatures, LargePayoutsNeedTwo
  <2>7. ReleaseInv'
    BY <2>1, <2>3, <2>4 DEF Signatures, ReleaseInv
  <2> QED
    BY <2>5, <2>6, <2>7 DEF Signatures
<1>2. ASSUME NEW r \in Requests, NEW a \in Approvals, RequestApproval(r, a)
      PROVE  Signatures'
  <2>1. req[r].escrow \in Escrows /\ req[r].admin \in Admins
    BY <1>0, <1>2, InHand DEF RequestApproval, At
  <2>2. /\ approval'[a].status = "pending"
        /\ approval'[a].escrow = req[r].escrow
        /\ approval'[a].by = req[r].admin
        /\ \A x \in Approvals : x # a => approval'[x] = approval[x]
        /\ \A x \in Pending : approval[x].escrow # req[r].escrow
        /\ UNCHANGED <<escrow, releases>>
    BY <1>2 DEF RequestApproval, AlreadyPending, TypeOK
  <2>3. OnePending'
    BY <2>2 DEF Signatures, OnePending, Pending
  <2>4. LargePayoutsNeedTwo'
    BY <2>2 DEF Signatures, LargePayoutsNeedTwo
  <2>5. ReleaseInv'
    BY <2>1, <2>2 DEF Signatures, ReleaseInv
  <2> QED
    BY <2>3, <2>4, <2>5 DEF Signatures
<1>3. ASSUME NEW r \in Requests, Approve(r) PROVE Signatures'
  <2> DEFINE e == req[r].escrow
             a == req[r].approval
             S == {approval[a].by, req[r].admin}
  <2>1. /\ e \in Escrows /\ a \in Approvals /\ req[r].admin \in Admins
        /\ S \in SUBSET Admins /\ approval[a].by # req[r].admin
        /\ approval[a].escrow = e /\ approval[a].status = "pending"
        /\ escrow[e] = "funded"
    BY <1>0, <1>3, InHand DEF Approve, EscrowFree, At, Releasable
  <2>2. releases[e].times = 0
    BY <1>0, <2>1, FirstRelease
  <2>3. /\ \A x \in Escrows : /\ escrow'[x] = IF x = e THEN "released" ELSE escrow[x]
                              /\ x # e => releases'[x] = releases[x]
        /\ releases'[e].times = 1
        /\ releases'[e].signers = S
    BY <1>3, <2>1, <2>2, ReleaseFields DEF Approve, EscrowFree
  <2>4. \A x \in Approvals :
          /\ approval'[x].status = IF x = a THEN "approved" ELSE approval[x].status
          /\ approval'[x].decidedBy = IF x = a THEN req[r].admin
                                               ELSE approval[x].decidedBy
          /\ approval'[x].escrow = approval[x].escrow
          /\ approval'[x].by = approval[x].by
    BY <1>3, <2>1, DecideFields DEF Approve, EscrowFree, ApprovalStatus
  <2>5. OnePending'
    BY <2>4 DEF Signatures, OnePending, Pending
  <2>6. LargePayoutsNeedTwo'
    BY <2>1, <2>3 DEF Signatures, LargePayoutsNeedTwo
  <2>7. \A x \in Approvals : approval[x].status = "approved" => approval[x].escrow # e
    BY <2>2 DEF Signatures, ReleaseInv
  <2>8. ReleaseInv'
    BY <2>1, <2>2, <2>3, <2>4, <2>7 DEF Signatures, ReleaseInv
  <2> QED
    BY <2>5, <2>6, <2>8 DEF Signatures
<1>4. ASSUME NEW r \in Requests, CancelApproval(r) PROVE Signatures'
  BY <1>0, <1>4, InHand, DecisionKept DEF CancelApproval, At, Pending
<1>5. ASSUME NEW adm \in Admins, NEW a \in Approvals, Reject(adm, a)
      PROVE  Signatures'
  BY <1>5, DecisionKept DEF Reject
<1>6. ASSUME NEW e \in Escrows, LeavesWindow(e) PROVE Signatures'
  <2>1. /\ \A x \in Escrows : /\ releases'[x].times = releases[x].times
                              /\ releases'[x].signers = releases[x].signers
        /\ UNCHANGED <<escrow, approval>>
    BY <1>6 DEF LeavesWindow, TypeOK, Release
  <2> QED
    BY <2>1 DEF Signatures, OnePending, Pending, LargePayoutsNeedTwo, ReleaseInv
<1>7. ASSUME NEW e \in Escrows, MovesElsewhere(e) PROVE Signatures'
  <2>1. escrow[e] # "released"
    BY <1>7 DEF MovesElsewhere, EscrowFree, Moves
  <2> QED
    BY <1>7, <2>1, SignaturesKept DEF MovesElsewhere, EscrowFree, TypeOK
<1>9. ASSUME UNCHANGED <<escrow, releases, approval>> PROVE Signatures'
  BY <1>9, SignaturesKept
<1>10. CASE \E r \in Requests : AdminStep(r)
  BY <1>1, <1>2, <1>3, <1>4, <1>9, <1>10
     DEF AdminStep, Handling, SumReleased, SumPending, RefuseSecondRequest,
         RequestRelease, LoadPending, Rollback
<1> QED
  BY <1>5, <1>6, <1>7, <1>9, <1>10 DEF Next, vars

---------------------------------------------------------------------------
(* What one signature each moves.                                          *)

Bounded(f) ==
    SumFunctionOnSet(Amount, SignedOnce(f)) + SumFunctionOnSet(Asked, Releasing(f))
      <= Cardinality(Requests) * Threshold

\* A step after which neither set has grown for a seller.
LEMMA BoundedKept ==
  ASSUME TypeOK, RequestInv, NEW f, Bounded(f),
         SignedOnce(f)' \subseteq SignedOnce(f), Releasing(f)' \subseteq Releasing(f),
         \A r \in Releasing(f)' : req'[r].escrow = req[r].escrow
  PROVE  Bounded(f)'
<1> DEFINE S == SignedOnce(f)'
           R == Releasing(f)'
           g == Asked'
<1>1. S \in SUBSET SignedOnce(f) /\ R \in SUBSET Releasing(f)
  OBVIOUS
<1>2. \A r \in R : g[r] = Asked[r]
  BY SplitTypes DEF Asked
<1>3. Cardinality(Requests) * Threshold \in Nat
  BY FiniteAssumption, FS_CardinalityType, AmountAssumption
<1> HIDE DEF S, R, g
<1>4. SumFunctionOnSet(Amount, S) + SumFunctionOnSet(g, R)
        <= Cardinality(Requests) * Threshold
  BY <1>1, <1>2, <1>3, SplitShrinks, SplitTypes DEF Bounded
<1> QED
  BY <1>4 DEF Bounded, S, R, g

\* The escrow of a request that releases now moves from one sum to the other.
LEMMA BoundedNow ==
  ASSUME TypeOK, RequestInv, ReleaseInv, SplitInv, NEW r \in Requests,
         ReleaseNow(r), NEW f \in Freelancers
  PROVE  Bounded(f)'
<1> DEFINE e == req[r].escrow
<1>1. /\ e \in Escrows /\ escrow[e] = "funded"
      /\ {req[r].admin} \in SUBSET Admins
  BY InHand DEF ReleaseNow, At
<1>2. releases[e].times = 0 /\ ~releases[e].recent
  BY <1>1, FirstRelease DEF SplitInv
<1>3. \A x \in Escrows : x # e => releases'[x] = releases[x]
  BY <1>1, ReleaseFields DEF ReleaseNow
<1>4. \A x \in Requests : /\ x = r => req'[x] = Idle
                          /\ x # r => req'[x] = req[x] /\ total'[x] = total[x]
  BY EndFields DEF ReleaseNow
<1>5. Releasing(f)' \subseteq Releasing(f) \ {r}
  BY <1>4 DEF Releasing, RequiresDual, Idle
<1>6. Bounded(f)
  BY DEF SplitInv, Bounded
<1>7. CASE Payee[e] # f
  <2>1. SignedOnce(f)' \subseteq SignedOnce(f)
    BY <1>3, <1>7 DEF SignedOnce
  <2> QED
    BY <1>4, <1>5, <1>6, <2>1, SplitTypes, BoundedKept
<1>8. CASE Payee[e] = f
  <2> DEFINE S == SignedOnce(f)'
             R == Releasing(f)'
             g == Asked'
  <2>1. S \ {e} \in SUBSET SignedOnce(f) /\ e \notin SignedOnce(f)
    BY <1>2, <1>3 DEF SignedOnce
  <2>2. r \in Releasing(f)
    BY <1>8 DEF ReleaseNow, At, Releasing
  <2>3. Asked[r] = Amount[e] /\ Amount[e] \in Nat
    BY <1>1, AmountAssumption DEF Asked
  <2>4. R \in SUBSET (Releasing(f) \ {r})
    BY <1>5
  <2>5. \A x \in R : g[x] = Asked[x]
    BY <1>4, <2>4, SplitTypes DEF Asked
  <2>6. S \in SUBSET Escrows
    BY DEF SignedOnce
  <2> HIDE DEF S, R, g
  <2>7. SumFunctionOnSet(Amount, S)
          <= SumFunctionOnSet(Amount, SignedOnce(f)) + Amount[e]
        /\ SumFunctionOnSet(Amount, S) \in Nat
    <3>1. /\ IsFiniteSet(S) /\ IntegersOn(Amount, S)
          /\ SumFunctionOnSet(Amount, S) \in Nat
      BY <2>6, FiniteAssumption, FS_Subset, SplitTypes, SumNat DEF IntegersOn
    <3>2. /\ SumFunctionOnSet(Amount, S \ {e}) <= SumFunctionOnSet(Amount, SignedOnce(f))
          /\ SumFunctionOnSet(Amount, S \ {e}) \in Nat
          /\ SumFunctionOnSet(Amount, SignedOnce(f)) \in Nat
      BY <2>1, SplitTypes, SumGrows, SumNat, FS_Subset
    <3>3. CASE e \in S
      BY <2>3, <3>1, <3>2, <3>3, SumSplit
    <3>4. CASE e \notin S
      <4>1. S \ {e} = S
        BY <3>4
      <4>2. SumFunctionOnSet(Amount, S \ {e}) = SumFunctionOnSet(Amount, S)
        BY <4>1
      <4> QED
        BY <2>3, <3>1, <3>2, <4>2
    <3> QED
      BY <3>3, <3>4
  <2>8. SumFunctionOnSet(g, R) + Amount[e] <= SumFunctionOnSet(Asked, Releasing(f))
        /\ SumFunctionOnSet(g, R) \in Nat
    <3>1. IntegersOn(Asked, Releasing(f))
      BY SplitTypes DEF IntegersOn
    <3>2. SumFunctionOnSet(Asked, Releasing(f))
            = SumFunctionOnSet(Asked, Releasing(f) \ {r}) + Amount[e]
      BY <2>2, <2>3, <3>1, SplitTypes, SumSplit
    <3>3. IsFiniteSet(Releasing(f) \ {r}) /\ IsFiniteSet(R)
      BY <2>4, SplitTypes, FS_Subset
    <3>4. SumFunctionOnSet(Asked, R) <= SumFunctionOnSet(Asked, Releasing(f) \ {r})
      BY <2>4, <3>3, SplitTypes, SumGrows
    <3>5. IntegersOn(Asked, R)
      BY <2>4, SplitTypes DEF IntegersOn
    <3>6. SumFunctionOnSet(g, R) = SumFunctionOnSet(Asked, R)
      BY <2>5, <3>3, <3>5, SumSame
    <3>7. /\ SumFunctionOnSet(Asked, R) \in Nat
          /\ SumFunctionOnSet(Asked, Releasing(f) \ {r}) \in Nat
      BY <2>4, <3>3, SplitTypes, SumNat
    <3> QED
      BY <2>3, <3>2, <3>4, <3>6, <3>7
  <2>9. Cardinality(Requests) * Threshold \in Nat
    BY FiniteAssumption, FS_CardinalityType, AmountAssumption
  <2>10. SumFunctionOnSet(Amount, S) + SumFunctionOnSet(g, R)
           <= Cardinality(Requests) * Threshold
    BY <1>6, <2>3, <2>7, <2>8, <2>9, SplitTypes DEF Bounded
  <2> QED
    BY <2>10 DEF Bounded, S, R, g
<1> QED
  BY <1>7, <1>8

\* A request that sums the releases and still needs one signature only leaves
\* room for its own amount under the threshold; each of the others in flight
\* is good for the threshold at most.
LEMMA BoundedAtSum ==
  ASSUME TypeOK, RequestInv, ReleaseInv, SplitInv, NEW r \in Requests,
         SumReleased(r), NEW f \in Freelancers
  PROVE  Bounded(f)'
<1> DEFINE e == req[r].escrow
           S == SignedOnce(f)
           R == Releasing(f)'
           g == Asked'
<1>1. /\ e \in Escrows /\ r \notin Releasing(f)
  BY InHand DEF SumReleased, At, Releasing
<1>2. /\ \A x \in Requests : /\ req'[x].escrow = req[x].escrow
                             /\ x # r => req'[x] = req[x] /\ total'[x] = total[x]
      /\ req'[r].stage = "released_summed"
      /\ total'[r] = ReleasedSum(e)
      /\ S = SignedOnce(f)'
  <2>1. /\ req'[r].stage = "released_summed" /\ req'[r].escrow = req[r].escrow
        /\ \A x \in Requests : x # r => req'[x] = req[x]
    BY GoFields DEF SumReleased, Stages
  <2>2. total'[r] = ReleasedSum(e) /\ \A x \in Requests : x # r => total'[x] = total[x]
    BY DEF SumReleased, TypeOK
  <2>3. S = SignedOnce(f)'
    BY DEF SumReleased, SignedOnce
  <2> QED
    BY <2>1, <2>2, <2>3
<1>3. R \ {r} \in SUBSET Releasing(f)
  BY <1>2 DEF Releasing, RequiresDual
<1>4. \A x \in Requests : g[x] = Asked[x]
  BY <1>2 DEF Asked
<1>5. Bounded(f)
  BY DEF SplitInv, Bounded
<1>6. CASE r \notin R
  <2>1. Releasing(f)' \subseteq Releasing(f)
    BY <1>3, <1>6
  <2> QED
    BY <1>2, <1>5, <2>1, SplitTypes, BoundedKept
<1>7. CASE r \in R
  <2>1. /\ Payee[e] = f
        /\ ReleasedSum(e) + Amount[e] <= Threshold
        /\ Amount[e] \in Nat /\ Asked[r] = Amount[e]
    <3>1. Payee[e] = f /\ ~(ReleasedSum(e) + Amount[e] > Threshold)
      BY <1>2, <1>7 DEF Releasing, RequiresDual
    <3> QED
      BY <1>1, <3>1, SummedAmounts, AmountAssumption DEF Asked
  <2>2. SumFunctionOnSet(Amount, S) <= ReleasedSum(e)
    <3> DEFINE T == {x \in SameFreelancer(e) : releases[x].recent}
    <3>1. /\ T \in SUBSET Escrows /\ IsFiniteSet(T) /\ S \in SUBSET T
      BY <2>1, FiniteAssumption, FS_Subset DEF SameFreelancer, SignedOnce
    <3>2. ReleasedSum(e) = SumFunctionOnSet(Amount, T)
      BY DEF ReleasedSum
    <3> HIDE DEF S, T
    <3> QED
      BY <3>1, <3>2, SplitTypes, SumGrows
  <2> HIDE DEF R, g
  <2>3. /\ R \in SUBSET Requests /\ IsFiniteSet(R) /\ IsFiniteSet(R \ {r})
        /\ IntegersOn(g, R) /\ IntegersOn(Asked, R \ {r})
    <3>1. R \in SUBSET Requests
      BY <1>3, SplitTypes
    <3>2. \A x \in R \ {r} : Asked[x] \in Int
      BY <1>3, SplitTypes
    <3>3. \A x \in R : g[x] \in Int
      BY <1>4, <2>1, <3>1, <3>2
    <3> QED
      BY <3>1, <3>2, <3>3, FiniteAssumption, FS_Subset DEF IntegersOn
  <2>4. SumFunctionOnSet(g, R) = SumFunctionOnSet(Asked, R \ {r}) + Amount[e]
    <3>1. SumFunctionOnSet(g, R) = SumFunctionOnSet(Asked, R)
      BY <1>4, <2>3, SumSame
    <3>2. IntegersOn(Asked, R)
      BY <1>4, <2>3 DEF IntegersOn
    <3> QED
      BY <1>7, <2>1, <2>3, <3>1, <3>2, SumSplit
  <2>5. /\ SumFunctionOnSet(Asked, R \ {r}) <= Cardinality(R \ {r}) * Threshold
        /\ SumFunctionOnSet(Asked, R \ {r}) \in Nat
    BY <1>3, <2>3, SplitTypes, SumBounded, SumNat, AmountAssumption
  <2>6. Cardinality(R \ {r}) * Threshold + Threshold
          <= Cardinality(Requests) * Threshold
    <3>1. /\ Cardinality(R \ {r}) \in Nat /\ Cardinality(Requests) \in Nat
          /\ Cardinality(R \ {r}) + 1 <= Cardinality(Requests)
      BY <1>7, <2>3, FiniteAssumption, FS_Subset, FS_RemoveElement, FS_CardinalityType
    <3>2. ASSUME NEW i \in Nat, NEW j \in Nat, NEW t \in Nat, i + 1 <= j
          PROVE  i * t + t <= j * t
      <4> DEFINE k == j - (i + 1)
      <4>1. k \in Nat /\ j = i + 1 + k
        BY <3>2
      <4> HIDE DEF k
      <4>2. (i + 1 + k) * t = i * t + t + k * t
        BY <4>1
      <4>3. i * t \in Nat /\ k * t \in Nat
        BY <4>1
      <4> QED
        BY <4>1, <4>2, <4>3
    <3> QED
      BY <3>1, <3>2, AmountAssumption
  <2>7. /\ Cardinality(R \ {r}) * Threshold \in Nat
        /\ Cardinality(Requests) * Threshold \in Nat
        /\ Threshold \in Nat
    BY <2>3, FiniteAssumption, FS_CardinalityType, AmountAssumption
  <2>8. SumFunctionOnSet(Amount, S) + SumFunctionOnSet(g, R)
          <= Cardinality(Requests) * Threshold
    BY <1>1, <2>1, <2>2, <2>4, <2>5, <2>6, <2>7, SplitTypes, SummedAmounts
  <2> QED
    BY <1>2, <2>8 DEF Bounded, R, g
<1> QED
  BY <1>6, <1>7

\* Two signatures take a release out of the sums.
LEMMA BoundedTwoSign ==
  ASSUME TypeOK, RequestInv, ReleaseInv, SplitInv, NEW r \in Requests,
         Approve(r), NEW f \in Freelancers
  PROVE  Bounded(f)'
<1> DEFINE e == req[r].escrow
           T == {approval[req[r].approval].by, req[r].admin}
<1>1. /\ e \in Escrows /\ T \in SUBSET Admins
      /\ approval[req[r].approval].by # req[r].admin
  BY InHand DEF Approve, EscrowFree, At
<1>2. /\ \A x \in Escrows : x # e => releases'[x] = releases[x]
      /\ releases'[e].signers = T
  BY <1>1, ReleaseFields DEF Approve, EscrowFree
<1>3. \A x \in Requests : /\ x = r => req'[x] = Idle
                          /\ x # r => req'[x] = req[x] /\ total'[x] = total[x]
  BY EndFields DEF Approve, EscrowFree
<1>4. SignedOnce(f)' \subseteq SignedOnce(f)
  BY <1>1, <1>2 DEF SignedOnce
<1>5. Releasing(f)' \subseteq Releasing(f)
      /\ \A x \in Releasing(f)' : req'[x].escrow = req[x].escrow
  BY <1>3 DEF Releasing, RequiresDual, Idle
<1> QED
  BY <1>4, <1>5, BoundedKept DEF SplitInv, Bounded

\* Every step keeps the bound.
LEMMA SplitStep ==
    TypeOK /\ RequestInv /\ ReleaseInv /\ SplitInv /\ [Next]_vars => SplitInv'
<1> SUFFICES ASSUME TypeOK, RequestInv, ReleaseInv, SplitInv, [Next]_vars
             PROVE  SplitInv'
  OBVIOUS
<1>0. ASSUME NEW f \in Freelancers PROVE Bounded(f)
  BY DEF SplitInv, Bounded
<1>1. ASSUME NEW r \in Requests, req'[r].stage = "idle" \/ req'[r].stage = "approving"
                                   \/ req'[r].stage = "escrow_locked",
             \A x \in Requests \ {r} : req'[x] = req[x] /\ total'[x] = total[x],
             UNCHANGED releases
      PROVE  SplitInv'
  <2>1. ASSUME NEW f \in Freelancers PROVE Bounded(f)'
    <3>1. SignedOnce(f)' \subseteq SignedOnce(f)
      BY <1>1 DEF SignedOnce
    <3>2. Releasing(f)' \subseteq Releasing(f)
          /\ \A x \in Releasing(f)' : req'[x].escrow = req[x].escrow
      BY <1>1 DEF Releasing, RequiresDual
    <3> QED
      BY <1>0, <3>1, <3>2, BoundedKept
  <2> QED
    BY <1>1, <2>1 DEF SplitInv, Bounded
<1>2. ASSUME UNCHANGED <<req, total>>,
             \A e \in Escrows : /\ releases'[e].recent => releases[e].recent
                                /\ releases'[e].signers = releases[e].signers
                                /\ releases'[e].times = releases[e].times
      PROVE  SplitInv'
  <2>1. ASSUME NEW f \in Freelancers PROVE Bounded(f)'
    <3>1. SignedOnce(f)' \subseteq SignedOnce(f)
      BY <1>2 DEF SignedOnce
    <3>2. Releasing(f)' \subseteq Releasing(f)
      BY <1>2 DEF Releasing, RequiresDual
    <3> QED
      BY <1>0, <1>2, <3>1, <3>2, BoundedKept
  <2> QED
    BY <1>2, <2>1 DEF SplitInv, Bounded
<1>3. ASSUME NEW r \in Requests, ReleaseNow(r) PROVE SplitInv'
  <2>1. /\ \A x \in Escrows : releases'[x] = releases[x]
                                \/ releases'[x].times = releases[x].times + 1
    BY <1>3, InHand, ReleaseFields DEF ReleaseNow, At
  <2> QED
    BY <1>3, <2>1, BoundedNow DEF SplitInv, Bounded, TypeOK, Release
<1>4. ASSUME NEW r \in Requests, Approve(r) PROVE SplitInv'
  <2>0. req[r].escrow \in Escrows
        /\ {approval[req[r].approval].by, req[r].admin} \in SUBSET Admins
    BY <1>4, InHand DEF Approve, EscrowFree, At
  <2>1. /\ \A x \in Escrows : releases'[x] = releases[x]
                                \/ releases'[x].times = releases[x].times + 1
    BY <1>4, <2>0, ReleaseFields DEF Approve, EscrowFree
  <2> QED
    BY <1>4, <2>1, BoundedTwoSign DEF SplitInv, Bounded, TypeOK, Release
<1>5. ASSUME NEW r \in Requests, SumReleased(r) PROVE SplitInv'
  BY <1>5, BoundedAtSum DEF SplitInv, Bounded, SumReleased
<1>6. ASSUME NEW r \in Requests, SumPending(r) PROVE SplitInv'
  <2>1. req[r].escrow \in Escrows
    BY <1>6, InHand DEF SumPending, At
  <2>2. /\ \A x \in Requests : /\ req'[x].escrow = req[x].escrow
                               /\ x # r => req'[x] = req[x] /\ total'[x] = total[x]
        /\ total'[r] = total[r] + PendingSum(req[r].escrow)
        /\ UNCHANGED releases
    BY <1>6, GoFields DEF SumPending, Stages, TypeOK
  <2>3. /\ total[r] \in Nat /\ PendingSum(req[r].escrow) \in Nat
        /\ Amount[req[r].escrow] \in Nat /\ Threshold \in Nat
    BY <2>1, SummedAmounts, AmountAssumption DEF TypeOK
  <2>4. ~RequiresDual(r)' => ~RequiresDual(r)
    BY <2>2, <2>3 DEF RequiresDual
  <2>5. ASSUME NEW f \in Freelancers PROVE Bounded(f)'
    <3>1. SignedOnce(f)' \subseteq SignedOnce(f)
      BY <2>2 DEF SignedOnce
    <3>2. ASSUME NEW x \in Releasing(f)' PROVE x \in Releasing(f)
      <4>1. CASE x = r
        BY <1>6, <2>2, <2>4, <4>1 DEF Releasing, SumPending, At
      <4>2. CASE x # r
        BY <2>2, <4>2 DEF Releasing, RequiresDual
      <4> QED
        BY <4>1, <4>2
    <3>3. \A x \in Releasing(f)' : req'[x].escrow = req[x].escrow
      BY <2>2 DEF Releasing
    <3> QED
      BY <1>0, <3>1, <3>2, <3>3, BoundedKept
  <2> QED
    BY <2>2, <2>5 DEF SplitInv, Bounded
<1>7. ASSUME NEW r \in Requests, End(r), UNCHANGED releases PROVE SplitInv'
  <2>1. /\ req'[r].stage = "idle"
        /\ \A x \in Requests \ {r} : req'[x] = req[x] /\ total'[x] = total[x]
    BY <1>7, EndFields DEF Idle
  <2> QED
    BY <1>1, <1>7, <2>1
<1>8. ASSUME NEW r \in Requests, NEW adm \in Admins, NEW e \in Escrows,
             RequestRelease(r, adm, e)
      PROVE  SplitInv'
  <2>1. /\ req'[r].stage = "escrow_locked" /\ UNCHANGED releases
        /\ \A x \in Requests \ {r} : req'[x] = req[x] /\ total'[x] = total[x]
    BY <1>8 DEF RequestRelease, EscrowFree, TypeOK
  <2> QED
    BY <1>1, <2>1
<1>9. ASSUME NEW r \in Requests, NEW adm \in Admins, NEW a \in Approvals,
             LoadPending(r, adm, a)
      PROVE  SplitInv'
  <2>1. /\ req'[r].stage = "approving" /\ UNCHANGED releases
        /\ \A x \in Requests \ {r} : req'[x] = req[x] /\ total'[x] = total[x]
    BY <1>9 DEF LoadPending, TypeOK
  <2> QED
    BY <1>1, <2>1
<1>10. ASSUME NEW e \in Escrows, LeavesWindow(e) PROVE SplitInv'
  <2>1. \A x \in Escrows : /\ releases'[x].recent => releases[x].recent
                           /\ releases'[x].signers = releases[x].signers
                           /\ releases'[x].times = releases[x].times
    BY <1>10 DEF LeavesWindow, TypeOK, Release
  <2> QED
    BY <1>2, <1>10, <2>1 DEF LeavesWindow
<1>11. ASSUME UNCHANGED <<releases, req, total>> PROVE SplitInv'
  BY <1>2, <1>11
<1>12. CASE \E r \in Requests : AdminStep(r)
  BY <1>3, <1>4, <1>5, <1>6, <1>7, <1>8, <1>9, <1>12
     DEF AdminStep, Handling, RequestApproval, RefuseSecondRequest, CancelApproval,
         Rollback
<1> QED
  BY <1>10, <1>11, <1>12 DEF Next, Reject, MovesElsewhere, vars

---------------------------------------------------------------------------
(* Theorems.                                                               *)

\* The inductive invariant holds in every reachable state.
THEOREM Invariance == Spec => []IInv
<1>1. IInv /\ [Next]_vars => IInv'
  BY TypeStep, RequestStep, SignaturesStep, SplitStep DEF IInv, Signatures
<1> QED
  BY InitIInv, <1>1, PTL DEF Spec

\* Whatever administrators ask for and decide at once, an escrow has at most one
\* approval in the queue (request_release under the escrow's row lock).
THEOREM QueuedOnce == Spec => []OnePending
<1>1. IInv => OnePending
  BY DEF IInv
<1> QED
  BY <1>1, Invariance, PTL

\* No escrow above the threshold leaves through the payout page on one signature.
THEOREM LargePayoutsAreSignedTwice == Spec => []LargePayoutsNeedTwo
<1>1. IInv => LargePayoutsNeedTwo
  BY DEF IInv
<1> QED
  BY <1>1, Invariance, PTL

\* Requests that do not see each other can split a payout, but what one
\* signature each moves to a seller within the window is at most the threshold
\* for every request in flight at once (_freelancer_recent_release_total).
THEOREM SplittingIsBounded == Spec => []SplitBounded
<1>1. IInv => SplitBounded
  <2> SUFFICES ASSUME IInv, NEW f \in Freelancers
               PROVE  SumFunctionOnSet(Amount, SignedOnce(f))
                        <= Cardinality(Requests) * Threshold
    BY DEF SplitBounded
  <2>1. Cardinality(Requests) * Threshold \in Nat
    BY FiniteAssumption, FS_CardinalityType, AmountAssumption
  <2> QED
    BY <2>1, SplitTypes DEF IInv, SplitInv
<1> QED
  BY <1>1, Invariance, PTL

---------------------------------------------------------------------------
(* Payouts.                                                                *)

\* The empty memory has its type.
LEMMA NoWithdrawalType == NoWithdrawal \in Withdrawal
  BY DEF NoWithdrawal, Withdrawal, WithdrawalStages

\* A request goes on to a stage with a sum of its own.
LEMMA SummedType ==
  ASSUME NEW w \in Withdrawal, NEW st \in WithdrawalStages, NEW n \in Int
  PROVE  [w EXCEPT !.stage = st, !.sum = n] \in Withdrawal
  BY DEF Withdrawal

\* What is asked for is a number.
LEMMA AmountsAreNumbers == \A a \in PayoutAmounts \cup {0} : a \in Nat
  BY PayoutAssumption

\* Nothing was released, taken out or asked at the start.
LEMMA PayoutStart == PayoutInit => PayoutInv
<1> SUFFICES ASSUME PayoutInit PROVE PayoutInv
  OBVIOUS
<1> USE DEF PayoutInit
<1>1. PayoutTypeOK
  BY NoWithdrawalType DEF PayoutTypeOK, PayoutRow
<1>2. OneWithdraws /\ FreshUnmarked /\ PayoutsBacked /\ MarkedOnce
  BY DEF OneWithdraws, FreshUnmarked, PayoutsBacked, MarkedOnce, Withdrawing, NoWithdrawal
<1>3. SumsHold
  BY DEF SumsHold, Withdrawing, NoWithdrawal
<1>4. MarkersHold
  BY NoPayoutAssumption DEF MarkersHold, NoWithdrawal
<1> QED
  BY <1>1, <1>2, <1>3, <1>4 DEF PayoutInv

\* A step that leaves the ledger alone keeps what is said of the ledger only.
LEMMA LedgerKept ==
  ASSUME PayoutInv, UNCHANGED PayoutLedger
  PROVE  FreshUnmarked' /\ PayoutsBacked' /\ MarkedOnce'
  BY DEF PayoutInv, PayoutLedger, FreshUnmarked, PayoutsBacked, MarkedOnce

\* A step after which each request marks as before, and the rows are as they
\* were.
LEMMA MarkersStay ==
  ASSUME MarkersHold, UNCHANGED <<payout, marks>>,
         \A s \in PayoutRequests :
            /\ withdrawal'[s].row = withdrawal[s].row
            /\ (withdrawal'[s].stage = "marking") = (withdrawal[s].stage = "marking")
  PROVE  MarkersHold'
<1> SUFFICES ASSUME NEW r \in PayoutRequests
             PROVE  LET w == withdrawal'[r] IN
                    /\ w.stage = "marking" <=> w.row \in PayoutRows
                    /\ w.stage = "marking" =>
                         /\ payout[w.row].status = "processing"
                         /\ marks[w.row] = 0
                         /\ \A s \in PayoutRequests \ {r} :
                               withdrawal'[s].row # w.row
  BY DEF MarkersHold
<1> QED
  BY DEF MarkersHold

\* A request that forgets what it had in hand breaks nothing.
LEMMA Forget ==
  ASSUME PayoutInv, NEW r \in PayoutRequests, EndWithdrawal(r),
         UNCHANGED PayoutLedger
  PROVE  PayoutInv'
<1> USE DEF PayoutInv
<1>1. /\ withdrawal' \in [PayoutRequests -> Withdrawal]
      /\ \A s \in PayoutRequests :
           withdrawal'[s] = IF s = r THEN NoWithdrawal ELSE withdrawal[s]
  BY NoWithdrawalType DEF EndWithdrawal, PayoutTypeOK
<1>2. PayoutTypeOK'
  BY <1>1 DEF PayoutTypeOK, PayoutLedger
<1>3. OneWithdraws'
  BY <1>1 DEF OneWithdraws, Withdrawing, NoWithdrawal
<1>4. SumsHold'
  BY <1>1 DEF SumsHold, Withdrawing, NoWithdrawal, PayoutLedger
<1>5. MarkersHold'
  BY <1>1, NoPayoutAssumption DEF MarkersHold, NoWithdrawal, PayoutLedger
<1> QED
  BY <1>2, <1>3, <1>4, <1>5, LedgerKept

\* The steps of request_payout up to its sums, and what the ledger says then.
LEMMA AskingSteps ==
  ASSUME PayoutInv, NEW r \in PayoutRequests,
         \/ \E f \in Earners, a \in PayoutAmounts : RequestPayout(r, f, a)
         \/ TakeAdvisoryLock(r) \/ SumEarned(r) \/ SumPaidOut(r)
  PROVE  PayoutInv'
<1> USE DEF PayoutInv
<1>t. PayoutTypeOK
  OBVIOUS
<1>1. CASE \E f \in Earners, a \in PayoutAmounts : RequestPayout(r, f, a)
  <2> PICK f \in Earners, a \in PayoutAmounts : RequestPayout(r, f, a)
    BY <1>1
  <2> USE DEF RequestPayout
  <2>1. /\ withdrawal' \in [PayoutRequests -> Withdrawal]
        /\ \A s \in PayoutRequests \ {r} : withdrawal'[s] = withdrawal[s]
        /\ withdrawal'[r].stage = "account"
        /\ withdrawal'[r].who = f
        /\ withdrawal'[r].row = "none"
    BY NoWithdrawalType DEF PayoutTypeOK, NoWithdrawal, Withdrawal, WithdrawalStages
  <2>2. PayoutTypeOK'
    BY <2>1 DEF PayoutTypeOK, PayoutLedger
  <2>3. OneWithdraws'
    BY <2>1 DEF OneWithdraws, Withdrawing
  <2>4. SumsHold'
    BY <2>1 DEF SumsHold, Withdrawing, PayoutLedger
  <2>5. MarkersHold'
    <3>1. withdrawal[r] = NoWithdrawal
      OBVIOUS
    <3>2. NoWithdrawal.row = "none" /\ NoWithdrawal.stage = "idle"
      BY ONLY DEF NoWithdrawal
    <3>3. \A s \in PayoutRequests :
             /\ withdrawal'[s].row = withdrawal[s].row
             /\ (withdrawal'[s].stage = "marking")
                  = (withdrawal[s].stage = "marking")
      BY ONLY <2>1, <3>1, <3>2
    <3> QED
      BY <3>3, MarkersStay DEF PayoutLedger
  <2> QED
    BY <2>2, <2>3, <2>4, <2>5, LedgerKept
<1>2. CASE TakeAdvisoryLock(r)
  <2> USE <1>2 DEF TakeAdvisoryLock, WithdrawalGoes
  <2>1. /\ withdrawal' \in [PayoutRequests -> Withdrawal]
        /\ \A s \in PayoutRequests \ {r} : withdrawal'[s] = withdrawal[s]
        /\ withdrawal'[r].stage = "locked"
        /\ withdrawal'[r].who = withdrawal[r].who
        /\ withdrawal'[r].row = withdrawal[r].row
    BY DEF PayoutTypeOK, Withdrawal, WithdrawalStages
  <2>2. PayoutTypeOK'
    BY <2>1 DEF PayoutTypeOK, PayoutLedger
  <2>3. OneWithdraws'
    BY <2>1 DEF OneWithdraws, Withdrawing, AdvisoryFree
  <2>4. SumsHold'
    BY <2>1 DEF SumsHold, Withdrawing, PayoutLedger
  <2>5. MarkersHold'
    BY <2>1, MarkersStay DEF PayoutLedger
  <2> QED
    BY <2>2, <2>3, <2>4, <2>5, LedgerKept
<1>3. CASE SumEarned(r)
  <2> USE <1>3 DEF SumEarned
  <2>0. withdrawal[r].who \in Earners /\ earned[withdrawal[r].who] \in Nat
    BY DEF SumsHold, Withdrawing, PayoutTypeOK
  <2>1. /\ withdrawal' \in [PayoutRequests -> Withdrawal]
        /\ \A s \in PayoutRequests \ {r} : withdrawal'[s] = withdrawal[s]
        /\ withdrawal'[r].stage = "earned_summed"
        /\ withdrawal'[r].who = withdrawal[r].who
        /\ withdrawal'[r].row = withdrawal[r].row
        /\ withdrawal'[r].sum = earned[withdrawal[r].who]
    <3>1. withdrawal[r] \in Withdrawal
      BY DEF PayoutTypeOK
    <3>2. withdrawal' = [withdrawal EXCEPT ![r] = [withdrawal[r] EXCEPT !.stage = "earned_summed",
                  !.sum = earned[withdrawal[r].who]]]
      BY <3>1 DEF PayoutTypeOK, Withdrawal
    <3>a. "earned_summed" \in WithdrawalStages
      BY DEF WithdrawalStages
    <3>b. earned[withdrawal[r].who] \in Int
      BY ONLY <2>0
    <3>3. [withdrawal[r] EXCEPT !.stage = "earned_summed",
                  !.sum = earned[withdrawal[r].who]] \in Withdrawal
      BY <2>0, <3>1, <3>a, <3>b, SummedType
    <3> QED
      BY <3>1, <3>2, <3>3 DEF PayoutTypeOK, Withdrawal
  <2>2. PayoutTypeOK'
    BY <2>1 DEF PayoutTypeOK, PayoutLedger
  <2>3. OneWithdraws'
    BY <2>1 DEF OneWithdraws, Withdrawing
  <2>4. SumsHold'
    BY <2>0, <2>1 DEF SumsHold, Withdrawing, PayoutLedger
  <2>5. MarkersHold'
    BY <2>1, NoPayoutAssumption DEF MarkersHold, PayoutLedger
  <2> QED
    BY <2>2, <2>3, <2>4, <2>5, LedgerKept
<1>4. CASE SumPaidOut(r)
  <2> USE <1>4 DEF SumPaidOut, TakenOut
  <2>0. /\ withdrawal[r].who \in Earners
        /\ earned[withdrawal[r].who] \in Nat
        /\ booked[withdrawal[r].who] \in Nat
        /\ withdrawal[r].sum \in Int
        /\ withdrawal[r].sum <= earned[withdrawal[r].who]
    BY DEF SumsHold, Withdrawing, PayoutTypeOK, Withdrawal
  <2>1. /\ withdrawal' \in [PayoutRequests -> Withdrawal]
        /\ \A s \in PayoutRequests \ {r} : withdrawal'[s] = withdrawal[s]
        /\ withdrawal'[r].stage = "summed"
        /\ withdrawal'[r].who = withdrawal[r].who
        /\ withdrawal'[r].row = withdrawal[r].row
        /\ withdrawal'[r].sum = withdrawal[r].sum - booked[withdrawal[r].who]
    <3>1. withdrawal[r] \in Withdrawal
      BY DEF PayoutTypeOK
    <3>2. withdrawal' = [withdrawal EXCEPT ![r] = [withdrawal[r] EXCEPT !.stage = "summed",
                  !.sum = withdrawal[r].sum - booked[withdrawal[r].who]]]
      BY <3>1 DEF PayoutTypeOK, Withdrawal
    <3>a. "summed" \in WithdrawalStages
      BY DEF WithdrawalStages
    <3>b. withdrawal[r].sum - booked[withdrawal[r].who] \in Int
      BY ONLY <2>0
    <3>3. [withdrawal[r] EXCEPT !.stage = "summed",
                  !.sum = withdrawal[r].sum - booked[withdrawal[r].who]] \in Withdrawal
      BY <2>0, <3>1, <3>a, <3>b, SummedType
    <3> QED
      BY <3>1, <3>2, <3>3 DEF PayoutTypeOK, Withdrawal
  <2>2. PayoutTypeOK'
    BY <2>1 DEF PayoutTypeOK, PayoutLedger
  <2>3. OneWithdraws'
    BY <2>1 DEF OneWithdraws, Withdrawing
  <2>4. SumsHold'
    BY <2>0, <2>1 DEF SumsHold, Withdrawing, PayoutLedger
  <2>5. MarkersHold'
    BY <2>1, NoPayoutAssumption DEF MarkersHold, PayoutLedger
  <2> QED
    BY <2>2, <2>3, <2>4, <2>5, LedgerKept
<1> QED
  BY <1>1, <1>2, <1>3, <1>4

\* The insert spends only what is still available: nobody else of the same
\* freelancer is past the lock.
LEMMA InsertStep ==
  ASSUME PayoutInv, NEW r \in PayoutRequests, NEW p \in PayoutRows,
         InsertPayout(r, p)
  PROVE  PayoutInv'
<1> USE DEF PayoutInv
<1> DEFINE f == withdrawal[r].who
           a == withdrawal[r].amount
           st == IF Sandbox THEN "completed" ELSE "processing"
<1>1. /\ f \in Earners /\ a \in Nat
      /\ earned[f] \in Nat /\ booked[f] \in Nat
      /\ withdrawal[r].sum \in Int
      /\ a <= withdrawal[r].sum
      /\ withdrawal[r].sum <= earned[f] - booked[f]
      /\ payout[p].status = "none"
      /\ r \in PayoutRequests /\ withdrawal[r].stage = "summed"
  <2>1. withdrawal[r] \in Withdrawal /\ withdrawal[r].stage = "summed"
    BY DEF InsertPayout, PayoutTypeOK
  <2>2. /\ withdrawal[r].amount \in Nat /\ withdrawal[r].sum \in Int
    <3>1. withdrawal[r].amount \in PayoutAmounts \cup {0}
      BY <2>1 DEF Withdrawal
    <3>2. withdrawal[r].amount \in Nat
      BY <3>1, AmountsAreNumbers
    <3> QED
      BY <2>1, <3>2 DEF Withdrawal
  <2>3. /\ withdrawal[r].who \in Earners
        /\ withdrawal[r].sum <= earned[withdrawal[r].who] - booked[withdrawal[r].who]
    BY <2>1 DEF SumsHold, Withdrawing
  <2> QED
    BY <2>1, <2>2, <2>3 DEF InsertPayout, PayoutTypeOK
<1>2. /\ withdrawal' \in [PayoutRequests -> Withdrawal]
      /\ \A s \in PayoutRequests :
           withdrawal'[s] = IF s = r THEN NoWithdrawal ELSE withdrawal[s]
  BY NoWithdrawalType DEF InsertPayout, EndWithdrawal, PayoutTypeOK
<1>3. /\ payout' \in [PayoutRows -> PayoutRow]
      /\ \A q \in PayoutRows \ {p} : payout'[q] = payout[q]
      /\ payout'[p].status = st
  BY <1>1 DEF InsertPayout, PayoutTypeOK, PayoutRow
<1>4. /\ booked' \in [Earners -> Nat]
      /\ \A g \in Earners :
           booked'[g] = IF g = f THEN booked[g] + a ELSE booked[g]
      /\ UNCHANGED <<earned, marks>>
  BY <1>1 DEF InsertPayout, PayoutTypeOK
<1> HIDE DEF f, a, st
<1>5. PayoutTypeOK'
  BY <1>2, <1>3, <1>4 DEF PayoutTypeOK
<1>6. OneWithdraws'
  BY <1>2 DEF OneWithdraws, Withdrawing, NoWithdrawal
<1>7. SumsHold'
  <2> SUFFICES ASSUME NEW s \in PayoutRequests, s # r,
                      withdrawal[s].stage \in Withdrawing \cup {"account"}
               PROVE  /\ withdrawal[s].who \in Earners
                      /\ withdrawal[s].stage = "earned_summed"
                           => withdrawal[s].sum <= earned[withdrawal[s].who]
                      /\ withdrawal[s].stage = "summed"
                           => withdrawal[s].sum <= earned[withdrawal[s].who]
                                                 - booked'[withdrawal[s].who]
    BY <1>2, <1>4 DEF SumsHold, Withdrawing, NoWithdrawal
  <2>1. withdrawal[s].stage = "summed" => withdrawal[s].who # f
    BY <1>1 DEF OneWithdraws, Withdrawing, f
  <2> QED
    BY <2>1, <1>4 DEF SumsHold
<1>8. MarkersHold'
  <2> SUFFICES ASSUME NEW s \in PayoutRequests, s # r,
                      withdrawal[s].stage = "marking"
               PROVE  /\ payout'[withdrawal[s].row].status = "processing"
                      /\ marks'[withdrawal[s].row] = 0
                      /\ \A t \in PayoutRequests \ {s} :
                            withdrawal'[t].row # withdrawal[s].row
    BY <1>2, NoPayoutAssumption DEF MarkersHold, NoWithdrawal
  <2>1. withdrawal[s].row \in PayoutRows
        /\ payout[withdrawal[s].row].status = "processing"
    BY DEF MarkersHold
  <2>2. withdrawal[s].row # p
    BY <2>1, <1>1
  <2> QED
    BY <2>1, <2>2, <1>2, <1>3, <1>4, NoPayoutAssumption
       DEF MarkersHold, NoWithdrawal
<1>9. FreshUnmarked'
  BY <1>1, <1>3, <1>4 DEF FreshUnmarked
<1>10. PayoutsBacked'
  BY <1>1, <1>4 DEF PayoutsBacked
<1>11. MarkedOnce'
  BY <1>1, <1>3, <1>4 DEF MarkedOnce, FreshUnmarked
<1> QED
  BY <1>5, <1>6, <1>7, <1>8, <1>9, <1>10, <1>11

\* The row lock lets one administrator at a time look at a payout.
LEMMA LockStep ==
  ASSUME PayoutInv, NEW r \in PayoutRequests, NEW p \in PayoutRows,
         LockPayout(r, p)
  PROVE  PayoutInv'
<1> USE DEF PayoutInv, LockPayout
<1>1. /\ withdrawal' \in [PayoutRequests -> Withdrawal]
      /\ \A s \in PayoutRequests \ {r} : withdrawal'[s] = withdrawal[s]
      /\ withdrawal'[r].stage = "marking"
      /\ withdrawal'[r].row = p
  BY NoWithdrawalType DEF PayoutTypeOK, NoWithdrawal, Withdrawal, WithdrawalStages
<1>2. PayoutTypeOK'
  BY <1>1 DEF PayoutTypeOK, PayoutLedger
<1>3. OneWithdraws'
  BY <1>1 DEF OneWithdraws, Withdrawing
<1>4. SumsHold'
  BY <1>1 DEF SumsHold, Withdrawing, PayoutLedger
<1>5. MarkersHold'
  <2>1. marks[p] = 0
    BY DEF FreshUnmarked
  <2> QED
    BY <1>1, <2>1 DEF MarkersHold, PayoutRowFree, PayoutLedger
<1> QED
  BY <1>2, <1>3, <1>4, <1>5, LedgerKept

\* The mark is the row's first, and its last: nobody else holds the row.
LEMMA MarkStep ==
  ASSUME PayoutInv, NEW r \in PayoutRequests, MarkPayoutPaid(r)
  PROVE  PayoutInv'
<1> USE DEF PayoutInv
<1> DEFINE p == withdrawal[r].row
<1>1. /\ p \in PayoutRows
      /\ payout[p].status = "processing"
      /\ marks[p] = 0
      /\ \A s \in PayoutRequests \ {r} : withdrawal[s].row # p
  BY DEF MarkPayoutPaid, MarkersHold
<1>2. /\ withdrawal' \in [PayoutRequests -> Withdrawal]
      /\ \A s \in PayoutRequests :
           withdrawal'[s] = IF s = r THEN NoWithdrawal ELSE withdrawal[s]
  BY NoWithdrawalType DEF MarkPayoutPaid, EndWithdrawal, PayoutTypeOK
<1>3. /\ payout' \in [PayoutRows -> PayoutRow]
      /\ \A q \in PayoutRows \ {p} : payout'[q] = payout[q]
      /\ payout'[p].status = "completed"
  BY <1>1 DEF MarkPayoutPaid, PayoutTypeOK, PayoutRow
<1>4. /\ marks' \in [PayoutRows -> Nat]
      /\ \A q \in PayoutRows : marks'[q] = IF q = p THEN 1 ELSE marks[q]
      /\ UNCHANGED <<earned, booked>>
  BY <1>1 DEF MarkPayoutPaid, PayoutTypeOK
<1> HIDE DEF p
<1>5. PayoutTypeOK'
  BY <1>2, <1>3, <1>4 DEF PayoutTypeOK
<1>6. OneWithdraws'
  BY <1>2 DEF OneWithdraws, Withdrawing, NoWithdrawal
<1>7. SumsHold'
  BY <1>2, <1>4 DEF SumsHold, Withdrawing, NoWithdrawal
<1>8. MarkersHold'
  BY <1>1, <1>2, <1>3, <1>4, NoPayoutAssumption DEF MarkersHold, NoWithdrawal
<1>9. FreshUnmarked' /\ MarkedOnce'
  BY <1>1, <1>3, <1>4 DEF FreshUnmarked, MarkedOnce
<1>10. PayoutsBacked'
  BY <1>4 DEF PayoutsBacked
<1> QED
  BY <1>5, <1>6, <1>7, <1>8, <1>9, <1>10

\* A release only adds to what was summed.
LEMMA ReleaseStep ==
  ASSUME PayoutInv, NEW f \in Earners, NEW a \in PayoutAmounts,
         EscrowReleases(f, a)
  PROVE  PayoutInv'
<1> USE DEF PayoutInv
<1>1. /\ earned' \in [Earners -> Nat]
      /\ \A g \in Earners : /\ earned[g] \in Nat /\ booked[g] \in Nat
                            /\ earned[g] <= earned'[g]
      /\ UNCHANGED <<booked, payout, marks, withdrawal>>
  BY PayoutAssumption DEF EscrowReleases, PayoutTypeOK
<1>2. PayoutTypeOK' /\ OneWithdraws' /\ MarkersHold' /\ FreshUnmarked'
        /\ MarkedOnce'
  BY <1>1 DEF PayoutTypeOK, OneWithdraws, MarkersHold, FreshUnmarked, MarkedOnce
<1>3. SumsHold'
  <2> SUFFICES ASSUME NEW r \in PayoutRequests
               PROVE  LET w == withdrawal[r] IN
                      /\ w.stage \in Withdrawing \cup {"account"}
                           => w.who \in Earners
                      /\ w.stage = "earned_summed" => w.sum <= earned'[w.who]
                      /\ w.stage = "summed"
                           => w.sum <= earned'[w.who] - booked[w.who]
    BY <1>1 DEF SumsHold
  <2>1. withdrawal[r].sum \in Int
    BY DEF PayoutTypeOK, Withdrawal
  <2> QED
    BY <1>1, <2>1 DEF SumsHold, Withdrawing
<1>4. PayoutsBacked'
  BY <1>1 DEF PayoutsBacked
<1> QED
  BY <1>2, <1>3, <1>4

\* No step breaks the invariant.
LEMMA PayoutStep == PayoutInv /\ [PayoutNext]_payoutVars => PayoutInv'
<1> SUFFICES ASSUME PayoutInv, [PayoutNext]_payoutVars PROVE PayoutInv'
  OBVIOUS
<1>1. CASE \E r \in PayoutRequests :
             \/ \E f \in Earners, a \in PayoutAmounts : RequestPayout(r, f, a)
             \/ TakeAdvisoryLock(r) \/ SumEarned(r) \/ SumPaidOut(r)
  BY <1>1, AskingSteps
<1>2. CASE \E r \in PayoutRequests, p \in PayoutRows :
             InsertPayout(r, p) \/ LockPayout(r, p)
  BY <1>2, InsertStep, LockStep
<1>3. CASE \E r \in PayoutRequests : AbandonPayout(r)
  BY <1>3, Forget DEF AbandonPayout
<1>4. CASE \E r \in PayoutRequests : MarkPayoutPaid(r)
  BY <1>4, MarkStep
<1>5. CASE \E f \in Earners, a \in PayoutAmounts : EscrowReleases(f, a)
  BY <1>5, ReleaseStep
<1>6. CASE UNCHANGED payoutVars
  BY <1>6 DEF payoutVars, PayoutInv, PayoutTypeOK, OneWithdraws, SumsHold,
     MarkersHold, FreshUnmarked, PayoutsBacked, MarkedOnce
<1> QED
  BY <1>1, <1>2, <1>3, <1>4, <1>5, <1>6 DEF PayoutNext

\* The invariant of request_payout and mark_payout_paid, with its type.
THEOREM PayoutsInvariant == PayoutSpec => []PayoutInv
<1>1. PayoutInit => PayoutInv
  BY PayoutStart
<1>2. PayoutInv /\ [PayoutNext]_payoutVars => PayoutInv'
  BY PayoutStep
<1> QED
  BY <1>1, <1>2, PTL DEF PayoutSpec

\* However many requests a freelancer sends at once, and whatever is released
\* or marked paid meanwhile, at most what was released is taken out.
THEOREM PayoutsAreBacked == PayoutSpec => []PayoutsBacked
<1>1. PayoutInv => PayoutsBacked
  BY DEF PayoutInv
<1> QED
  BY <1>1, PayoutsInvariant, PTL

\* A payout is marked paid at most once, by whichever administrators.
THEOREM PayoutsAreMarkedOnce == PayoutSpec => []MarkedOnce
<1>1. PayoutInv => MarkedOnce
  BY DEF PayoutInv
<1> QED
  BY <1>1, PayoutsInvariant, PTL
=============================================================================
