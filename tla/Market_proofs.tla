---------------------------- MODULE Market_proofs ----------------------------
(* The marketplace for any number of users and of requests in flight: the   *)
(* counter of proposals, one contract per opening, one deal per buyer       *)
(* request, ratings, the catalogue and levels.                             *)
EXTENDS MCJobBoard, FiniteSetTheorems, TLAPS

---------------------------------------------------------------------------
(* Types.                                                                  *)

\* The end of a request leaves well-typed locks and requests.
LEMMA EndType ==
  ASSUME TypeOK, NEW s \in Sessions, End(s)
  PROVE  /\ jobLock' \in [Jobs -> Sessions \cup {NoTab}]
         /\ proposalLock' \in [Bids -> Sessions \cup {NoTab}]
         /\ req' \in [Sessions -> Request]
         /\ \A t \in Sessions : req'[t] = IF t = s THEN Idle ELSE req[t]
<1>1. Idle \in Request
  BY DEF Idle, Request, Ops, Stages
<1> QED
  BY <1>1 DEF TypeOK, End

\* A request that starts is well typed, and the others are as they were.
LEMMA BeginType ==
  ASSUME TypeOK, NEW s \in Sessions, NEW op \in Ops, NEW j \in Jobs,
         NEW f \in Freelancers \cup {"nobody"}, Begin(s, op, j, f)
  PROVE  /\ req' \in [Sessions -> Request]
         /\ req'[s] = [op |-> op, stage |-> "loaded", job |-> j,
                       freelancer |-> f,
                       seenOpen |-> job[j].status = "open", others |-> {}]
         /\ \A t \in Sessions \ {s} : req'[t] = req[t]
<1> DEFINE r == [op |-> op, stage |-> "loaded", job |-> j, freelancer |-> f,
                 seenOpen |-> job[j].status = "open", others |-> {}]
<1>1. r \in Request
  <2>1. (job[j].status = "open") \in BOOLEAN
    OBVIOUS
  <2> QED
    BY <2>1 DEF Request, Stages
<1>2. req' = [req EXCEPT ![s] = r]
  BY DEF Begin
<1> QED
  BY <1>1, <1>2 DEF TypeOK

\* A request that goes on changes its stage only.
LEMMA GoType ==
  ASSUME TypeOK, NEW s \in Sessions, NEW stage \in Stages, Go(s, stage)
  PROVE  /\ req' \in [Sessions -> Request]
         /\ req'[s] = [req[s] EXCEPT !.stage = stage]
         /\ \A t \in Sessions \ {s} : req'[t] = req[t]
  BY DEF TypeOK, Go, Request

\* Every step keeps the types of rows, locks and requests.
LEMMA TypeStep == TypeOK /\ HandInv /\ [Next]_vars => TypeOK'
<1> SUFFICES ASSUME TypeOK, HandInv, [Next]_vars PROVE TypeOK'
  OBVIOUS
<1> USE DEF Data, Locks
<1>1. ASSUME NEW s \in Sessions, ClientStep(s) PROVE TypeOK'
  <2>1. ASSUME NEW j \in Jobs, LoadClose(s, j) \/ LoadDelete(s, j) PROVE TypeOK'
    <3>1. Begin(s, "close", j, "nobody") \/ Begin(s, "delete", j, "nobody")
      BY <2>1 DEF LoadClose, LoadDelete
    <3>2. req' \in [Sessions -> Request]
      BY <3>1, BeginType DEF Ops
    <3> QED
      BY <2>1, <3>2 DEF LoadClose, LoadDelete, TypeOK
  <2>2. ASSUME NEW j \in Jobs, NEW f \in Freelancers, NEW answer \in Answers,
               LoadRespond(s, j, f, answer)
        PROVE  TypeOK'
    <3>1. req' \in [Sessions -> Request]
      BY <2>2, BeginType DEF LoadRespond, Ops
    <3> QED
      BY <2>2, <3>1 DEF LoadRespond, TypeOK
  <2>3. CASE CloseJob(s)
    BY <2>3, EndType DEF CloseJob, TypeOK, JobRow, JobStatus
  <2>4. CASE FindNoChild(s)
    BY <2>4, GoType DEF FindNoChild, Stages, TypeOK
  <2>5. CASE DeleteJob(s)
    BY <2>5, EndType DEF DeleteJob, TypeOK, JobRow
  <2>6. CASE Respond(s)
    BY <2>6, EndType DEF Respond, TypeOK, ProposalStatus
  <2>7. CASE FlushProposal(s)
    BY <2>7, GoType DEF FlushProposal, Stages, TypeOK
  <2>8. CASE LockJob(s)
    <3>1. req[s].job \in Jobs
      BY <2>8 DEF LockJob, At, HandInv
    <3>2. Losers(s) \in SUBSET Bids
      BY <3>1 DEF Losers, BidsOn, Bids
    <3>3. [req[s] EXCEPT !.stage = "job_locked", !.others = Losers(s)] \in Request
      BY <3>2 DEF TypeOK, Request, Stages
    <3>4. req' = [req EXCEPT ![s] = [req[s] EXCEPT !.stage = "job_locked",
                                                  !.others = Losers(s)]]
      BY <2>8 DEF LockJob, TypeOK
    <3>5. req' \in [Sessions -> Request]
      BY <3>3, <3>4 DEF TypeOK
    <3> QED
      BY <2>8, <3>1, <3>5 DEF LockJob, TypeOK
  <2>9. CASE Accept(s)
    <3>1. req[s].job \in Jobs /\ req[s].freelancer \in Freelancers
      BY <2>9 DEF Accept, At, HandInv
    <3>2. job' \in [Jobs -> JobRow]
      BY <2>9, <3>1 DEF Accept, TypeOK, JobRow, JobStatus
    <3>3. proposal' \in [Bids -> ProposalStatus \cup {"none"}]
      BY <2>9 DEF Accept, TypeOK, ProposalStatus
    <3>4. contract' \in [Bids -> {"none", "active", "completed"}]
      BY <2>9 DEF Accept, TypeOK
    <3> QED
      BY <2>9, <3>2, <3>3, <3>4, EndType DEF Accept, TypeOK
  <2> QED
    BY <1>1, <2>1, <2>2, <2>3, <2>4, <2>5, <2>6, <2>7, <2>8, <2>9 DEF ClientStep
<1>2. ASSUME NEW s \in Sessions, FreelancerStep(s) PROVE TypeOK'
  <2>1. ASSUME NEW j \in Jobs, NEW f \in Freelancers,
               LoadSubmit(s, j, f) \/ LoadWithdraw(s, j, f)
        PROVE  TypeOK'
    <3>1. req' \in [Sessions -> Request]
      BY <2>1, BeginType DEF LoadSubmit, LoadWithdraw, Ops
    <3> QED
      BY <2>1, <3>1 DEF LoadSubmit, LoadWithdraw, TypeOK
  <2>2. CASE Submit(s)
    <3>1. req[s].job \in Jobs
      BY <2>2 DEF Submit, At, HandInv
    <3>2. job[req[s].job].count + 1 \in Nat
      BY <3>1 DEF TypeOK, JobRow
    <3> QED
      BY <2>2, <3>1, <3>2, EndType DEF Submit, TypeOK, JobRow, ProposalStatus
  <2>3. CASE FlushProposal(s)
    BY <2>3, GoType DEF FlushProposal, Stages, TypeOK
  <2>4. CASE Withdraw(s)
    <3>1. req[s].job \in Jobs
      BY <2>4 DEF Withdraw, At, HandInv
    <3>2. Decremented(job[req[s].job].count) \in Nat
      BY <3>1 DEF TypeOK, JobRow, Decremented
    <3> QED
      BY <2>4, <3>1, <3>2, EndType DEF Withdraw, TypeOK, JobRow, ProposalStatus
  <2> QED
    BY <1>2, <2>1, <2>2, <2>3, <2>4 DEF FreelancerStep
<1>3. ASSUME NEW j \in Jobs, CreateJob(j) PROVE TypeOK'
  BY <1>3 DEF CreateJob, TypeOK, JobRow, JobStatus
<1>4. ASSUME NEW s \in Sessions, Rollback(s) PROVE TypeOK'
  BY <1>4, EndType DEF Rollback, TypeOK
<1>5. ASSUME NEW j \in Jobs, NEW status \in JobStatus, SetStatus(j, status)
      PROVE  TypeOK'
  BY <1>5 DEF SetStatus, TypeOK, JobRow
<1>6. ASSUME NEW j \in Jobs, NEW f \in Freelancers, CompleteContract(j, f)
      PROVE  TypeOK'
  BY <1>6 DEF CompleteContract, TypeOK, JobRow, JobStatus
<1>7. CASE UNCHANGED vars
  BY <1>7 DEF vars, TypeOK
<1> QED
  BY <1>1, <1>2, <1>3, <1>4, <1>5, <1>6, <1>7 DEF Next, Sessions

\* Every step leaves requests that know their job and freelancer.
LEMMA HandStep == TypeOK /\ HandInv /\ [Next]_vars => HandInv'
<1> SUFFICES ASSUME TypeOK, HandInv, [Next]_vars, NEW x \in Sessions,
                    req'[x].op # "none"
             PROVE  /\ req'[x].job \in Jobs
                    /\ req'[x].op \notin {"close", "delete"}
                         => req'[x].freelancer \in Freelancers
  BY DEF HandInv
<1> DEFINE Kept ==
             \/ req'[x] = Idle
             \/ /\ req'[x].op = req[x].op
                /\ req'[x].job = req[x].job
                /\ req'[x].freelancer = req[x].freelancer
<1>1. CASE Kept
  BY <1>1 DEF Idle, HandInv
<1>2. ASSUME NEW s \in Sessions, End(s) PROVE Kept
  BY <1>2, EndType
<1>3. ASSUME NEW s \in Sessions, NEW stage \in Stages, Go(s, stage) PROVE Kept
  <2>1. CASE x = s
    <3>1. req'[x] = [req[x] EXCEPT !.stage = stage]
      BY <1>3, <2>1, GoType
    <3>2. req[x] \in Request
      BY DEF TypeOK
    <3> QED
      BY <3>1, <3>2 DEF Request
  <2>2. CASE x # s
    BY <1>3, <2>2, GoType
  <2> QED
    BY <2>1, <2>2
<1>4. ASSUME UNCHANGED req PROVE Kept
  BY <1>4
<1>begun. ASSUME NEW s \in Sessions, NEW j \in Jobs, NEW op \in Ops,
             NEW f \in Freelancers \cup {"nobody"}, Begin(s, op, j, f)
      PROVE  \/ Kept
             \/ req'[x].op = op /\ req'[x].job = j /\ req'[x].freelancer = f
  <2>1. CASE x = s
    <3>1. req'[x] = [op |-> op, stage |-> "loaded", job |-> j,
                     freelancer |-> f, seenOpen |-> job[j].status = "open",
                     others |-> {}]
      BY <1>begun, <2>1, BeginType
    <3> QED
      BY <3>1
  <2>2. CASE x # s
    BY <1>begun, <2>2, BeginType
  <2> QED
    BY <2>1, <2>2
<1>known. Kept => req'[x].job \in Jobs
  BY <1>1
<1>5. ASSUME NEW s \in Sessions, NEW j \in Jobs, NEW op \in {"close", "delete"},
             Begin(s, op, j, "nobody")
      PROVE  req'[x].job \in Jobs /\ (req'[x].op \in {"close", "delete"} \/ Kept)
  BY <1>5, <1>begun, <1>known DEF Ops
<1>6. ASSUME NEW s \in Sessions, NEW j \in Jobs, NEW f \in Freelancers,
             NEW op \in Ops, Begin(s, op, j, f)
      PROVE  req'[x].job \in Jobs /\ (req'[x].freelancer \in Freelancers \/ Kept)
  BY <1>6, <1>begun, <1>known
<1>7. ASSUME NEW s \in Sessions, ClientStep(s)
      PROVE  /\ req'[x].job \in Jobs
             /\ req'[x].op \notin {"close", "delete"}
                  => req'[x].freelancer \in Freelancers
  <2>1. ASSUME NEW j \in Jobs, LoadClose(s, j) \/ LoadDelete(s, j)
        PROVE  /\ req'[x].job \in Jobs
               /\ req'[x].op \in {"close", "delete"} \/ Kept
    BY <2>1, <1>5 DEF LoadClose, LoadDelete
  <2>2. ASSUME NEW j \in Jobs, NEW f \in Freelancers, NEW answer \in Answers,
               LoadRespond(s, j, f, answer)
        PROVE  req'[x].job \in Jobs /\ (req'[x].freelancer \in Freelancers \/ Kept)
    BY <2>2, <1>6 DEF LoadRespond, Ops
  <2>3. CASE CloseJob(s) \/ DeleteJob(s) \/ Respond(s) \/ Accept(s)
    BY <2>3, <1>1, <1>2 DEF CloseJob, DeleteJob, Respond, Accept
  <2>4. CASE FindNoChild(s) \/ FlushProposal(s)
    BY <2>4, <1>1, <1>3 DEF FindNoChild, FlushProposal, Stages
  <2>5. CASE LockJob(s)
    <3>1. Kept
      BY <2>5 DEF LockJob, TypeOK, Request
    <3> QED
      BY <3>1, <1>1
  <2> QED
    BY <1>7, <1>1, <2>1, <2>2, <2>3, <2>4, <2>5 DEF ClientStep
<1>8. ASSUME NEW s \in Sessions, FreelancerStep(s)
      PROVE  /\ req'[x].job \in Jobs
             /\ req'[x].op \notin {"close", "delete"}
                  => req'[x].freelancer \in Freelancers
  <2>1. ASSUME NEW j \in Jobs, NEW f \in Freelancers,
               LoadSubmit(s, j, f) \/ LoadWithdraw(s, j, f)
        PROVE  req'[x].job \in Jobs /\ (req'[x].freelancer \in Freelancers \/ Kept)
    BY <2>1, <1>6 DEF LoadSubmit, LoadWithdraw, Ops
  <2>2. CASE Submit(s) \/ Withdraw(s)
    BY <2>2, <1>1, <1>2 DEF Submit, Withdraw
  <2>3. CASE FlushProposal(s)
    BY <2>3, <1>1, <1>3 DEF FlushProposal, Stages
  <2> QED
    BY <1>8, <1>1, <2>1, <2>2, <2>3 DEF FreelancerStep
<1>9. ASSUME NEW s \in Sessions, Rollback(s) PROVE Kept
  BY <1>9, <1>2 DEF Rollback
<1>10. CASE UNCHANGED req
  BY <1>1, <1>4, <1>10
<1> QED
  BY <1>1, <1>7, <1>8, <1>9, <1>10
     DEF Next, Sessions, CreateJob, SetStatus, CompleteContract, vars

---------------------------------------------------------------------------
(* The counter.                                                            *)

\* A counter that does not grow, over proposals that do not leave, is backed.
LEMMA CountKept ==
  ASSUME TypeOK, CountNotOverstated, NEW j \in Jobs,
         IsFiniteSet(Live(j)'), Live(j) \subseteq Live(j)',
         job'[j].count = job[j].count
  PROVE  job'[j].count <= Cardinality(Live(j)')
<1>1. Cardinality(Live(j)) <= Cardinality(Live(j)')
  BY FS_Subset
<1>2. Cardinality(Live(j)) \in Nat /\ Cardinality(Live(j)') \in Nat
  BY FS_Subset, FS_CardinalityType
<1>3. job[j].count \in Nat /\ job[j].count <= Cardinality(Live(j))
  BY DEF TypeOK, JobRow, CountNotOverstated
<1> QED
  BY <1>1, <1>2, <1>3

\* Every step leaves each counter at most at the number of live proposals.
LEMMA CountStep ==
  TypeOK /\ HandInv /\ CountNotOverstated /\ [Next]_vars => CountNotOverstated'
<1> SUFFICES ASSUME TypeOK, HandInv, CountNotOverstated, [Next]_vars,
                    NEW j \in Jobs
             PROVE  job'[j].count <= Cardinality(Live(j)')
  BY DEF CountNotOverstated
<1> DEFINE Goal == job'[j].count <= Cardinality(Live(j)')
<1>fin. /\ IsFiniteSet(Live(j)) /\ IsFiniteSet(Live(j)')
        /\ Cardinality(Live(j)) \in Nat /\ Cardinality(Live(j)') \in Nat
  <2>1. Live(j) \subseteq Freelancers /\ Live(j)' \subseteq Freelancers
    BY DEF Live
  <2> QED
    BY <2>1, FS_Subset, FS_CardinalityType, FiniteAssumption
<1>cnt. job[j].count \in Nat /\ job[j].count <= Cardinality(Live(j))
  BY DEF TypeOK, JobRow, CountNotOverstated
<1>1. ASSUME UNCHANGED proposal, job'[j].count = job[j].count PROVE Goal
  BY <1>1, <1>fin, CountKept DEF Live
<1>2. ASSUME NEW s \in Sessions, Submit(s) PROVE Goal
  <2> DEFINE f == req[s].freelancer
  <2>1. req[s].job \in Jobs /\ f \in Freelancers
    BY <1>2 DEF Submit, At, HandInv
  <2>2. CASE req[s].job = j
    <3>1. /\ proposal[<<j, f>>] = "none"
          /\ proposal' = [proposal EXCEPT ![<<j, f>>] = "pending"]
          /\ job'[j].count = job[j].count + 1
      BY <1>2, <2>2 DEF Submit, Bid, TypeOK, JobRow
    <3>2. <<j, f>> \in Bids
      BY <2>1 DEF Bids
    <3>3. f \notin Live(j) /\ Live(j)' = Live(j) \cup {f}
      BY <2>1, <3>1, <3>2 DEF Live, TypeOK, Bids
    <3>4. Cardinality(Live(j)') = Cardinality(Live(j)) + 1
      BY <1>fin, <3>3, FS_AddElement
    <3> QED
      BY <1>fin, <1>cnt, <3>1, <3>4
  <2>3. CASE req[s].job # j
    <3>1. job'[j].count = job[j].count
      BY <1>2, <2>1, <2>3 DEF Submit, TypeOK
    <3>2. Live(j)' = Live(j)
      BY <1>2, <2>1, <2>3 DEF Submit, Bid, Bids, Live, TypeOK
    <3> QED
      BY <1>fin, <3>1, <3>2, CountKept
  <2> QED
    BY <2>2, <2>3
<1>3. ASSUME NEW s \in Sessions, Withdraw(s) PROVE Goal
  <2> DEFINE f == req[s].freelancer
  <2>1. req[s].job \in Jobs /\ f \in Freelancers
    BY <1>3 DEF Withdraw, At, HandInv
  <2>2. CASE req[s].job = j
    <3>1. /\ proposal' = [proposal EXCEPT ![<<j, f>>] = "withdrawn"]
          /\ job'[j].count = Decremented(job[j].count)
      BY <1>3, <2>2 DEF Withdraw, Bid, TypeOK, JobRow
    <3>2. Live(j)' = Live(j) \ {f}
      BY <2>1, <3>1 DEF Live, TypeOK, Bids
    <3>3. CASE f \in Live(j)
      <4>1. Cardinality(Live(j)') = Cardinality(Live(j)) - 1
        BY <1>fin, <3>2, <3>3, FS_RemoveElement
      <4> QED
        BY <1>fin, <1>cnt, <3>1, <4>1 DEF Decremented
    <3>4. CASE f \notin Live(j)
      <4>1. Live(j)' = Live(j)
        BY <3>2, <3>4
      <4> QED
        BY <1>fin, <1>cnt, <3>1, <4>1 DEF Decremented
    <3> QED
      BY <3>3, <3>4
  <2>3. CASE req[s].job # j
    <3>1. job'[j].count = job[j].count
      BY <1>3, <2>1, <2>3 DEF Withdraw, TypeOK
    <3>2. Live(j)' = Live(j)
      BY <1>3, <2>1, <2>3 DEF Withdraw, Bid, Bids, Live, TypeOK
    <3> QED
      BY <1>fin, <3>1, <3>2, CountKept
  <2> QED
    BY <2>2, <2>3
<1>4. ASSUME NEW s \in Sessions, Respond(s) PROVE Goal
  <2>1. job'[j].count = job[j].count
    BY <1>4 DEF Respond
  <2>2. Live(j) \subseteq Live(j)'
    BY <1>4 DEF Respond, Live, TypeOK, Bids
  <2> QED
    BY <1>fin, <2>1, <2>2, CountKept
<1>5. ASSUME NEW s \in Sessions, Accept(s) PROVE Goal
  <2>1. req[s].job \in Jobs
    BY <1>5 DEF Accept, At, HandInv
  <2>2. job'[j].count = job[j].count
    BY <1>5, <2>1 DEF Accept, TypeOK, JobRow
  <2>3. Live(j) \subseteq Live(j)'
    BY <1>5 DEF Accept, Live, Bids
  <2> QED
    BY <1>fin, <2>2, <2>3, CountKept
<1>6. ASSUME NEW s \in Sessions, DeleteJob(s) PROVE Goal
  <2>1. req[s].job \in Jobs
    BY <1>6 DEF DeleteJob, At, HandInv
  <2>2. CASE req[s].job = j
    <3>1. job'[j].count = 0
      BY <1>6, <2>2 DEF DeleteJob, TypeOK
    <3> QED
      BY <1>fin, <3>1
  <2>3. CASE req[s].job # j
    <3>1. job'[j].count = job[j].count
      BY <1>6, <2>1, <2>3 DEF DeleteJob, TypeOK
    <3>2. Live(j)' = Live(j)
      BY <1>6, <2>1, <2>3 DEF DeleteJob, BidsOn, Bids, Live
    <3> QED
      BY <1>fin, <3>1, <3>2, CountKept
  <2> QED
    BY <2>2, <2>3
<1>7. ASSUME NEW s \in Sessions, CloseJob(s) PROVE Goal
  <2>1. job'[j].count = job[j].count
    BY <1>7 DEF CloseJob, TypeOK, JobRow
  <2> QED
    BY <1>1, <1>7, <2>1 DEF CloseJob
<1>8. ASSUME NEW s \in Sessions, ClientStep(s) PROVE Goal
  BY <1>1, <1>4, <1>5, <1>6, <1>7, <1>8
     DEF ClientStep, LoadClose, LoadDelete, LoadRespond, FindNoChild,
         FlushProposal, LockJob, Data
<1>9. ASSUME NEW s \in Sessions, FreelancerStep(s) PROVE Goal
  BY <1>1, <1>2, <1>3, <1>9
     DEF FreelancerStep, LoadSubmit, LoadWithdraw, FlushProposal, Data
<1>10. ASSUME NEW i \in Jobs, CreateJob(i) PROVE Goal
  <2>1. job'[j].count = job[j].count
    BY <1>10 DEF CreateJob, TypeOK, JobRow
  <2> QED
    BY <1>1, <1>10, <2>1 DEF CreateJob
<1>11. ASSUME NEW i \in Jobs, NEW status \in JobStatus, SetStatus(i, status)
       PROVE  Goal
  <2>1. job'[j].count = job[j].count
    BY <1>11 DEF SetStatus, TypeOK, JobRow
  <2> QED
    BY <1>1, <1>11, <2>1 DEF SetStatus
<1>12. ASSUME NEW i \in Jobs, NEW f \in Freelancers, CompleteContract(i, f)
       PROVE  Goal
  <2>1. job'[j].count = job[j].count
    BY <1>12 DEF CompleteContract, TypeOK, JobRow
  <2> QED
    BY <1>1, <1>12, <2>1 DEF CompleteContract
<1>13. ASSUME NEW s \in Sessions, Rollback(s) PROVE Goal
  BY <1>1, <1>13 DEF Rollback, Data
<1>14. CASE UNCHANGED vars
  BY <1>1, <1>14 DEF vars
<1> QED
  BY <1>8, <1>9, <1>10, <1>11, <1>12, <1>13, <1>14 DEF Next, Sessions

---------------------------------------------------------------------------
(* The contracts.                                                          *)

\* An opening of the job is left for another contract.
Room(j) == Cardinality(Contracted(j)) < openings[j]

LEMMA ContractedFinite ==
  ASSUME NEW j \in Jobs
  PROVE  /\ IsFiniteSet(Contracted(j)) /\ IsFiniteSet(Contracted(j)')
         /\ Cardinality(Contracted(j)) \in Nat
         /\ Cardinality(Contracted(j)') \in Nat
<1>1. Contracted(j) \subseteq Freelancers /\ Contracted(j)' \subseteq Freelancers
  BY DEF Contracted
<1> QED
  BY <1>1, FS_Subset, FS_CardinalityType, FiniteAssumption

\* With as many openings and no more contracts a job keeps what it had.
LEMMA RoomKept ==
  ASSUME TypeOK, NEW j \in Jobs, Contracted(j)' \subseteq Contracted(j),
         openings'[j] = openings[j]
  PROVE  /\ Cardinality(Contracted(j)) <= openings[j]
              => Cardinality(Contracted(j)') <= openings'[j]
         /\ Room(j) => Room(j)'
<1>1. Cardinality(Contracted(j)') <= Cardinality(Contracted(j))
  BY ContractedFinite, FS_Subset
<1>2. openings[j] \in Nat
  BY DEF TypeOK
<1> QED
  BY <1>1, <1>2, ContractedFinite DEF Room

\* What a step that creates no contract does to a job: none of its contracts is
\* new, and it opens only with an opening that is counted.
Moves(j) ==
  /\ Contracted(j)' \subseteq Contracted(j)
  /\ job'[j].status = "none" => job[j].status = "none"
  /\ \/ /\ openings'[j] = openings[j]
        /\ job'[j].status = "open" => job[j].status = "open"
     \/ /\ openings'[j] = openings[j] + 1
        /\ job[j].status # "open" /\ job'[j].status = "open"
     \/ /\ openings'[j] = 1 /\ job[j].status = "none" /\ job'[j].status = "open"

LEMMA MovesStep ==
  ASSUME TypeOK, HandInv, [Next]_vars, \A s \in ClientTabs : ~Accept(s), NEW j \in Jobs
  PROVE  Moves(j)
<1>1. ASSUME UNCHANGED <<contract, openings>>,
             job'[j].status \in {"none", "open"} => job'[j].status = job[j].status
      PROVE  Moves(j)
  <2>1. Contracted(j)' = Contracted(j)
    BY <1>1 DEF Contracted
  <2> QED
    BY <1>1, <2>1 DEF Moves
<1>2. ASSUME NEW s \in Sessions, Submit(s) \/ Withdraw(s) PROVE Moves(j)
  <2>1. job'[j].status = job[j].status
    BY <1>2 DEF Submit, Withdraw, TypeOK, JobRow
  <2> QED
    BY <1>1, <1>2, <2>1 DEF Submit, Withdraw
<1>3. ASSUME NEW s \in Sessions, CloseJob(s) PROVE Moves(j)
  <2>1. job'[j].status \in {job[j].status, "closed"}
    BY <1>3 DEF CloseJob, TypeOK, JobRow
  <2> QED
    BY <1>1, <1>3, <2>1 DEF CloseJob
<1>4. ASSUME NEW s \in Sessions, DeleteJob(s) PROVE Moves(j)
  <2>1. Contracted(j)' \subseteq Contracted(j)
    BY <1>4 DEF DeleteJob, Contracted, Bids
  <2>2. job'[j].status \in {job[j].status, "deleted"}
    BY <1>4 DEF DeleteJob, TypeOK, JobRow
  <2> QED
    BY <1>4, <2>1, <2>2 DEF Moves, DeleteJob
<1>5. ASSUME NEW i \in Jobs, CreateJob(i) PROVE Moves(j)
  <2>1. Contracted(j)' = Contracted(j)
    BY <1>5 DEF CreateJob, Contracted
  <2>2. CASE i = j
    <3>1. job[j].status = "none" /\ openings'[j] = 1
      BY <1>5, <2>2 DEF CreateJob, TypeOK
    <3>2. job'[j].status = "open"
      BY <1>5, <2>2 DEF CreateJob, TypeOK, JobRow
    <3> QED
      BY <2>1, <3>1, <3>2 DEF Moves
  <2>3. CASE i # j
    <3>1. job'[j] = job[j] /\ openings'[j] = openings[j]
      BY <1>5, <2>3 DEF CreateJob, TypeOK
    <3> QED
      BY <2>1, <3>1 DEF Moves
  <2> QED
    BY <2>2, <2>3
<1>6. ASSUME NEW i \in Jobs, NEW status \in JobStatus, SetStatus(i, status)
      PROVE  Moves(j)
  <2>1. Contracted(j)' = Contracted(j)
    BY <1>6 DEF SetStatus, Contracted
  <2>2. CASE i = j /\ status = "open"
    <3>1. /\ openings'[j] = openings[j] + 1 /\ job'[j].status = "open"
          /\ job[j].status # "open"
      BY <1>6, <2>2 DEF SetStatus, TypeOK, JobRow
    <3> QED
      BY <2>1, <3>1 DEF Moves
  <2>3. CASE ~(i = j /\ status = "open")
    <3>1. openings'[j] = openings[j]
      BY <1>6, <2>3 DEF SetStatus, TypeOK
    <3>2. job'[j].status \in {"none", "open"} => job'[j].status = job[j].status
      BY <1>6, <2>3 DEF SetStatus, TypeOK, JobRow, JobStatus
    <3> QED
      BY <2>1, <3>1, <3>2 DEF Moves
  <2> QED
    BY <2>2, <2>3
<1>7. ASSUME NEW i \in Jobs, NEW f \in Freelancers, CompleteContract(i, f)
      PROVE  Moves(j)
  <2>1. Contracted(j)' \subseteq Contracted(j)
    BY <1>7 DEF CompleteContract, Contracted, TypeOK, Bids
  <2>2. job'[j].status \in {job[j].status, "completed"}
    BY <1>7 DEF CompleteContract, TypeOK, JobRow
  <2> QED
    BY <1>7, <2>1, <2>2 DEF Moves, CompleteContract
<1>8. ASSUME NEW s \in ClientTabs, ClientStep(s) PROVE Moves(j)
  BY <1>1, <1>3, <1>4, <1>8
     DEF Sessions, ClientStep, LoadClose, LoadDelete, LoadRespond,
         FindNoChild, FlushProposal, LockJob, Respond, Data
<1>9. ASSUME NEW s \in Tabs, FreelancerStep(s) PROVE Moves(j)
  BY <1>1, <1>2, <1>9
     DEF Sessions, FreelancerStep, LoadSubmit, LoadWithdraw, FlushProposal, Data
<1>10. ASSUME NEW s \in Sessions, Rollback(s) PROVE Moves(j)
  BY <1>1, <1>10 DEF Rollback, Data
<1>11. CASE UNCHANGED vars
  BY <1>1, <1>11 DEF vars
<1> QED
  BY <1>5, <1>6, <1>7, <1>8, <1>9, <1>10, <1>11 DEF Next

\* Such a job keeps its room, and is open afterwards only if it was or has room.
Tame(j) ==
  /\ Cardinality(Contracted(j)') <= openings'[j]
  /\ Room(j) => Room(j)'
  /\ job'[j].status = "none" => Contracted(j)' = {}
  /\ job'[j].status = "open" => Room(j)'

LEMMA TameStep ==
  ASSUME TypeOK, HandInv, ContractPerOpening, OpeningInv, [Next]_vars,
         \A s \in ClientTabs : ~Accept(s), NEW j \in Jobs
  PROVE  Tame(j)
<1>1. /\ Cardinality(Contracted(j)) <= openings[j]
      /\ job[j].status = "none" => Contracted(j) = {}
      /\ job[j].status = "open" => Room(j)
  BY DEF ContractPerOpening, OpeningInv, Room
<1>2. Moves(j)
  BY MovesStep
<1>3. Cardinality(Contracted(j)') <= Cardinality(Contracted(j))
  BY <1>2, ContractedFinite, FS_Subset DEF Moves
<1>4. openings[j] \in Nat
  BY DEF TypeOK
<1>5. job[j].status = "none" => Cardinality(Contracted(j)) = 0
  BY <1>1, FS_EmptySet
<1>6. job'[j].status = "none" => Contracted(j)' = {}
  BY <1>1, <1>2 DEF Moves
<1> QED
  BY <1>1, <1>2, <1>3, <1>4, <1>5, <1>6, ContractedFinite DEF Tame, Moves, Room

\* What a step does to the acceptance a request carries: it saw the job open
\* before, or has just loaded it, and locks the job only if it saw it open.
Steady(x) ==
  req'[x].op = "accepted" =>
    \/ /\ req[x].op = "accepted"
       /\ req'[x].job = req[x].job
       /\ req'[x].seenOpen = req[x].seenOpen
       /\ req'[x].stage = "job_locked" =>
            req[x].stage = "job_locked" \/ req[x].seenOpen
    \/ /\ req'[x].job \in Jobs
       /\ req'[x].stage = "loaded"
       /\ req'[x].seenOpen = (job[req'[x].job].status = "open")

LEMMA SteadyStep ==
  ASSUME TypeOK, [Next]_vars, NEW x \in Sessions
  PROVE  Steady(x)
<1>type. req[x] \in Request
  BY DEF TypeOK
<1>1. ASSUME NEW s \in Sessions, NEW op \in Ops, NEW j \in Jobs,
             NEW f \in Freelancers \cup {"nobody"}, Begin(s, op, j, f)
      PROVE  Steady(x)
  <2>1. CASE x = s
    <3>1. req'[x] = [op |-> op, stage |-> "loaded", job |-> j,
                     freelancer |-> f, seenOpen |-> job[j].status = "open",
                     others |-> {}]
      BY <1>1, <2>1, BeginType
    <3> QED
      BY <3>1 DEF Steady
  <2>2. CASE x # s
    BY <1>1, <2>2, BeginType DEF Steady
  <2> QED
    BY <2>1, <2>2
<1>2. ASSUME NEW s \in Sessions, End(s) PROVE Steady(x)
  BY <1>2, EndType DEF Steady, Idle
<1>3. ASSUME NEW s \in Sessions, NEW stage \in Stages \ {"job_locked"}, Go(s, stage)
      PROVE  Steady(x)
  <2>1. CASE x = s
    <3>1. req'[x] = [req[x] EXCEPT !.stage = stage]
      BY <1>3, <2>1, GoType
    <3> QED
      BY <1>type, <3>1 DEF Steady, Request
  <2>2. CASE x # s
    BY <1>3, <2>2, GoType DEF Steady
  <2> QED
    BY <2>1, <2>2
<1>4. CASE UNCHANGED req
  BY <1>4 DEF Steady
<1>5. ASSUME NEW s \in Sessions, LockJob(s) PROVE Steady(x)
  <2>1. req[s].seenOpen
    BY <1>5 DEF LockJob, JobIsOpen
  <2> QED
    BY <1>5, <1>type, <2>1 DEF LockJob, TypeOK, Request, Steady
<1>6. ASSUME NEW s \in Sessions, ClientStep(s) PROVE Steady(x)
  <2>1. ASSUME NEW j \in Jobs, LoadClose(s, j) \/ LoadDelete(s, j)
        PROVE  Steady(x)
    BY <2>1, <1>1 DEF LoadClose, LoadDelete, Ops
  <2>2. ASSUME NEW j \in Jobs, NEW f \in Freelancers, NEW answer \in Answers,
               LoadRespond(s, j, f, answer)
        PROVE  Steady(x)
    BY <2>2, <1>1 DEF LoadRespond, Ops
  <2>3. CASE CloseJob(s) \/ DeleteJob(s) \/ Respond(s) \/ Accept(s)
    BY <2>3, <1>2 DEF CloseJob, DeleteJob, Respond, Accept
  <2>4. CASE FindNoChild(s) \/ FlushProposal(s)
    BY <2>4, <1>3 DEF FindNoChild, FlushProposal, Stages
  <2> QED
    BY <1>5, <1>6, <2>1, <2>2, <2>3, <2>4 DEF ClientStep
<1>7. ASSUME NEW s \in Sessions, FreelancerStep(s) PROVE Steady(x)
  <2>1. ASSUME NEW j \in Jobs, NEW f \in Freelancers,
               LoadSubmit(s, j, f) \/ LoadWithdraw(s, j, f)
        PROVE  Steady(x)
    BY <2>1, <1>1 DEF LoadSubmit, LoadWithdraw, Ops
  <2>2. CASE Submit(s) \/ Withdraw(s)
    BY <2>2, <1>2 DEF Submit, Withdraw
  <2>3. CASE FlushProposal(s)
    BY <2>3, <1>3 DEF FlushProposal, Stages
  <2> QED
    BY <1>7, <2>1, <2>2, <2>3 DEF FreelancerStep
<1>8. ASSUME NEW s \in Sessions, Rollback(s) PROVE Steady(x)
  BY <1>8, <1>2 DEF Rollback
<1> QED
  BY <1>4, <1>6, <1>7, <1>8
     DEF Next, Sessions, CreateJob, SetStatus, CompleteContract, vars

\* An acceptance uses up the room it locked the job with.
LEMMA AcceptStep ==
  ASSUME TypeOK, HandInv, ContractInv, NEW s \in ClientTabs, Accept(s),
         NEW i \in Jobs, i = req[s].job,
         NEW f \in Freelancers, f = req[s].freelancer,
         \A t \in ClientTabs : t = s
  PROVE  ContractInv'
<1>1. <<i, f>> \in Bids /\ Bid(s) = <<i, f>>
  BY DEF Bids, Bid
<1>2. Room(i)
  BY DEF Accept, At, ContractInv, AcceptanceInv, Room
<1>3. f \notin Contracted(i) /\ Contracted(i)' = Contracted(i) \cup {f}
  <2>1. /\ contract[<<i, f>>] = "none"
        /\ contract' = [contract EXCEPT ![<<i, f>>] = "active"]
    BY <1>1 DEF Accept
  <2>2. \A g \in Freelancers : <<i, g>> \in Bids
    BY DEF Bids
  <2>3. /\ contract'[<<i, f>>] = "active"
        /\ \A g \in Freelancers \ {f} : contract'[<<i, g>>] = contract[<<i, g>>]
    BY <2>1, <2>2 DEF TypeOK
  <2> QED
    BY <2>1, <2>3 DEF Contracted
<1>4. Cardinality(Contracted(i)') <= openings'[i]
  <2>1. Cardinality(Contracted(i)') = Cardinality(Contracted(i)) + 1
    BY <1>1, <1>3, ContractedFinite, FS_AddElement
  <2>2. openings[i] \in Nat /\ openings'[i] = openings[i]
    BY <1>1 DEF TypeOK, Accept
  <2> QED
    BY <1>1, <1>2, <2>1, <2>2, ContractedFinite DEF Room
<1>5. job'[i].status = "in_progress"
  BY <1>1 DEF Accept, TypeOK, JobRow
<1>6. ASSUME NEW j \in Jobs, j # i
      PROVE  /\ Contracted(j)' = Contracted(j)
             /\ job'[j] = job[j] /\ openings'[j] = openings[j]
  BY <1>1, <1>6 DEF Accept, Contracted, TypeOK, Bids
<1>7. ContractPerOpening'
  <2> SUFFICES ASSUME NEW j \in Jobs
               PROVE  Cardinality(Contracted(j)') <= openings'[j]
    BY DEF ContractPerOpening
  <2>1. CASE j = i
    BY <1>4, <2>1
  <2>2. CASE j # i
    BY <1>6, <2>2 DEF ContractInv, ContractPerOpening
  <2> QED
    BY <2>1, <2>2
<1>8. OpeningInv'
  <2> SUFFICES ASSUME NEW j \in Jobs
               PROVE  /\ job'[j].status = "none" => Contracted(j)' = {}
                      /\ job'[j].status = "open"
                           => Cardinality(Contracted(j)') < openings'[j]
    BY DEF OpeningInv
  <2>1. CASE j = i
    BY <1>5, <2>1
  <2>2. CASE j # i
    BY <1>6, <2>2 DEF ContractInv, OpeningInv
  <2> QED
    BY <2>1, <2>2
<1>9. AcceptanceInv'
  <2>1. \A t \in ClientTabs : req'[t].op = "none"
    BY EndType DEF Accept, Sessions, Idle
  <2> QED
    BY <2>1 DEF AcceptanceInv
<1> QED
  BY <1>7, <1>8, <1>9 DEF ContractInv

\* With one request of the client in flight every step keeps the contracts
\* within the openings.
LEMMA ContractStep ==
  ASSUME \A s, t \in ClientTabs : s = t
  PROVE  TypeOK /\ HandInv /\ ContractInv /\ [Next]_vars => ContractInv'
<1> SUFFICES ASSUME TypeOK, HandInv, ContractInv, [Next]_vars PROVE ContractInv'
  OBVIOUS
<1>1. ASSUME NEW s \in ClientTabs, Accept(s) PROVE ContractInv'
  <2>1. req[s].job \in Jobs /\ req[s].freelancer \in Freelancers
    BY <1>1 DEF Accept, At, HandInv, Sessions
  <2> QED
    BY <1>1, <2>1, AcceptStep
<1>2. CASE \A s \in ClientTabs : ~Accept(s)
  <2>1. ASSUME NEW j \in Jobs PROVE Tame(j)
    BY <1>2, TameStep DEF ContractInv
  <2>2. ContractPerOpening' /\ OpeningInv'
    BY <2>1 DEF Tame, Room, ContractPerOpening, OpeningInv
  <2>3. AcceptanceInv'
    <3> SUFFICES ASSUME NEW x \in ClientTabs, NEW j \in Jobs,
                        req'[x].op = "accepted", req'[x].job = j
                 PROVE  /\ req'[x].seenOpen => Room(j)'
                        /\ req'[x].stage = "job_locked" => req'[x].seenOpen
      BY DEF AcceptanceInv, Room
    <3>tame. Room(j) => Room(j)'
      BY <2>1 DEF Tame
    <3>1. CASE /\ req[x].op = "accepted"
               /\ req'[x].job = req[x].job
               /\ req'[x].seenOpen = req[x].seenOpen
               /\ req'[x].stage = "job_locked" =>
                    req[x].stage = "job_locked" \/ req[x].seenOpen
      <4>1. /\ req[x].seenOpen => Room(j)
            /\ req[x].stage = "job_locked" => req[x].seenOpen
        BY <3>1 DEF ContractInv, AcceptanceInv, Room
      <4> QED
        BY <3>1, <3>tame, <4>1
    <3>2. CASE /\ req'[x].stage = "loaded"
               /\ req'[x].seenOpen = (job[req'[x].job].status = "open")
      <4>1. req'[x].seenOpen => Room(j)
        BY <3>2 DEF ContractInv, OpeningInv, Room
      <4> QED
        BY <3>2, <3>tame, <4>1
    <3> QED
      BY <3>1, <3>2, SteadyStep DEF Steady, Sessions
  <2> QED
    BY <2>2, <2>3 DEF ContractInv
<1> QED
  BY <1>1, <1>2

---------------------------------------------------------------------------
(* Any number of requests of the client.                                   *)

LEMMA HoldersFinite ==
  ASSUME IsFiniteSet(ClientTabs), NEW j \in Jobs
  PROVE  /\ IsFiniteSet(Holders(j)) /\ IsFiniteSet(Holders(j)')
         /\ Cardinality(ClientTabs) \in Nat
         /\ Cardinality(Holders(j)) \in Nat /\ Cardinality(Holders(j)') \in Nat
         /\ Cardinality(Holders(j)) <= Cardinality(ClientTabs)
         /\ Cardinality(Holders(j)') <= Cardinality(ClientTabs)
<1>1. Holders(j) \subseteq ClientTabs /\ Holders(j)' \subseteq ClientTabs
  BY DEF Holders
<1> QED
  BY <1>1, FS_Subset, FS_CardinalityType

\* The products, in the cases a step can lead to.
LEMMA Products ==
  ASSUME NEW m \in Nat, NEW T \in Nat
  PROVE  /\ m * T \in Nat
         /\ (m + 1) * T = m * T + T
         /\ 1 * T = T /\ 0 * T = 0
  OBVIOUS

\* A job that is not open gains no holder.
LEMMA NoNewHolder ==
  ASSUME TypeOK, [Next]_vars, NEW j \in Jobs, job[j].status # "open"
  PROVE  Holders(j)' \subseteq Holders(j)
<1> SUFFICES ASSUME NEW x \in ClientTabs, req'[x].op = "accepted", req'[x].job = j,
                    req'[x].seenOpen
             PROVE  req[x].op = "accepted" /\ req[x].job = j /\ req[x].seenOpen
  BY DEF Holders
<1> QED
  BY SteadyStep DEF Steady, Sessions

\* A request that holds the job's lock saw it open.
LockedOpen == \A x \in ClientTabs : At(x, "accepted", "job_locked") => req[x].seenOpen

LEMMA LockedOpenStep ==
  ASSUME TypeOK, LockedOpen, [Next]_vars
  PROVE  LockedOpen'
<1> SUFFICES ASSUME NEW x \in ClientTabs, req'[x].op = "accepted",
                    req'[x].stage = "job_locked"
             PROVE  req'[x].seenOpen
  BY DEF LockedOpen, At
<1> QED
  BY SteadyStep DEF Steady, Sessions, LockedOpen, At

\* What the bound says of one job.
Spent(j) ==
  LET C == Cardinality(Contracted(j))
      T == Cardinality(ClientTabs)
  IN  /\ job[j].status = "none" => Contracted(j) = {}
      /\ IF job[j].status = "open" THEN C + T <= openings[j] * T
         ELSE C + Cardinality(Holders(j)) <= openings[j] * T

LEMMA HoldersSpend == HoldersInv <=> LockedOpen /\ \A j \in Jobs : Spent(j)
  BY DEF HoldersInv, LockedOpen, Spent

LEMMA HoldersSuffice ==
  ASSUME IsFiniteSet(ClientTabs), TypeOK, HoldersInv
  PROVE  ContractPerRequest
<1> SUFFICES ASSUME NEW j \in Jobs
             PROVE  Cardinality(Contracted(j)) <= openings[j] * Cardinality(ClientTabs)
  BY DEF ContractPerRequest
<1>1. Spent(j)
  BY HoldersSpend
<1>2. openings[j] \in Nat
  BY DEF TypeOK
<1>3. openings[j] * Cardinality(ClientTabs) \in Nat
  BY <1>2, HoldersFinite, Products
<1> QED
  BY <1>1, <1>3, HoldersFinite, ContractedFinite DEF Spent

\* A step without an acceptance.
LEMMA SpentKept ==
  ASSUME IsFiniteSet(ClientTabs), TypeOK, HandInv, [Next]_vars,
         \A s \in ClientTabs : ~Accept(s), NEW j \in Jobs, Spent(j)
  PROVE  Spent(j)'
<1>1. Moves(j)
  BY MovesStep
<1>2. Cardinality(Contracted(j)') <= Cardinality(Contracted(j))
  BY <1>1, ContractedFinite, FS_Subset DEF Moves
<1>3. job[j].status # "open" => Cardinality(Holders(j)') <= Cardinality(Holders(j))
  BY NoNewHolder, HoldersFinite, FS_Subset
<1>4. PICK T \in Nat : T = Cardinality(ClientTabs)
  BY HoldersFinite
<1>5. PICK m \in Nat : m = openings[j]
  BY DEF TypeOK
<1>6. m * T \in Nat /\ (m + 1) * T = m * T + T /\ 1 * T = T
  BY Products
<1> DEFINE p == m * T
<1>7. PICK C \in Nat, D \in Nat, H \in Nat, G \in Nat :
         /\ C = Cardinality(Contracted(j)) /\ D = Cardinality(Contracted(j)')
         /\ H = Cardinality(Holders(j)) /\ G = Cardinality(Holders(j)')
         /\ D <= C /\ H <= T /\ G <= T /\ (job[j].status # "open" => G <= H)
  BY <1>2, <1>3, <1>4, ContractedFinite, HoldersFinite
<1>8. /\ job[j].status = "none" => C = 0
      /\ IF job[j].status = "open" THEN C + T <= p ELSE C + H <= p
  BY <1>4, <1>5, <1>7, FS_EmptySet DEF Spent
<1> DEFINE q == openings'[j] * T
<1>9. \/ q = p /\ (job'[j].status = "open" => job[j].status = "open")
      \/ q = p + T /\ job[j].status # "open" /\ job'[j].status = "open"
      \/ q = T /\ job[j].status = "none" /\ job'[j].status = "open"
  BY <1>1, <1>5, <1>6 DEF Moves
<1>10. p \in Nat
  BY <1>6
<1> HIDE DEF p, q
<1>11. IF job'[j].status = "open" THEN D + T <= q ELSE D + G <= q
  BY <1>7, <1>8, <1>9, <1>10
<1>12. job'[j].status = "none" => Contracted(j)' = {}
  BY <1>1 DEF Moves, Spent
<1> QED
  BY <1>4, <1>7, <1>11, <1>12 DEF Spent, q

\* An acceptance: its request spends what it holds.
LEMMA SpentAccepted ==
  ASSUME IsFiniteSet(ClientTabs), TypeOK, HandInv, LockedOpen, [Next]_vars,
         NEW s \in ClientTabs, Accept(s), NEW j \in Jobs, Spent(j)
  PROVE  Spent(j)'
<1>1. PICK i \in Jobs, f \in Freelancers : i = req[s].job /\ f = req[s].freelancer
  BY DEF Accept, At, HandInv, Sessions
<1>2. <<i, f>> \in Bids /\ Bid(s) = <<i, f>>
  BY <1>1 DEF Bids, Bid
<1>3. CASE j # i
  <2>1. Contracted(j)' = Contracted(j) /\ job'[j] = job[j] /\ openings'[j] = openings[j]
    BY <1>1, <1>2, <1>3 DEF Accept, Contracted, TypeOK, Bids
  <2>2. job[j].status # "open" => Cardinality(Holders(j)') <= Cardinality(Holders(j))
    BY NoNewHolder, HoldersFinite, FS_Subset
  <2> DEFINE p == openings[j] * Cardinality(ClientTabs)
  <2>3. p \in Nat /\ p' = p
    <3>1. openings[j] \in Nat
      BY DEF TypeOK
    <3> QED
      BY <2>1, <3>1, HoldersFinite, Products
  <2>4. IF job[j].status = "open" THEN Cardinality(Contracted(j)) + Cardinality(ClientTabs) <= p
        ELSE Cardinality(Contracted(j)) + Cardinality(Holders(j)) <= p
    BY DEF Spent
  <2> HIDE DEF p
  <2>5. IF job'[j].status = "open"
        THEN Cardinality(Contracted(j)') + Cardinality(ClientTabs) <= p'
        ELSE Cardinality(Contracted(j)') + Cardinality(Holders(j)') <= p'
    BY <2>1, <2>2, <2>3, <2>4, HoldersFinite, ContractedFinite
  <2>6. job'[j].status = "none" => Contracted(j)' = {}
    BY <2>1 DEF Spent
  <2> QED
    BY <2>5, <2>6 DEF Spent, p
<1>4. CASE j = i
  <2>1. /\ contract[<<i, f>>] = "none"
        /\ contract' = [contract EXCEPT ![<<i, f>>] = "active"]
    BY <1>2 DEF Accept
  <2>2. \A g \in Freelancers : <<i, g>> \in Bids
    BY DEF Bids
  <2>3. /\ contract'[<<i, f>>] = "active"
        /\ \A g \in Freelancers \ {f} : contract'[<<i, g>>] = contract[<<i, g>>]
    BY <2>1, <2>2 DEF TypeOK
  <2>4. f \notin Contracted(j) /\ Contracted(j)' = Contracted(j) \cup {f}
    BY <1>4, <2>1, <2>3 DEF Contracted
  <2>5. Cardinality(Contracted(j)') = Cardinality(Contracted(j)) + 1
    BY <2>4, ContractedFinite, FS_AddElement
  <2>6. job'[j].status = "in_progress" /\ openings'[j] = openings[j]
    BY <1>1, <1>4 DEF Accept, TypeOK, JobRow
  <2>7. s \in Holders(j)
    BY <1>1, <1>4 DEF Holders, LockedOpen, At, Accept
  <2>8. s \notin Holders(j)'
    BY EndType DEF Holders, Accept, Idle, Sessions
  <2>9. Cardinality(Holders(j)') + 1 <= Cardinality(ClientTabs)
    <3>1. Holders(j)' \subseteq ClientTabs \ {s} /\ IsFiniteSet(ClientTabs \ {s})
      BY <2>8, FS_RemoveElement DEF Holders
    <3>2. Cardinality(ClientTabs \ {s}) = Cardinality(ClientTabs) - 1
      BY FS_RemoveElement
    <3>3. Cardinality(Holders(j)') <= Cardinality(ClientTabs \ {s})
      BY <3>1, FS_Subset
    <3> QED
      BY <3>2, <3>3, HoldersFinite
  <2>10. job[j].status # "open" => Cardinality(Holders(j)') + 1 <= Cardinality(Holders(j))
    <3> SUFFICES ASSUME job[j].status # "open"
                 PROVE  Cardinality(Holders(j)') + 1 <= Cardinality(Holders(j))
      OBVIOUS
    <3>1. Holders(j)' \subseteq Holders(j) \ {s} /\ IsFiniteSet(Holders(j) \ {s})
      BY <2>8, NoNewHolder, HoldersFinite, FS_RemoveElement
    <3>2. Cardinality(Holders(j) \ {s}) = Cardinality(Holders(j)) - 1
      BY <2>7, HoldersFinite, FS_RemoveElement
    <3>3. Cardinality(Holders(j)') <= Cardinality(Holders(j) \ {s})
      BY <3>1, FS_Subset
    <3> QED
      BY <3>2, <3>3, HoldersFinite
  <2> DEFINE p == openings[j] * Cardinality(ClientTabs)
  <2>11. p \in Nat /\ p' = p
    <3>1. openings[j] \in Nat
      BY DEF TypeOK
    <3> QED
      BY <2>6, <3>1, HoldersFinite, Products
  <2>12. IF job[j].status = "open"
         THEN Cardinality(Contracted(j)) + Cardinality(ClientTabs) <= p
         ELSE Cardinality(Contracted(j)) + Cardinality(Holders(j)) <= p
    BY DEF Spent
  <2> HIDE DEF p
  <2>13. Cardinality(Contracted(j)') + Cardinality(Holders(j)') <= p'
    BY <2>5, <2>9, <2>10, <2>11, <2>12, HoldersFinite, ContractedFinite
  <2> QED
    BY <2>6, <2>13 DEF Spent, p
<1> QED
  BY <1>3, <1>4

LEMMA HoldersStep ==
  ASSUME IsFiniteSet(ClientTabs)
  PROVE  TypeOK /\ HandInv /\ HoldersInv /\ [Next]_vars => HoldersInv'
<1> SUFFICES ASSUME TypeOK, HandInv, HoldersInv, [Next]_vars PROVE HoldersInv'
  OBVIOUS
<1>1. LockedOpen /\ \A j \in Jobs : Spent(j)
  BY HoldersSpend
<1>2. LockedOpen'
  BY <1>1, LockedOpenStep
<1>3. ASSUME NEW j \in Jobs PROVE Spent(j)'
  <2>1. CASE \E s \in ClientTabs : Accept(s)
    BY <1>1, <2>1, SpentAccepted
  <2>2. CASE \A s \in ClientTabs : ~Accept(s)
    BY <1>1, <2>2, SpentKept
  <2> QED
    BY <2>1, <2>2
<1> QED
  BY <1>2, <1>3 DEF HoldersInv, LockedOpen, Spent

LEMMA HoldersBegin ==
  ASSUME IsFiniteSet(ClientTabs), Init
  PROVE  HoldersInv
<1>1. ASSUME NEW j \in Jobs
      PROVE  /\ Contracted(j) = {} /\ Cardinality(Contracted(j)) = 0
             /\ Holders(j) = {} /\ Cardinality(Holders(j)) = 0
             /\ job[j].status = "none" /\ openings[j] = 0
  <2>1. Contracted(j) = {} /\ Holders(j) = {}
    BY DEF Init, Contracted, Holders, Bids, Idle, Sessions
  <2> QED
    BY <2>1, FS_EmptySet DEF Init
<1>2. 0 * Cardinality(ClientTabs) = 0
  BY FS_CardinalityType, Products
<1>3. ASSUME NEW j \in Jobs PROVE Spent(j)
  BY <1>1, <1>2, <1>3 DEF Spent
<1>4. LockedOpen
  BY DEF Init, LockedOpen, At, Idle, Sessions
<1> QED
  BY <1>3, <1>4, HoldersSpend

---------------------------------------------------------------------------
(* The theorems.                                                           *)

LEMMA InitInv == Init => TypeOK /\ HandInv /\ CountNotOverstated /\ ContractInv
<1> SUFFICES ASSUME Init
             PROVE  TypeOK /\ HandInv /\ CountNotOverstated /\ ContractInv
  OBVIOUS
<1>1. TypeOK
  BY DEF Init, TypeOK, JobRow, Request, Idle, Ops, Stages
<1>2. HandInv /\ AcceptanceInv
  BY DEF Init, Idle, HandInv, AcceptanceInv, Sessions
<1>3. ASSUME NEW j \in Jobs
      PROVE  /\ Contracted(j) = {} /\ Cardinality(Contracted(j)) = 0
             /\ job[j].status = "none" /\ job[j].count = 0 /\ openings[j] = 0
             /\ Live(j) = {} /\ Cardinality(Live(j)) = 0
  <2>1. Contracted(j) = {} /\ Live(j) = {}
    BY DEF Init, Contracted, Live, Bids
  <2> QED
    BY <2>1, FS_EmptySet DEF Init
<1> QED
  BY <1>1, <1>2, <1>3
     DEF CountNotOverstated, ContractInv, ContractPerOpening, OpeningInv

\* Rows, locks and requests have their types in every reachable state,
\* for any number of jobs, freelancers and requests.
THEOREM TypeCorrect == Spec => []TypeOK
<1>1. Init => TypeOK /\ HandInv
  BY InitInv
<1>2. TypeOK /\ HandInv /\ [Next]_vars => (TypeOK /\ HandInv)'
  BY TypeStep, HandStep
<1> QED
  BY <1>1, <1>2, PTL DEF Spec

\* proposal_count never exceeds the proposals that are there and not
\* withdrawn, although submit_proposal and withdraw_proposal test their rows
\* without a lock: the increments and decrements are made by the database.
THEOREM CountsAreBacked == Spec => []CountNotOverstated
<1>1. Init => TypeOK /\ HandInv /\ CountNotOverstated
  BY InitInv
<1>2. TypeOK /\ HandInv /\ CountNotOverstated /\ [Next]_vars
        => (TypeOK /\ HandInv /\ CountNotOverstated)'
  BY TypeStep, HandStep, CountStep
<1> QED
  BY <1>1, <1>2, PTL DEF Spec

\* However many requests the client has in flight, a job is given away at most
\* once per opening and request, whatever the freelancers and the administrator
\* do meanwhile: every request accepts once of what it loaded as open.  With one
\* request at a time this is once per opening, ContractPerOpening; with more the
\* lock of respond_to_proposal, which shows a request the job it had loaded
\* before, does not bring that about.
THEOREM RequestsGiveOnce ==
  ASSUME IsFiniteSet(ClientTabs)
  PROVE  Spec => []ContractPerRequest
<1>1. Init => TypeOK /\ HandInv /\ HoldersInv
  BY InitInv, HoldersBegin
<1>2. TypeOK /\ HandInv /\ HoldersInv /\ [Next]_vars => (TypeOK /\ HandInv /\ HoldersInv)'
  BY TypeStep, HandStep, HoldersStep
<1>3. TypeOK /\ HoldersInv => ContractPerRequest
  BY HoldersSuffice
<1> QED
  BY <1>1, <1>2, <1>3, PTL DEF Spec

\* Requests do not overlap: the bound is the one the run checks.
COROLLARY OneContract ==
  ASSUME Cardinality(ClientTabs) = 1, IsFiniteSet(ClientTabs)
  PROVE  Spec => []ContractPerOpening
<1>1. Init => TypeOK /\ HandInv
  BY InitInv
<1>2. TypeOK /\ HandInv /\ [Next]_vars => (TypeOK /\ HandInv)'
  BY TypeStep, HandStep
<1>3. TypeOK /\ ContractPerRequest => ContractPerOpening
  <2>1. ASSUME TypeOK, NEW j \in Jobs PROVE openings[j] * Cardinality(ClientTabs) = openings[j]
    BY <2>1 DEF TypeOK
  <2> QED
    BY <2>1 DEF ContractPerRequest, ContractPerOpening
<1> QED
  BY <1>1, <1>2, <1>3, RequestsGiveOnce, PTL DEF Spec

---------------------------------------------------------------------------
(* What the client's request has found, for one request at a time.         *)

\* The proposal of a request of either side but closing and deleting.
LEMMA BidOfRequest ==
  ASSUME HandInv, NEW s \in Sessions, req[s].op \notin {"none", "close", "delete"}
  PROVE  /\ Bid(s) = <<req[s].job, req[s].freelancer>>
         /\ Bid(s) \in Bids /\ Bid(s) \in BidsOn(req[s].job)
         /\ req[s].job \in Jobs
  BY DEF HandInv, Bid, Bids, BidsOn

\* A step of somebody else who creates no contract, rejects nothing, and leaves a
\* locked job's proposals decided.
LEMMA HandKept ==
  ASSUME TypeOK, HandInv, NEW x \in ClientTabs, ClientHand(x), req'[x] = req[x],
         \A b \in Bids : /\ contract[b] = "none" => contract'[b] = "none"
                         /\ proposal'[b] = "rejected" => proposal[b] = "rejected",
         \A j \in Jobs : jobLock[j] = x =>
            /\ jobLock'[j] = x
            /\ \A b \in BidsOn(j) : proposal'[b] \in Undecided => proposal[b] \in Undecided
  PROVE  ClientHand(x)'
<1>0. x \in Sessions
  BY DEF Sessions
<1>1. At(x, "delete", "childless")' =>
         \A f \in Freelancers : contract'[<<req'[x].job, f>>] = "none"
  BY <1>0 DEF ClientHand, At, HandInv, Bids
<1>2. req'[x].op \in Answers => proposal'[Bid(x)'] # "rejected"
  <2>1. Bid(x)' = Bid(x)
    BY DEF Bid
  <2> QED
    BY <1>0, <2>1, BidOfRequest DEF ClientHand, Answers
<1>3. At(x, "accepted", "job_locked")' =>
         /\ jobLock'[req'[x].job] = x
         /\ \A b \in BidsOn(req'[x].job) \ {Bid(x)'} :
               proposal'[b] \in Undecided => b \in req'[x].others
  <2>1. Bid(x)' = Bid(x) /\ At(x, "accepted", "job_locked")' = At(x, "accepted", "job_locked")
    BY DEF Bid, At
  <2>2. ASSUME At(x, "accepted", "job_locked")
        PROVE  /\ req[x].job \in Jobs /\ jobLock[req[x].job] = x
               /\ \A b \in BidsOn(req[x].job) \ {Bid(x)} :
                     proposal[b] \in Undecided => b \in req[x].others
    BY <1>0, <2>2, BidOfRequest DEF ClientHand, At
  <2> QED
    BY <2>1, <2>2
<1> QED
  BY <1>1, <1>2, <1>3 DEF ClientHand

\* Nothing is asked of a request that is over.
LEMMA HandOver ==
  ASSUME TypeOK, NEW x \in ClientTabs, End(x)
  PROVE  ClientHand(x)'
<1>1. req'[x] = Idle
  BY EndType DEF Sessions
<1> QED
  BY <1>1 DEF ClientHand, At, Idle, Answers

\* Nor of one that has just loaded what it may answer.
LEMMA HandBegins ==
  ASSUME TypeOK, NEW x \in ClientTabs, NEW op \in Ops, NEW j \in Jobs,
         NEW f \in Freelancers \cup {"nobody"}, Begin(x, op, j, f),
         op \in Answers => proposal[<<j, f>>] # "rejected", UNCHANGED proposal
  PROVE  ClientHand(x)'
<1>0. x \in Sessions
  BY DEF Sessions
<1>a. req'[x] = [op |-> op, stage |-> "loaded", job |-> j, freelancer |-> f,
                 seenOpen |-> job[j].status = "open", others |-> {}]
  BY <1>0, BeginType
<1>1. req'[x].op = op /\ req'[x].stage = "loaded" /\ req'[x].job = j /\ req'[x].freelancer = f
  BY <1>a
<1>2. Bid(x)' = <<j, f>>
  BY <1>1 DEF Bid
<1>3. ~At(x, "delete", "childless")' /\ ~At(x, "accepted", "job_locked")'
  BY <1>1 DEF At
<1> QED
  BY <1>1, <1>2, <1>3 DEF ClientHand

\* The client's one request keeps what it has found.
LEMMA OwnHandStep ==
  ASSUME TypeOK, HandInv, NEW x \in ClientTabs, ClientHand(x), ClientStep(x)
  PROVE  ClientHand(x)'
<1>0. x \in Sessions
  BY DEF Sessions
<1>1. ASSUME NEW j \in Jobs, LoadClose(x, j) \/ LoadDelete(x, j) PROVE ClientHand(x)'
  <2>1. UNCHANGED proposal
    BY <1>1 DEF LoadClose, LoadDelete, Data
  <2>2. Begin(x, "close", j, "nobody") \/ Begin(x, "delete", j, "nobody")
    BY <1>1 DEF LoadClose, LoadDelete
  <2> QED
    BY <2>1, <2>2, HandBegins DEF Ops, Answers
<1>2. ASSUME NEW j \in Jobs, NEW f \in Freelancers, NEW answer \in Answers,
             LoadRespond(x, j, f, answer)
      PROVE  ClientHand(x)'
  <2>1. UNCHANGED proposal /\ proposal[<<j, f>>] # "rejected" /\ Begin(x, answer, j, f)
    BY <1>2 DEF LoadRespond, Data, MayAnswer, Undecided
  <2> QED
    BY <2>1, HandBegins DEF Ops
<1>3. ASSUME CloseJob(x) \/ DeleteJob(x) \/ Respond(x) \/ Accept(x) PROVE ClientHand(x)'
  BY <1>3, HandOver DEF CloseJob, DeleteJob, Respond, Accept
<1>4. ASSUME FindNoChild(x) PROVE ClientHand(x)'
  <2>1. /\ req'[x] = [req[x] EXCEPT !.stage = "childless"]
        /\ req'[x].op = "delete" /\ req'[x].job = req[x].job
    <3>1. req[x] \in Request /\ Go(x, "childless") /\ req[x].op = "delete"
      BY <1>0, <1>4 DEF TypeOK, FindNoChild, At
    <3>2. req'[x] = [req[x] EXCEPT !.stage = "childless"]
      BY <1>0, <3>1, GoType DEF Stages
    <3> QED
      BY <3>1, <3>2 DEF Request
  <2>2. \A f \in Freelancers : contract[<<req[x].job, f>>] = "none"
    BY <1>4 DEF FindNoChild, Childless, BidsOn
  <2>3. UNCHANGED contract
    BY <1>4 DEF FindNoChild, Data
  <2>4. \A f \in Freelancers : contract'[<<req'[x].job, f>>] = "none"
    BY <2>1, <2>2, <2>3
  <2>5. ~At(x, "accepted", "job_locked")' /\ req'[x].op \notin Answers
    BY <2>1 DEF At, Answers
  <2> QED
    BY <2>4, <2>5 DEF ClientHand
<1>5. ASSUME FlushProposal(x) PROVE ClientHand(x)'
  <2>1. /\ req'[x].stage = "row_locked" /\ req'[x].op = req[x].op
        /\ req'[x].job = req[x].job /\ req'[x].freelancer = req[x].freelancer
    <3>1. req[x] \in Request /\ Go(x, "row_locked")
      BY <1>0, <1>5 DEF TypeOK, FlushProposal
    <3>2. req'[x] = [req[x] EXCEPT !.stage = "row_locked"]
      BY <1>0, <3>1, GoType DEF Stages
    <3> QED
      BY <3>1, <3>2 DEF Request
  <2>2. UNCHANGED proposal
    BY <1>5 DEF FlushProposal, Data
  <2>3. Bid(x)' = Bid(x)
    BY <2>1 DEF Bid
  <2>4. ~At(x, "delete", "childless")' /\ ~At(x, "accepted", "job_locked")'
    BY <2>1 DEF At
  <2>5. req'[x].op \in Answers => proposal'[Bid(x)'] # "rejected"
    BY <2>1, <2>2, <2>3 DEF ClientHand
  <2> QED
    BY <2>4, <2>5 DEF ClientHand
<1>6. ASSUME LockJob(x) PROVE ClientHand(x)'
  <2>0. req[x] \in Request
    BY <1>0 DEF TypeOK
  <2>1. /\ req'[x].stage = "job_locked" /\ req'[x].op = "accepted"
        /\ req'[x].job = req[x].job /\ req'[x].freelancer = req[x].freelancer
        /\ req'[x].others = Losers(x)
    BY <1>0, <1>6, <2>0 DEF LockJob, At, TypeOK, Request
  <2>2. req[x].job \in Jobs /\ req[x].op = "accepted"
    BY <1>0, <1>6 DEF LockJob, At, HandInv
  <2>3. UNCHANGED proposal /\ jobLock'[req[x].job] = x
    BY <1>6, <2>2 DEF LockJob, Data, TypeOK
  <2>4. Bid(x)' = Bid(x)
    BY <2>1 DEF Bid
  <2>5. proposal[Bid(x)] # "rejected"
    BY <2>2 DEF ClientHand, Answers
  <2>6. \A b \in BidsOn(req[x].job) \ {Bid(x)} : proposal[b] \in Undecided => b \in Losers(x)
    BY DEF Losers
  <2> QED
    BY <2>1, <2>3, <2>4, <2>5, <2>6 DEF ClientHand, At
<1> QED
  BY <1>1, <1>2, <1>3, <1>4, <1>5, <1>6 DEF ClientStep

\* So does everybody else's step.
LEMMA OthersHandStep ==
  ASSUME TypeOK, HandInv, NEW x \in ClientTabs, ClientHand(x), [Next]_vars,
         ~ClientStep(x), \A s \in ClientTabs : s = x
  PROVE  ClientHand(x)'
<1>0. x \in Sessions /\ x # NoTab
  BY SessionAssumption DEF Sessions
<1>1. ASSUME req'[x] = req[x], UNCHANGED <<contract, proposal, jobLock>> PROVE ClientHand(x)'
  BY <1>1, HandKept
<1>2. ASSUME NEW s \in Sessions \ {x}, End(s)
      PROVE  /\ req'[x] = req[x]
             /\ \A j \in Jobs : jobLock[j] = x => jobLock'[j] = x
  BY <1>0, <1>2, EndType DEF End, TypeOK
<1>3. ASSUME NEW s \in Tabs, FreelancerStep(s) PROVE ClientHand(x)'
  <2>0. s \in Sessions
    BY DEF Sessions
  <2>1. ASSUME NEW j \in Jobs, NEW f \in Freelancers, LoadSubmit(s, j, f) \/ LoadWithdraw(s, j, f)
        PROVE  ClientHand(x)'
    <3>1. UNCHANGED <<contract, proposal, jobLock>>
      BY <2>1 DEF LoadSubmit, LoadWithdraw, Data, Locks
    <3>2. Begin(s, "submit", j, f) \/ Begin(s, "withdraw", j, f)
      BY <2>1 DEF LoadSubmit, LoadWithdraw
    <3>3. CASE s = x
      BY <3>1, <3>2, <3>3, HandBegins DEF Ops, Answers
    <3>4. CASE s # x
      <4>1. req'[x] = req[x]
        BY <1>0, <2>0, <3>2, <3>4, BeginType DEF Ops
      <4> QED
        BY <1>1, <3>1, <4>1
    <3> QED
      BY <3>3, <3>4
  <2>2. ASSUME Submit(s), s # x PROVE ClientHand(x)'
    <3>1. req[s].op = "submit" /\ req[s].job \in Jobs /\ Bid(s) \in BidsOn(req[s].job)
      BY <2>0, <2>2, BidOfRequest DEF Submit, At
    <3>2. proposal' = [proposal EXCEPT ![Bid(s)] = "pending"] /\ UNCHANGED contract
      BY <2>2 DEF Submit
    <3>3. jobLock[req[s].job] = NoTab
      BY <2>2 DEF Submit, JobFree
    <3>4. \A b \in Bids : proposal'[b] = IF b = Bid(s) THEN "pending" ELSE proposal[b]
      BY <3>2 DEF TypeOK
    <3>5. \A j \in Jobs : jobLock[j] = x =>
             \A b \in BidsOn(j) : proposal'[b] = proposal[b]
      BY <1>0, <3>1, <3>3, <3>4 DEF BidsOn, Bids
    <3>6. End(s)
      BY <2>2 DEF Submit
    <3> QED
      BY <1>2, <2>0, <2>2, <3>2, <3>4, <3>5, <3>6, HandKept
  <2>3. ASSUME Withdraw(s), s # x PROVE ClientHand(x)'
    <3>1. /\ proposal' = [proposal EXCEPT ![Bid(s)] = "withdrawn"]
          /\ UNCHANGED contract /\ End(s)
      BY <2>3 DEF Withdraw
    <3>2. \A b \in Bids : proposal'[b] = IF b = Bid(s) THEN "withdrawn" ELSE proposal[b]
      BY <3>1 DEF TypeOK
    <3>3. \A j \in Jobs : \A b \in BidsOn(j) : proposal'[b] \in {proposal[b], "withdrawn"}
      BY <3>2 DEF BidsOn, Bids
    <3> QED
      BY <1>2, <2>0, <2>3, <3>1, <3>2, <3>3, HandKept DEF Undecided
  <2>4. ASSUME Submit(s) \/ Withdraw(s), s = x PROVE ClientHand(x)'
    BY <2>4, HandOver DEF Submit, Withdraw
  <2>5. ASSUME FlushProposal(s) PROVE ClientHand(x)'
    <3>1. s # x
      BY <2>5 DEF ClientStep
    <3>2. req'[x] = req[x]
      BY <1>0, <2>0, <2>5, <3>1, GoType DEF FlushProposal, Stages
    <3>3. UNCHANGED <<contract, proposal, jobLock>>
      BY <2>5 DEF FlushProposal, Data
    <3> QED
      BY <1>1, <3>2, <3>3
  <2> QED
    BY <1>3, <2>1, <2>2, <2>3, <2>4, <2>5 DEF FreelancerStep
<1>4. ASSUME NEW s \in Sessions, Rollback(s) PROVE ClientHand(x)'
  <2>1. CASE s = x
    BY <1>4, <2>1, HandOver DEF Rollback
  <2>2. CASE s # x
    <3>1. UNCHANGED <<contract, proposal>> /\ End(s)
      BY <1>4 DEF Rollback, Data
    <3> QED
      BY <1>2, <2>2, <3>1, HandKept
  <2> QED
    BY <2>1, <2>2
<1>5. ASSUME NEW j \in Jobs, NEW f \in Freelancers, CompleteContract(j, f)
      PROVE  ClientHand(x)'
  <2>1. \A b \in Bids : contract[b] = "none" => contract'[b] = "none"
    BY <1>5 DEF CompleteContract, TypeOK, Bids
  <2>2. UNCHANGED <<proposal, jobLock, req>>
    BY <1>5 DEF CompleteContract, Locks
  <2> QED
    BY <2>1, <2>2, HandKept
<1> QED
  BY <1>1, <1>3, <1>4, <1>5
     DEF Next, CreateJob, SetStatus, Locks, vars

\* With one request of the client at a time, what it has found is still so.
LEMMA ClientHandStep ==
  ASSUME \A s, t \in ClientTabs : s = t, TypeOK, HandInv, ClientHandsHold, [Next]_vars
  PROVE  ClientHandsHold'
<1> SUFFICES ASSUME NEW x \in ClientTabs PROVE ClientHand(x)'
  BY DEF ClientHandsHold
<1>1. ClientHand(x) /\ \A s \in ClientTabs : s = x
  BY DEF ClientHandsHold
<1> QED
  BY <1>1, OwnHandStep, OthersHandStep

\* The invariant of the marketplace's jobs, for one request of the client.
LEMMA JobsStep ==
  ASSUME \A s, t \in ClientTabs : s = t
  PROVE  IInv /\ [Next]_vars => IInv'
<1> SUFFICES ASSUME IInv, [Next]_vars PROVE IInv'
  OBVIOUS
<1>1. TypeOK /\ HandInv /\ CountNotOverstated /\ ContractInv /\ ClientHandsHold
  BY DEF IInv
<1>2. TypeOK' /\ HandInv' /\ CountNotOverstated'
  BY <1>1, TypeStep, HandStep, CountStep
<1>3. ContractInv' /\ ClientHandsHold'
  BY <1>1, ContractStep, ClientHandStep
<1> QED
  BY <1>2, <1>3 DEF IInv

LEMMA JobsBegin == Init => IInv
<1> SUFFICES ASSUME Init PROVE IInv
  OBVIOUS
<1>1. ClientHandsHold
  BY DEF Init, ClientHandsHold, ClientHand, At, Idle, Sessions, Answers
<1> QED
  BY <1>1, InitInv DEF IInv

\* Contracts are not deleted with their job: delete_job's cascade finds none.
THEOREM ContractsAreKept ==
  ASSUME \A s, t \in ClientTabs : s = t
  PROVE  Spec => ContractsSurvive
<1>1. IInv /\ [Next]_vars =>
        [\A b \in Bids : contract[b] # "none" => contract'[b] # "none"]_vars
  <2> SUFFICES ASSUME TypeOK, HandInv, ClientHandsHold, [Next]_vars,
                      NEW b \in Bids, contract[b] # "none"
               PROVE  contract'[b] # "none"
    BY DEF IInv
  <2>1. ASSUME NEW s \in ClientTabs, DeleteJob(s) PROVE contract'[b] # "none"
    <3>1. \A f \in Freelancers : contract[<<req[s].job, f>>] = "none"
      BY <2>1 DEF DeleteJob, ClientHandsHold, ClientHand
    <3>2. b \notin BidsOn(req[s].job)
      BY <3>1 DEF BidsOn
    <3> QED
      BY <2>1, <3>2 DEF DeleteJob
  <2>2. ASSUME NEW s \in ClientTabs, Accept(s) PROVE contract'[b] # "none"
    BY <2>2 DEF Accept, TypeOK
  <2>3. ASSUME NEW j \in Jobs, NEW f \in Freelancers, CompleteContract(j, f)
        PROVE  contract'[b] # "none"
    BY <2>3 DEF CompleteContract, TypeOK
  <2> QED
    BY <2>1, <2>2, <2>3
       DEF Next, ClientStep, FreelancerStep, CreateJob, LoadClose, LoadDelete, LoadRespond,
           CloseJob, FindNoChild, Respond, FlushProposal, LockJob, LoadSubmit, LoadWithdraw,
           Submit, Withdraw, Rollback, SetStatus, Data, vars
<1>2. Init => IInv
  BY JobsBegin
<1>3. IInv /\ [Next]_vars => IInv'
  BY JobsStep
<1> QED
  BY <1>1, <1>2, <1>3, PTL DEF Spec, ContractsSurvive

\* A rejection stands until the freelancer withdraws or the job is deleted:
\* respond_to_proposal overwrites no rejection.
THEOREM RejectionsStand ==
  ASSUME \A s, t \in ClientTabs : s = t
  PROVE  Spec => RejectionStands
<1>1. IInv /\ [Next]_vars =>
        [\A b \in Bids : proposal[b] = "rejected"
            => proposal'[b] \in {"rejected", "withdrawn", "none"}]_vars
  <2> SUFFICES ASSUME TypeOK, HandInv, ClientHandsHold, [Next]_vars,
                      NEW b \in Bids, proposal[b] = "rejected"
               PROVE  proposal'[b] \in {"rejected", "withdrawn", "none"}
    BY DEF IInv
  <2>1. ASSUME NEW s \in ClientTabs, DeleteJob(s)
        PROVE  proposal'[b] \in {"rejected", "withdrawn", "none"}
    BY <2>1 DEF DeleteJob
  <2>2. ASSUME NEW s \in ClientTabs, Accept(s)
        PROVE  proposal'[b] \in {"rejected", "withdrawn", "none"}
    <3>1. b # Bid(s)
      BY <2>2 DEF Accept, At, Answers, ClientHandsHold, ClientHand
    <3> QED
      BY <2>2, <3>1 DEF Accept
  <2>3. ASSUME NEW s \in ClientTabs, Respond(s)
        PROVE  proposal'[b] \in {"rejected", "withdrawn", "none"}
    <3>1. b # Bid(s)
      BY <2>3 DEF Respond, Answers, ClientHandsHold, ClientHand
    <3> QED
      BY <2>3, <3>1 DEF Respond, TypeOK
  <2>4. ASSUME NEW s \in Tabs, Submit(s) \/ Withdraw(s)
        PROVE  proposal'[b] \in {"rejected", "withdrawn", "none"}
    BY <2>4 DEF Submit, Withdraw, TypeOK
  <2> QED
    BY <2>1, <2>2, <2>3, <2>4
       DEF Next, ClientStep, FreelancerStep, CreateJob, LoadClose, LoadDelete, LoadRespond,
           CloseJob, FindNoChild, FlushProposal, LockJob, LoadSubmit, LoadWithdraw,
           Rollback, SetStatus, CompleteContract, Data, vars
<1>2. Init => IInv
  BY JobsBegin
<1>3. IInv /\ [Next]_vars => IInv'
  BY JobsStep
<1> QED
  BY <1>1, <1>2, <1>3, PTL DEF Spec, RejectionStands

\* An acceptance leaves no proposal of its job undecided: the lock on the job
\* keeps new ones out between the SELECT of the others and the commit.
THEOREM AcceptancesDecideAll ==
  ASSUME \A s, t \in ClientTabs : s = t
  PROVE  Spec => AcceptanceDecidesAll
<1>1. IInv /\ [Next]_vars =>
        [\A b \in Bids : contract[b] = "none" /\ contract'[b] = "active"
            => \A c \in BidsOn(b[1]) : proposal'[c] \notin Undecided]_vars
  <2> SUFFICES ASSUME TypeOK, HandInv, ClientHandsHold, [Next]_vars,
                      NEW b \in Bids, contract[b] = "none", contract'[b] = "active",
                      NEW c \in BidsOn(b[1])
               PROVE  proposal'[c] \notin Undecided
    BY DEF IInv
  <2>1. ASSUME NEW s \in ClientTabs, DeleteJob(s) PROVE contract'[b] # "active"
    BY <2>1 DEF DeleteJob
  <2>2. ASSUME NEW j \in Jobs, NEW f \in Freelancers, CompleteContract(j, f)
        PROVE  contract'[b] # "active"
    BY <2>2 DEF CompleteContract, TypeOK
  <2>3. ASSUME NEW s \in ClientTabs, Accept(s) PROVE proposal'[c] \notin Undecided
    <3>0. s \in Sessions
      BY DEF Sessions
    <3>1. b = Bid(s)
      BY <2>3 DEF Accept, TypeOK
    <3>2. b[1] = req[s].job /\ c \in Bids
      BY <3>1 DEF Bid, Bids, BidsOn
    <3>3. \A d \in BidsOn(req[s].job) \ {Bid(s)} :
             proposal[d] \in Undecided => d \in req[s].others
      BY <2>3 DEF Accept, ClientHandsHold, ClientHand
    <3>4. proposal'[c] = IF c = Bid(s) THEN "accepted"
                         ELSE IF c \in req[s].others THEN "rejected" ELSE proposal[c]
      BY <2>3, <3>2 DEF Accept
    <3> QED
      BY <3>2, <3>3, <3>4 DEF Undecided
  <2> QED
    BY <2>1, <2>2, <2>3
       DEF Next, ClientStep, FreelancerStep, CreateJob, LoadClose, LoadDelete, LoadRespond,
           CloseJob, FindNoChild, Respond, FlushProposal, LockJob, LoadSubmit, LoadWithdraw,
           Submit, Withdraw, Rollback, SetStatus, Data, vars
<1>2. Init => IInv
  BY JobsBegin
<1>3. IInv /\ [Next]_vars => IInv'
  BY JobsStep
<1> QED
  BY <1>1, <1>2, <1>3, PTL DEF Spec, AcceptanceDecidesAll

---------------------------------------------------------------------------
(* Buyer requests.                                                         *)

---------------------------------------------------------------------------
(* The inductive invariant: what the requests in hand have read is still so, *)
(* so that an acceptance finds no other acceptance to follow.                *)

Alone == \A c, d \in ClientCalls : c = d

\* OneDeal, of one buyer request.
Deal(q) == IF buyerReq[q] = "filled" THEN \E o \in Offers : Accepted(q) = {o}
           ELSE Accepted(q) = {}

\* CallsHold, of one request in hand, and the rows it has loaded.
Holds(c) ==
  LET k == clientCall[c] IN
  /\ k.op \in {"cancel", "accept"} =>
        k.req \in BuyerReqs /\ buyerReq[k.req] \in {"open", "expired"}
  /\ k.op \in {"accept", "reject"} =>
        /\ k.offer \in Offers
        /\ offer[k.offer].status = "pending" /\ offer[k.offer].of = k.req

Loaded == \A b \in BidderCalls : sending[b] # NotSending => sending[b].req \in BuyerReqs
                                                        /\ sending[b].from \in Bidders

DealInv ==
  /\ RequestsTypeOK
  /\ Loaded
  /\ Alone => (\A q \in BuyerReqs : Deal(q)) /\ (\A c \in ClientCalls : Holds(c))

---------------------------------------------------------------------------
(* Types.                                                                  *)

\* The end of a request of the client.
LEMMA ClientEndType ==
  ASSUME RequestsTypeOK, NEW c \in ClientCalls, ClientEnds(c)
  PROVE  /\ clientCall' \in [ClientCalls -> ClientCall]
         /\ clientCall'[c] = NoClientCall
  BY DEF RequestsTypeOK, ClientEnds, NoClientCall, ClientCall

\* A request that loads its rows.
LEMMA ClientLoadType ==
  ASSUME RequestsTypeOK, NEW c \in ClientCalls,
         NEW op \in {"create", "cancel", "accept", "reject"},
         NEW q \in BuyerReqs \cup {NoBid}, NEW o \in Offers \cup {NoBid},
         ClientLoads(c, op, q, o)
  PROVE  /\ clientCall' \in [ClientCalls -> ClientCall]
         /\ clientCall'[c] = [op |-> op, req |-> q, offer |-> o]
         /\ UNCHANGED <<buyerReq, overdue, offer, sending>>
<1>1. [op |-> op, req |-> q, offer |-> o] \in ClientCall
  BY DEF ClientCall
<1> QED
  BY <1>1 DEF RequestsTypeOK, ClientLoads

\* The rows a client's request may have loaded.
LEMMA RowsType ==
  ASSUME RequestsTypeOK
  PROVE  /\ \A q \in BuyerReqs : buyerReq[q] \in BuyerRequestStatus \cup {"none"}
         /\ \A o \in Offers : offer[o] \in Offer
  BY DEF RequestsTypeOK

\* Every step of the client keeps the types and ends or begins the call in hand.
LEMMA ClientTypeStep ==
  ASSUME RequestsTypeOK, NEW c \in ClientCalls,
         \/ LoadCreate(c) \/ CancelRequest(c) \/ AcceptOffer(c)
         \/ RejectOffer(c) \/ ClientRollback(c)
         \/ \E q \in BuyerReqs : CreateRequest(c, q) \/ LoadCancel(c, q)
         \/ \E q \in BuyerReqs, o \in Offers : LoadAccept(c, q, o)
         \/ \E o \in Offers : LoadReject(c, o)
  PROVE  RequestsTypeOK' /\ UNCHANGED sending
<1>1. ASSUME NEW q \in BuyerReqs \cup {NoBid}, NEW o \in Offers \cup {NoBid},
             NEW op \in {"create", "cancel", "accept", "reject"}, ClientLoads(c, op, q, o)
      PROVE  RequestsTypeOK' /\ UNCHANGED sending
  BY <1>1, ClientLoadType DEF RequestsTypeOK
<1>2. CASE LoadCreate(c)
  BY <1>1, <1>2 DEF LoadCreate
<1>3. ASSUME NEW q \in BuyerReqs, LoadCancel(c, q) PROVE RequestsTypeOK' /\ UNCHANGED sending
  BY <1>1, <1>3 DEF LoadCancel
<1>4. ASSUME NEW q \in BuyerReqs, NEW o \in Offers, LoadAccept(c, q, o)
      PROVE  RequestsTypeOK' /\ UNCHANGED sending
  BY <1>1, <1>4 DEF LoadAccept
<1>5. ASSUME NEW o \in Offers, LoadReject(c, o) PROVE RequestsTypeOK' /\ UNCHANGED sending
  <2>1. offer[o].of \in BuyerReqs \cup {NoBid}
    BY RowsType DEF Offer
  <2> QED
    BY <1>1, <1>5, <2>1 DEF LoadReject
<1>6. ASSUME NEW q \in BuyerReqs, CreateRequest(c, q) PROVE RequestsTypeOK' /\ UNCHANGED sending
  BY <1>6, ClientEndType DEF CreateRequest, RequestsTypeOK, BuyerRequestStatus
<1>7. CASE CancelRequest(c)
  BY <1>7, ClientEndType DEF CancelRequest, RequestsTypeOK, BuyerRequestStatus
<1>8. CASE AcceptOffer(c)
  <2>1. \A x \in Offers : offer'[x] \in Offer
    BY <1>8, RowsType DEF AcceptOffer, Offer, OfferStatus
  <2>2. offer' \in [Offers -> Offer]
    BY <1>8, <2>1 DEF AcceptOffer
  <2>3. buyerReq' \in [BuyerReqs -> BuyerRequestStatus \cup {"none"}]
    BY <1>8 DEF AcceptOffer, RequestsTypeOK, BuyerRequestStatus
  <2> QED
    BY <1>8, <2>2, <2>3, ClientEndType DEF AcceptOffer, RequestsTypeOK
<1>9. CASE RejectOffer(c)
  <2>1. offer' \in [Offers -> Offer]
    BY <1>9 DEF RejectOffer, RequestsTypeOK, Offer, OfferStatus
  <2> QED
    BY <1>9, <2>1, ClientEndType DEF RejectOffer, RequestsTypeOK
<1>10. CASE ClientRollback(c)
  BY <1>10, ClientEndType DEF ClientRollback, RequestsTypeOK
<1> QED
  BY <1>2, <1>3, <1>4, <1>5, <1>6, <1>7, <1>8, <1>9, <1>10

\* Every step keeps the types.
LEMMA RequestsTypeStep ==
  RequestsTypeOK /\ Loaded /\ [RequestsNext]_requestVars => RequestsTypeOK' /\ Loaded'
<1> SUFFICES ASSUME RequestsTypeOK, Loaded, [RequestsNext]_requestVars
             PROVE  RequestsTypeOK' /\ Loaded'
  OBVIOUS
<1>1. ASSUME RequestsTypeOK', UNCHANGED sending PROVE RequestsTypeOK' /\ Loaded'
  BY <1>1 DEF Loaded
<1>2. ASSUME NEW b \in BidderCalls, NEW f \in Bidders, NEW q \in BuyerReqs, LoadOffer(b, f, q)
      PROVE  RequestsTypeOK' /\ Loaded'
  <2>1. [from |-> f, req |-> q] \in Sending
    BY DEF Sending
  <2>2. RequestsTypeOK'
    BY <1>2, <2>1 DEF LoadOffer, RequestsTypeOK
  <2>3. \A d \in BidderCalls : sending'[d] = IF d = b THEN [from |-> f, req |-> q] ELSE sending[d]
    BY <1>2 DEF LoadOffer, RequestsTypeOK
  <2> QED
    BY <2>2, <2>3 DEF Loaded
<1>3. ASSUME NEW b \in BidderCalls, sending' = [sending EXCEPT ![b] = NotSending]
      PROVE  sending' \in [BidderCalls -> Sending] /\ Loaded'
  BY <1>3 DEF RequestsTypeOK, Sending, NotSending, Loaded
<1>4. ASSUME NEW b \in BidderCalls, NEW o \in Offers, SendOffer(b, o)
      PROVE  RequestsTypeOK' /\ Loaded'
  <2>1. sending[b].req \in BuyerReqs /\ sending[b].from \in Bidders
    BY <1>4 DEF SendOffer, Loaded
  <2>2. offer' \in [Offers -> Offer]
    BY <1>4, <2>1 DEF SendOffer, RequestsTypeOK, Offer, OfferStatus
  <2> QED
    BY <1>3, <1>4, <2>2 DEF SendOffer, RequestsTypeOK
<1>5. ASSUME NEW b \in BidderCalls, SendingRollback(b) PROVE RequestsTypeOK' /\ Loaded'
  BY <1>3, <1>5 DEF SendingRollback, RequestsTypeOK
<1>6. ASSUME NEW q \in BuyerReqs, SevenDaysPass(q) PROVE RequestsTypeOK' /\ Loaded'
  BY <1>1, <1>6 DEF SevenDaysPass, RequestsTypeOK
<1>7. CASE ExpireOldRequests
  BY <1>1, <1>7 DEF ExpireOldRequests, RequestsTypeOK, BuyerRequestStatus
<1>8. CASE UNCHANGED requestVars
  BY <1>1, <1>8 DEF requestVars, RequestsTypeOK
<1> QED
  BY <1>1, <1>2, <1>4, <1>5, <1>6, <1>7, <1>8, ClientTypeStep DEF RequestsNext

---------------------------------------------------------------------------
(* Deals.                                                                  *)

\* A request that ends holds nothing, and the only client has no other.
LEMMA NothingInHand ==
  ASSUME RequestsTypeOK, Alone, NEW c \in ClientCalls, ClientEnds(c)
  PROVE  \A d \in ClientCalls : Holds(d)'
<1>1. clientCall'[c] = NoClientCall
  BY ClientEndType
<1>2. Holds(c)'
  BY <1>1 DEF Holds, NoClientCall
<1> QED
  BY <1>2 DEF Alone

\* While the rows stay as they are, so do the deals.
LEMMA DealKept ==
  ASSUME NEW q \in BuyerReqs, Deal(q), UNCHANGED offer,
         buyerReq'[q] = "filled" <=> buyerReq[q] = "filled"
  PROVE  Deal(q)'
  BY DEF Deal, Accepted

\* An acceptance fills a request that has no accepted offer, with one.
LEMMA AcceptDeals ==
  ASSUME RequestsTypeOK, NEW c \in ClientCalls, Holds(c), AcceptOffer(c),
         NEW q \in BuyerReqs, Deal(q)
  PROVE  Deal(q)'
<1>0. PICK r \in BuyerReqs, o \in Offers :
        /\ r = clientCall[c].req /\ o = clientCall[c].offer
        /\ buyerReq[r] # "filled" /\ offer[o].of = r /\ offer[o].status = "pending"
  BY DEF AcceptOffer, Holds
<1>1. \A x \in Offers :
        /\ offer'[x].of = offer[x].of
        /\ (offer'[x].status = "accepted") <=> (x = o \/ offer[x].status = "accepted")
  <2>1. ASSUME NEW x \in Offers PROVE offer[x] \in Offer
    BY RowsType
  <2>2. ASSUME NEW x \in Offers
        PROVE  offer'[x] = IF x = o THEN [offer[x] EXCEPT !.status = "accepted"]
                           ELSE IF x \in OtherOffers(r, o)
                                THEN [offer[x] EXCEPT !.status = "rejected"]
                           ELSE offer[x]
    BY <1>0 DEF AcceptOffer
  <2> QED
    BY <2>1, <2>2 DEF OtherOffers, Offer
<1>2. buyerReq' = [buyerReq EXCEPT ![r] = "filled"]
  BY <1>0 DEF AcceptOffer
<1>3. CASE q = r
  <2>1. Accepted(q) = {}
    BY <1>0, <1>3 DEF Deal
  <2>2. Accepted(q)' = {o}
    BY <1>0, <1>1, <1>3, <2>1 DEF Accepted
  <2>3. buyerReq'[q] = "filled"
    BY <1>2, <1>3 DEF RequestsTypeOK
  <2> QED
    BY <2>2, <2>3 DEF Deal
<1>4. CASE q # r
  <2>1. Accepted(q)' = Accepted(q)
    BY <1>0, <1>1, <1>4 DEF Accepted
  <2>2. buyerReq'[q] = buyerReq[q]
    BY <1>2, <1>4 DEF RequestsTypeOK
  <2> QED
    BY <2>1, <2>2 DEF Deal
<1> QED
  BY <1>3, <1>4

\* A rejection takes an offer that nobody has accepted.
LEMMA RejectDeals ==
  ASSUME RequestsTypeOK, NEW c \in ClientCalls, Holds(c), RejectOffer(c),
         NEW q \in BuyerReqs, Deal(q)
  PROVE  Deal(q)'
<1>0. PICK o \in Offers : o = clientCall[c].offer /\ offer[o].status = "pending"
  BY DEF RejectOffer, Holds
<1>1. offer' = [offer EXCEPT ![o].status = "rejected"]
  BY <1>0 DEF RejectOffer
<1>2. \A x \in Offers : /\ offer'[x].of = offer[x].of
                        /\ (offer'[x].status = "accepted") <=> (offer[x].status = "accepted")
  <2>1. \A x \in Offers \ {o} : offer'[x] = offer[x]
    BY <1>1 DEF RequestsTypeOK
  <2>2. offer'[o].of = offer[o].of /\ offer'[o].status = "rejected"
    BY <1>1 DEF RequestsTypeOK, Offer
  <2> QED
    BY <1>0, <2>1, <2>2
<1>3. Accepted(q)' = Accepted(q)
  BY <1>2 DEF Accepted
<1> QED
  BY <1>3 DEF Deal, RejectOffer

\* A new offer is nobody's deal and nobody's call.
LEMMA SendDeals ==
  ASSUME RequestsTypeOK, NEW b \in BidderCalls, NEW o \in Offers, SendOffer(b, o)
  PROVE  /\ \A q \in BuyerReqs : Deal(q) => Deal(q)'
         /\ \A c \in ClientCalls : Holds(c) => Holds(c)'
<1>1. \A x \in Offers \ {o} : offer'[x] = offer[x]
  BY DEF SendOffer, RequestsTypeOK
<1>2. offer[o].status = "none" /\ offer'[o].status = "pending"
  BY DEF SendOffer, NoOffer, RequestsTypeOK
<1>3. ASSUME NEW q \in BuyerReqs, Deal(q) PROVE Deal(q)'
  <2>1. Accepted(q)' = Accepted(q)
    BY <1>1, <1>2 DEF Accepted
  <2> QED
    BY <1>3, <2>1 DEF Deal, SendOffer
<1>4. ASSUME NEW c \in ClientCalls, Holds(c) PROVE Holds(c)'
  BY <1>1, <1>2, <1>4 DEF Holds, SendOffer
<1> QED
  BY <1>3, <1>4

\* Every step of the client keeps deals and what is in hand.
LEMMA ClientDeals ==
  ASSUME RequestsTypeOK, Alone, NEW c \in ClientCalls,
         \A q \in BuyerReqs : Deal(q), \A d \in ClientCalls : Holds(d),
         \/ LoadCreate(c) \/ CancelRequest(c) \/ AcceptOffer(c)
         \/ RejectOffer(c) \/ ClientRollback(c)
         \/ \E q \in BuyerReqs : CreateRequest(c, q) \/ LoadCancel(c, q)
         \/ \E q \in BuyerReqs, o \in Offers : LoadAccept(c, q, o)
         \/ \E o \in Offers : LoadReject(c, o)
  PROVE  (\A q \in BuyerReqs : Deal(q)') /\ (\A d \in ClientCalls : Holds(d)')
<1>1. ASSUME UNCHANGED <<buyerReq, offer>> PROVE \A q \in BuyerReqs : Deal(q)'
  BY <1>1, DealKept
<1>2. ASSUME Holds(c)' PROVE \A d \in ClientCalls : Holds(d)'
  BY <1>2 DEF Alone
<1>3. CASE LoadCreate(c)
  <2>1. clientCall'[c] = [op |-> "create", req |-> NoBid, offer |-> NoBid]
    BY <1>3, ClientLoadType DEF LoadCreate
  <2> QED
    BY <1>1, <1>2, <1>3, <2>1 DEF LoadCreate, ClientLoads, Holds
<1>4. ASSUME NEW q \in BuyerReqs, LoadCancel(c, q)
      PROVE  (\A r \in BuyerReqs : Deal(r)') /\ (\A d \in ClientCalls : Holds(d)')
  <2>1. clientCall'[c] = [op |-> "cancel", req |-> q, offer |-> NoBid]
    BY <1>4, ClientLoadType DEF LoadCancel
  <2> QED
    BY <1>1, <1>2, <1>4, <2>1 DEF LoadCancel, ClientLoads, Holds
<1>5. ASSUME NEW q \in BuyerReqs, NEW o \in Offers, LoadAccept(c, q, o)
      PROVE  (\A r \in BuyerReqs : Deal(r)') /\ (\A d \in ClientCalls : Holds(d)')
  <2>1. clientCall'[c] = [op |-> "accept", req |-> q, offer |-> o]
    BY <1>5, ClientLoadType DEF LoadAccept
  <2> QED
    BY <1>1, <1>2, <1>5, <2>1 DEF LoadAccept, ClientLoads, Holds
<1>6. ASSUME NEW o \in Offers, LoadReject(c, o)
      PROVE  (\A r \in BuyerReqs : Deal(r)') /\ (\A d \in ClientCalls : Holds(d)')
  <2>1. offer[o].of \in BuyerReqs \cup {NoBid}
    BY RowsType DEF Offer
  <2>2. clientCall'[c] = [op |-> "reject", req |-> offer[o].of, offer |-> o]
    BY <1>6, <2>1, ClientLoadType DEF LoadReject
  <2> QED
    BY <1>1, <1>2, <1>6, <2>2 DEF LoadReject, ClientLoads, Holds
<1>7. ASSUME NEW q \in BuyerReqs, CreateRequest(c, q)
      PROVE  (\A r \in BuyerReqs : Deal(r)') /\ (\A d \in ClientCalls : Holds(d)')
  <2>1. \A r \in BuyerReqs : buyerReq'[r] = "filled" <=> buyerReq[r] = "filled"
    BY <1>7 DEF CreateRequest, RequestsTypeOK
  <2> QED
    BY <1>7, <2>1, DealKept, NothingInHand DEF CreateRequest
<1>8. CASE CancelRequest(c)
  <2>1. PICK r \in BuyerReqs : r = clientCall[c].req /\ buyerReq[r] # "filled"
    BY <1>8 DEF CancelRequest, Holds
  <2>2. \A q \in BuyerReqs : buyerReq'[q] = "filled" <=> buyerReq[q] = "filled"
    BY <1>8, <2>1 DEF CancelRequest, RequestsTypeOK
  <2> QED
    BY <1>8, <2>2, DealKept, NothingInHand DEF CancelRequest
<1>9. CASE AcceptOffer(c)
  BY <1>9, AcceptDeals, NothingInHand DEF AcceptOffer
<1>10. CASE RejectOffer(c)
  BY <1>10, RejectDeals, NothingInHand DEF RejectOffer
<1>11. CASE ClientRollback(c)
  BY <1>1, <1>11, NothingInHand DEF ClientRollback
<1> QED
  BY <1>3, <1>4, <1>5, <1>6, <1>7, <1>8, <1>9, <1>10, <1>11

\* Steps that leave a request filled or not, and the offers and calls alone.
LEMMA OthersDeal ==
  ASSUME UNCHANGED <<offer, clientCall>>,
         \A q \in BuyerReqs :
            /\ buyerReq'[q] = "filled" <=> buyerReq[q] = "filled"
            /\ buyerReq[q] \in {"open", "expired"} => buyerReq'[q] \in {"open", "expired"}
  PROVE  /\ \A q \in BuyerReqs : Deal(q) => Deal(q)'
         /\ \A c \in ClientCalls : Holds(c) => Holds(c)'
<1>1. ASSUME NEW q \in BuyerReqs, Deal(q) PROVE Deal(q)'
  BY <1>1, DealKept
<1>2. ASSUME NEW c \in ClientCalls, Holds(c) PROVE Holds(c)'
  BY <1>2 DEF Holds
<1> QED
  BY <1>1, <1>2

LEMMA DealStep == DealInv /\ [RequestsNext]_requestVars => DealInv'
<1> SUFFICES ASSUME DealInv, [RequestsNext]_requestVars PROVE DealInv'
  OBVIOUS
<1>1. RequestsTypeOK' /\ Loaded'
  BY RequestsTypeStep DEF DealInv
<1> SUFFICES ASSUME Alone
             PROVE  (\A q \in BuyerReqs : Deal(q)') /\ (\A c \in ClientCalls : Holds(c)')
  BY <1>1 DEF DealInv, Alone
<1>2. ASSUME NEW b \in BidderCalls, NEW o \in Offers, SendOffer(b, o)
      PROVE  (\A q \in BuyerReqs : Deal(q)') /\ (\A c \in ClientCalls : Holds(c)')
  BY <1>2, SendDeals DEF DealInv
<1>3. ASSUME UNCHANGED <<buyerReq, offer, clientCall>>
      PROVE  (\A q \in BuyerReqs : Deal(q)') /\ (\A c \in ClientCalls : Holds(c)')
  BY <1>3, OthersDeal DEF DealInv
<1>4. CASE ExpireOldRequests
  <2>1. \A q \in BuyerReqs :
          /\ buyerReq'[q] = "filled" <=> buyerReq[q] = "filled"
          /\ buyerReq[q] \in {"open", "expired"} => buyerReq'[q] \in {"open", "expired"}
    BY <1>4 DEF ExpireOldRequests, MayExpire
  <2> QED
    BY <1>4, <2>1, OthersDeal DEF DealInv, ExpireOldRequests
<1> QED
  BY <1>2, <1>3, <1>4, ClientDeals
  DEF RequestsNext, DealInv, LoadOffer, SendingRollback, SevenDaysPass, requestVars

\* At most one request in flight: any two are the same.
LEMMA OneIsAlone == Cardinality(ClientCalls) <= 1 => Alone
<1> SUFFICES ASSUME Cardinality(ClientCalls) <= 1, NEW c \in ClientCalls, NEW d \in ClientCalls,
                    c # d
             PROVE  FALSE
  BY DEF Alone
<1>1. IsFiniteSet(ClientCalls)
  BY BuyerRequestsAssumption
<1>2. Cardinality({c, d}) <= Cardinality(ClientCalls)
  BY <1>1, FS_Subset
<1>3. IsFiniteSet({c}) /\ Cardinality({c}) = 1
  BY FS_Singleton
<1>4. Cardinality({c} \cup {d}) = Cardinality({c}) + 1
  BY <1>3, FS_AddElement
<1>5. {c, d} = {c} \cup {d}
  OBVIOUS
<1>6. Cardinality(ClientCalls) \in Nat
  BY <1>1, FS_CardinalityType
<1> QED
  BY <1>2, <1>3, <1>4, <1>5, <1>6

\* The invariant is the property the runs check.
LEMMA DealsAreOne == DealInv => OneDeal
<1> SUFFICES ASSUME DealInv, Cardinality(ClientCalls) <= 1, NEW q \in BuyerReqs
             PROVE  IF buyerReq[q] = "filled" THEN Cardinality(Accepted(q)) = 1
                    ELSE Accepted(q) = {}
  BY DEF OneDeal
<1>1. Deal(q)
  BY OneIsAlone DEF DealInv
<1>2. \A o \in Offers : Cardinality({o}) = 1
  BY FS_Singleton
<1> QED
  BY <1>1, <1>2 DEF Deal

\* A client with one request in flight fills a buyer request with exactly one offer
\* (accept_offer), however many freelancers send offers meanwhile and whenever the
\* request expires.
THEOREM OneDealPerRequest == RequestsSpec => []OneDeal
<1>1. RequestsInit => DealInv
  <2> SUFFICES ASSUME RequestsInit PROVE DealInv
    OBVIOUS
  <2>1. RequestsTypeOK
    BY DEF RequestsInit, RequestsTypeOK, NoOffer, Offer, NoClientCall, ClientCall, NotSending,
       Sending
  <2>2. Loaded
    BY DEF RequestsInit, Loaded
  <2>3. \A q \in BuyerReqs : Deal(q)
    BY DEF RequestsInit, Deal, Accepted, NoOffer
  <2>4. \A c \in ClientCalls : Holds(c)
    BY DEF RequestsInit, Holds, NoClientCall
  <2> QED
    BY <2>1, <2>2, <2>3, <2>4 DEF DealInv
<1> QED
  BY <1>1, DealStep, DealsAreOne, PTL DEF RequestsSpec

---------------------------------------------------------------------------
(* The limits on buyer requests and offers.                                *)

Creating == {c \in ClientCalls : clientCall[c].op = "create"}

SendingFor(q) == {b \in BidderCalls : sending[b].req = q}

OpenNearlyBounded ==
    Cardinality(OpenRequests) + Cardinality(Creating) < MaxOpen + Cardinality(ClientCalls)

OffersNearlyBounded(q) ==
    Cardinality(Standing(q)) + Cardinality(SendingFor(q)) < MaxOffers + Cardinality(BidderCalls)

\* What the limits count is finite.
LEMMA LimitsAreFinite ==
  /\ IsFiniteSet(OpenRequests) /\ Cardinality(OpenRequests) \in Nat
  /\ IsFiniteSet(Creating) /\ Cardinality(Creating) \in Nat
  /\ Cardinality(Creating) <= Cardinality(ClientCalls) /\ Cardinality(ClientCalls) \in Nat
  /\ Cardinality(BidderCalls) \in Nat
  /\ \A q : /\ IsFiniteSet(Standing(q)) /\ Cardinality(Standing(q)) \in Nat
            /\ IsFiniteSet(SendingFor(q)) /\ Cardinality(SendingFor(q)) \in Nat
            /\ Cardinality(SendingFor(q)) <= Cardinality(BidderCalls)
<1>1. /\ OpenRequests \subseteq BuyerReqs /\ Creating \subseteq ClientCalls
      /\ \A q : Standing(q) \subseteq Offers /\ SendingFor(q) \subseteq BidderCalls
  BY DEF OpenRequests, Creating, Standing, SendingFor
<1>2. /\ IsFiniteSet(BuyerReqs) /\ IsFiniteSet(Offers)
      /\ IsFiniteSet(ClientCalls) /\ IsFiniteSet(BidderCalls)
  BY BuyerRequestsAssumption
<1>3. \A S, T : IsFiniteSet(T) /\ S \subseteq T =>
        /\ IsFiniteSet(S) /\ Cardinality(S) \in Nat /\ Cardinality(T) \in Nat
        /\ Cardinality(S) <= Cardinality(T)
  BY FS_Subset, FS_CardinalityType
<1> QED
  BY <1>1, <1>2, <1>3

\* The four counts when the sets shrink or grow by one at most.
LEMMA OneLess ==
  ASSUME NEW S, NEW T, IsFiniteSet(S), T \subseteq S
  PROVE  /\ IsFiniteSet(T) /\ Cardinality(T) <= Cardinality(S)
         /\ \A x \in S \ T : Cardinality(T) < Cardinality(S)
         /\ Cardinality(T) \in Nat /\ Cardinality(S) \in Nat
<1>1. IsFiniteSet(T) /\ Cardinality(T) <= Cardinality(S)
  BY FS_Subset
<1>2. Cardinality(T) \in Nat /\ Cardinality(S) \in Nat
  BY <1>1, FS_CardinalityType
<1>3. ASSUME NEW x \in S \ T PROVE Cardinality(T) < Cardinality(S)
  <2>1. Cardinality(T \cup {x}) = Cardinality(T) + 1
    BY <1>1, <1>3, FS_AddElement
  <2>2. Cardinality(T \cup {x}) <= Cardinality(S)
    BY <1>3, FS_Subset
  <2> QED
    BY <1>2, <2>1, <2>2
<1> QED
  BY <1>1, <1>2, <1>3

LEMMA OneMore ==
  ASSUME NEW S, NEW T, NEW x, IsFiniteSet(S), T \subseteq S \cup {x}
  PROVE  /\ IsFiniteSet(T) /\ Cardinality(T) <= Cardinality(S) + 1
         /\ Cardinality(T) \in Nat /\ Cardinality(S) \in Nat
<1>1. IsFiniteSet(S \cup {x}) /\ Cardinality(S \cup {x}) <= Cardinality(S) + 1
  <2>1. Cardinality(S) \in Nat
    BY FS_CardinalityType
  <2> QED
    BY <2>1, FS_AddElement
<1>2. IsFiniteSet(T) /\ Cardinality(T) <= Cardinality(S \cup {x})
  BY <1>1, FS_Subset
<1>3. Cardinality(T) \in Nat /\ Cardinality(S) \in Nat /\ Cardinality(S \cup {x}) \in Nat
  BY <1>1, <1>2, FS_CardinalityType
<1> QED
  BY <1>1, <1>2, <1>3

\* A step that opens no request and lets no further call create one.
LEMMA OpenKept ==
  ASSUME OpenNearlyBounded, OpenRequests' \subseteq OpenRequests, Creating' \subseteq Creating
  PROVE  OpenNearlyBounded'
<1>1. /\ Cardinality(OpenRequests)' <= Cardinality(OpenRequests)
      /\ Cardinality(OpenRequests)' \in Nat
  BY LimitsAreFinite, OneLess
<1>2. Cardinality(Creating)' <= Cardinality(Creating) /\ Cardinality(Creating)' \in Nat
  BY LimitsAreFinite, OneLess
<1> QED
  BY <1>1, <1>2, LimitsAreFinite, BuyerRequestsAssumption DEF OpenNearlyBounded

LEMMA OffersKept ==
  ASSUME NEW q, OffersNearlyBounded(q), Standing(q)' \subseteq Standing(q),
         SendingFor(q)' \subseteq SendingFor(q)
  PROVE  OffersNearlyBounded(q)'
<1>1. Cardinality(Standing(q))' <= Cardinality(Standing(q)) /\ Cardinality(Standing(q))' \in Nat
  BY LimitsAreFinite, OneLess
<1>2. /\ Cardinality(SendingFor(q))' <= Cardinality(SendingFor(q))
      /\ Cardinality(SendingFor(q))' \in Nat
  BY LimitsAreFinite, OneLess
<1> QED
  BY <1>1, <1>2, LimitsAreFinite, BuyerRequestsAssumption DEF OffersNearlyBounded

\* The test of the limit, and the insertion that uses it up.
LEMMA OpenTested ==
  ASSUME RequestsTypeOK, OpenNearlyBounded, NEW c \in ClientCalls,
         \/ LoadCreate(c) \/ \E q \in BuyerReqs : CreateRequest(c, q)
  PROVE  OpenNearlyBounded'
<1>1. CASE LoadCreate(c)
  <2>1. OpenRequests' = OpenRequests /\ Cardinality(OpenRequests) < MaxOpen
    BY <1>1 DEF LoadCreate, ClientLoads, OpenRequests
  <2>2. Creating' \subseteq ClientCalls
    BY DEF Creating
  <2>3. /\ Cardinality(Creating') <= Cardinality(ClientCalls) /\ Cardinality(Creating') \in Nat
    BY <2>2, OneLess, BuyerRequestsAssumption
  <2> QED
    BY <2>1, <2>3, LimitsAreFinite, BuyerRequestsAssumption DEF OpenNearlyBounded
<1>2. ASSUME NEW q \in BuyerReqs, CreateRequest(c, q) PROVE OpenNearlyBounded'
  <2>1. /\ clientCall[c].op = "create" /\ ClientEnds(c)
        /\ buyerReq' = [buyerReq EXCEPT ![q] = "open"]
    BY <1>2 DEF CreateRequest
  <2>2. clientCall'[c].op = "idle" /\ \A d \in ClientCalls \ {c} : clientCall'[d] = clientCall[d]
    BY <2>1, ClientEndType DEF ClientEnds, NoClientCall, RequestsTypeOK
  <2>3. Creating' \subseteq Creating /\ c \in Creating \ Creating'
    BY <2>1, <2>2 DEF Creating
  <2>4. Cardinality(Creating') < Cardinality(Creating) /\ Cardinality(Creating') \in Nat
    BY <2>3, LimitsAreFinite, OneLess
  <2>5. OpenRequests' \subseteq OpenRequests \cup {q}
    BY <2>1 DEF OpenRequests, RequestsTypeOK
  <2>6. /\ Cardinality(OpenRequests') <= Cardinality(OpenRequests) + 1
        /\ Cardinality(OpenRequests') \in Nat
    BY <2>5, LimitsAreFinite, OneMore
  <2> QED
    BY <2>4, <2>6, LimitsAreFinite, BuyerRequestsAssumption DEF OpenNearlyBounded
<1> QED
  BY <1>1, <1>2

LEMMA OffersTested ==
  ASSUME RequestsTypeOK, Loaded, NEW q \in BuyerReqs, OffersNearlyBounded(q),
         NEW b \in BidderCalls,
         \/ \E f \in Bidders, r \in BuyerReqs : LoadOffer(b, f, r)
         \/ \E o \in Offers : SendOffer(b, o)
         \/ SendingRollback(b)
  PROVE  OffersNearlyBounded(q)'
<1>1. NotSending.req # q
  BY BuyerRequestsAssumption DEF NotSending
<1>2. ASSUME NEW f \in Bidders, NEW r \in BuyerReqs, LoadOffer(b, f, r)
      PROVE  OffersNearlyBounded(q)'
  <2>1. Standing(q)' = Standing(q)
    BY <1>2 DEF LoadOffer, Standing
  <2>2. \A d \in BidderCalls : sending'[d] = IF d = b THEN [from |-> f, req |-> r] ELSE sending[d]
    BY <1>2 DEF LoadOffer, RequestsTypeOK
  <2>3. CASE r = q
    <3>1. Cardinality(Standing(q)) < MaxOffers
      BY <1>2, <2>3 DEF LoadOffer
    <3>2. SendingFor(q)' \subseteq BidderCalls
      BY DEF SendingFor
    <3>3. /\ Cardinality(SendingFor(q)') <= Cardinality(BidderCalls)
          /\ Cardinality(SendingFor(q)') \in Nat
      BY <3>2, OneLess, BuyerRequestsAssumption
    <3> QED
      BY <2>1, <3>1, <3>3, LimitsAreFinite, BuyerRequestsAssumption DEF OffersNearlyBounded
  <2>4. CASE r # q
    <3>1. SendingFor(q)' \subseteq SendingFor(q)
      BY <2>2, <2>4 DEF SendingFor
    <3> QED
      BY <2>1, <3>1, OffersKept
  <2> QED
    BY <2>3, <2>4
<1>3. ASSUME sending' = [sending EXCEPT ![b] = NotSending]
      PROVE  SendingFor(q)' = SendingFor(q) \ {b}
  BY <1>1, <1>3 DEF SendingFor, RequestsTypeOK
<1>4. CASE SendingRollback(b)
  <2>1. Standing(q)' = Standing(q)
    BY <1>4 DEF SendingRollback, Standing
  <2>2. SendingFor(q)' \subseteq SendingFor(q)
    BY <1>3, <1>4 DEF SendingRollback
  <2> QED
    BY <2>1, <2>2, OffersKept
<1>5. ASSUME NEW o \in Offers, SendOffer(b, o) PROVE OffersNearlyBounded(q)'
  <2>1. SendingFor(q)' = SendingFor(q) \ {b}
    BY <1>3, <1>5 DEF SendOffer
  <2>2. \A x \in Offers \ {o} : offer'[x] = offer[x]
    BY <1>5 DEF SendOffer, RequestsTypeOK
  <2>3. offer'[o].of = sending[b].req
    BY <1>5 DEF SendOffer, RequestsTypeOK
  <2>4. CASE sending[b].req = q
    <3>1. b \in SendingFor(q)
      BY <2>4 DEF SendingFor
    <3>2. /\ Cardinality(SendingFor(q)') < Cardinality(SendingFor(q))
          /\ Cardinality(SendingFor(q)') \in Nat
      BY <2>1, <3>1, LimitsAreFinite, OneLess
    <3>3. Standing(q)' \subseteq Standing(q) \cup {o}
      BY <2>2 DEF Standing
    <3>4. /\ Cardinality(Standing(q)') <= Cardinality(Standing(q)) + 1
          /\ Cardinality(Standing(q)') \in Nat
      BY <3>3, LimitsAreFinite, OneMore
    <3> QED
      BY <3>2, <3>4, LimitsAreFinite, BuyerRequestsAssumption DEF OffersNearlyBounded
  <2>5. CASE sending[b].req # q
    <3>1. Standing(q)' \subseteq Standing(q)
      BY <2>2, <2>3, <2>5 DEF Standing
    <3>2. SendingFor(q)' \subseteq SendingFor(q)
      BY <2>1
    <3> QED
      BY <3>1, <3>2, OffersKept
  <2> QED
    BY <2>4, <2>5
<1> QED
  BY <1>2, <1>4, <1>5

\* The client's other steps open no request, and put no offer back.
LEMMA ClientLimits ==
  ASSUME RequestsTypeOK, NEW c \in ClientCalls, Holds(c), OpenNearlyBounded,
         \A q \in BuyerReqs : OffersNearlyBounded(q),
         \/ LoadCreate(c) \/ CancelRequest(c) \/ AcceptOffer(c)
         \/ RejectOffer(c) \/ ClientRollback(c)
         \/ \E q \in BuyerReqs : CreateRequest(c, q) \/ LoadCancel(c, q)
         \/ \E q \in BuyerReqs, o \in Offers : LoadAccept(c, q, o)
         \/ \E o \in Offers : LoadReject(c, o)
  PROVE  OpenNearlyBounded' /\ \A q \in BuyerReqs : OffersNearlyBounded(q)'
<1>1. ASSUME UNCHANGED <<offer, sending>> PROVE \A q \in BuyerReqs : OffersNearlyBounded(q)'
  <2>1. \A q \in BuyerReqs : Standing(q)' = Standing(q) /\ SendingFor(q)' = SendingFor(q)
    BY <1>1 DEF Standing, SendingFor
  <2> QED
    BY <2>1, OffersKept
<1>2. ASSUME ClientEnds(c) PROVE Creating' \subseteq Creating
  <2>1. clientCall'[c].op = "idle" /\ \A d \in ClientCalls \ {c} : clientCall'[d] = clientCall[d]
    BY <1>2, ClientEndType DEF ClientEnds, NoClientCall, RequestsTypeOK
  <2> QED
    BY <2>1 DEF Creating
<1>3. ASSUME NEW op \in {"cancel", "accept", "reject"}, NEW q \in BuyerReqs \cup {NoBid},
             NEW o \in Offers \cup {NoBid}, ClientLoads(c, op, q, o)
      PROVE  OpenNearlyBounded' /\ \A r \in BuyerReqs : OffersNearlyBounded(r)'
  <2>1. /\ UNCHANGED <<buyerReq, offer, sending>>
        /\ clientCall'[c] = [op |-> op, req |-> q, offer |-> o]
    BY <1>3, ClientLoadType
  <2>2. clientCall'[c].op # "create" /\ \A d \in ClientCalls \ {c} : clientCall'[d] = clientCall[d]
    BY <1>3, <2>1 DEF ClientLoads, RequestsTypeOK
  <2>3. Creating' \subseteq Creating
    BY <2>2 DEF Creating
  <2>4. OpenRequests' = OpenRequests
    BY <2>1 DEF OpenRequests
  <2> QED
    BY <1>1, <2>1, <2>3, <2>4, OpenKept
<1>4. CASE LoadCreate(c) \/ \E q \in BuyerReqs : CreateRequest(c, q)
  <2>1. UNCHANGED <<offer, sending>>
    BY <1>4 DEF LoadCreate, ClientLoads, CreateRequest
  <2> QED
    BY <1>1, <1>4, <2>1, OpenTested
<1>5. ASSUME NEW q \in BuyerReqs, LoadCancel(c, q)
      PROVE  OpenNearlyBounded' /\ \A r \in BuyerReqs : OffersNearlyBounded(r)'
  BY <1>3, <1>5 DEF LoadCancel
<1>6. ASSUME NEW q \in BuyerReqs, NEW o \in Offers, LoadAccept(c, q, o)
      PROVE  OpenNearlyBounded' /\ \A r \in BuyerReqs : OffersNearlyBounded(r)'
  BY <1>3, <1>6 DEF LoadAccept
<1>7. ASSUME NEW o \in Offers, LoadReject(c, o)
      PROVE  OpenNearlyBounded' /\ \A r \in BuyerReqs : OffersNearlyBounded(r)'
  <2>1. offer[o].of \in BuyerReqs \cup {NoBid}
    BY RowsType DEF Offer
  <2> QED
    BY <1>3, <1>7, <2>1 DEF LoadReject
<1>8. CASE ClientRollback(c)
  <2>1. OpenRequests' = OpenRequests /\ Creating' \subseteq Creating /\ UNCHANGED <<offer, sending>>
    BY <1>2, <1>8 DEF ClientRollback, OpenRequests
  <2> QED
    BY <1>1, <2>1, OpenKept
<1>9. CASE CancelRequest(c)
  <2>1. \A q \in BuyerReqs : buyerReq'[q] = "open" => buyerReq[q] = "open"
    BY <1>9 DEF CancelRequest, RequestsTypeOK
  <2>2. OpenRequests' \subseteq OpenRequests
    BY <2>1 DEF OpenRequests
  <2>3. Creating' \subseteq Creating /\ UNCHANGED <<offer, sending>>
    BY <1>2, <1>9 DEF CancelRequest
  <2> QED
    BY <1>1, <2>2, <2>3, OpenKept
<1>10. CASE AcceptOffer(c)
  <2>1. \A q \in BuyerReqs : buyerReq'[q] = "open" => buyerReq[q] = "open"
    BY <1>10 DEF AcceptOffer, RequestsTypeOK
  <2>2. OpenRequests' \subseteq OpenRequests
    BY <2>1 DEF OpenRequests
  <2>3. Creating' \subseteq Creating /\ UNCHANGED sending
    BY <1>2, <1>10 DEF AcceptOffer
  <2>4. PICK r \in BuyerReqs, o \in Offers :
          r = clientCall[c].req /\ o = clientCall[c].offer /\ offer[o].status = "pending"
    BY <1>10 DEF AcceptOffer, Holds
  <2>5. ASSUME NEW x \in Offers
        PROVE  /\ offer'[x].of = offer[x].of
               /\ offer'[x].status # "rejected" => offer[x].status # "rejected"
    <3>1. offer[x] \in Offer
      BY RowsType
    <3>2. offer'[x] = IF x = o THEN [offer[x] EXCEPT !.status = "accepted"]
                      ELSE IF x \in OtherOffers(r, o)
                           THEN [offer[x] EXCEPT !.status = "rejected"]
                      ELSE offer[x]
      BY <1>10, <2>4 DEF AcceptOffer
    <3> QED
      BY <2>4, <3>1, <3>2 DEF OtherOffers, Offer
  <2>6. \A q \in BuyerReqs : /\ Standing(q)' \subseteq Standing(q)
                             /\ SendingFor(q)' \subseteq SendingFor(q)
    BY <2>3, <2>5 DEF Standing, SendingFor
  <2> QED
    BY <2>2, <2>3, <2>6, OpenKept, OffersKept
<1>11. CASE RejectOffer(c)
  <2>1. PICK o \in Offers : o = clientCall[c].offer
    BY <1>11 DEF RejectOffer, Holds
  <2>2. offer' = [offer EXCEPT ![o].status = "rejected"]
    BY <1>11, <2>1 DEF RejectOffer
  <2>3. \A x \in Offers \ {o} : offer'[x] = offer[x]
    BY <2>2 DEF RequestsTypeOK
  <2>4. offer'[o].of = offer[o].of /\ offer'[o].status = "rejected"
    BY <2>2 DEF RequestsTypeOK, Offer
  <2>5. \A q \in BuyerReqs : /\ Standing(q)' \subseteq Standing(q)
                             /\ SendingFor(q)' \subseteq SendingFor(q)
    BY <1>11, <2>3, <2>4 DEF Standing, SendingFor, RejectOffer
  <2>6. OpenRequests' = OpenRequests /\ Creating' \subseteq Creating
    BY <1>2, <1>11 DEF RejectOffer, OpenRequests
  <2> QED
    BY <2>5, <2>6, OpenKept, OffersKept
<1> QED
  BY <1>4, <1>5, <1>6, <1>7, <1>8, <1>9, <1>10, <1>11

LimitInv == DealInv /\ OpenNearlyBounded /\ \A q \in BuyerReqs : OffersNearlyBounded(q)

\* With one request of the client in flight, every step keeps within the limits.
LEMMA LimitStep == Alone /\ LimitInv /\ [RequestsNext]_requestVars => LimitInv'
<1> SUFFICES ASSUME Alone, LimitInv, [RequestsNext]_requestVars
             PROVE  OpenNearlyBounded' /\ \A q \in BuyerReqs : OffersNearlyBounded(q)'
  BY DealStep DEF LimitInv
<1>1. /\ RequestsTypeOK /\ Loaded /\ \A c \in ClientCalls : Holds(c)
  BY DEF LimitInv, DealInv
<1>2. ASSUME UNCHANGED clientCall, OpenRequests' \subseteq OpenRequests PROVE OpenNearlyBounded'
  <2>1. Creating' = Creating
    BY <1>2 DEF Creating
  <2> QED
    BY <1>2, <2>1, OpenKept DEF LimitInv
<1>3. ASSUME UNCHANGED <<offer, sending>> PROVE \A q \in BuyerReqs : OffersNearlyBounded(q)'
  <2>1. \A q \in BuyerReqs : Standing(q)' = Standing(q) /\ SendingFor(q)' = SendingFor(q)
    BY <1>3 DEF Standing, SendingFor
  <2> QED
    BY <2>1, OffersKept DEF LimitInv
<1>4. ASSUME UNCHANGED buyerReq PROVE OpenRequests' \subseteq OpenRequests
  BY <1>4 DEF OpenRequests
<1>5. ASSUME NEW b \in BidderCalls,
             \/ \E f \in Bidders, r \in BuyerReqs : LoadOffer(b, f, r)
             \/ \E o \in Offers : SendOffer(b, o)
             \/ SendingRollback(b)
      PROVE  OpenNearlyBounded' /\ \A q \in BuyerReqs : OffersNearlyBounded(q)'
  <2>1. UNCHANGED <<buyerReq, clientCall>>
    BY <1>5 DEF LoadOffer, SendOffer, SendingRollback
  <2>2. \A q \in BuyerReqs : OffersNearlyBounded(q)'
    BY <1>1, <1>5, OffersTested DEF LimitInv
  <2> QED
    BY <1>2, <1>4, <2>1, <2>2
<1>6. CASE ExpireOldRequests
  <2>1. OpenRequests' \subseteq OpenRequests
    BY <1>6 DEF ExpireOldRequests, OpenRequests, MayExpire
  <2> QED
    BY <1>2, <1>3, <1>6, <2>1 DEF ExpireOldRequests
<1>7. ASSUME NEW q \in BuyerReqs, SevenDaysPass(q)
      PROVE  OpenNearlyBounded' /\ \A r \in BuyerReqs : OffersNearlyBounded(r)'
  BY <1>2, <1>3, <1>4, <1>7 DEF SevenDaysPass
<1>8. CASE UNCHANGED requestVars
  BY <1>2, <1>3, <1>4, <1>8 DEF requestVars
<1>9. ASSUME NEW c \in ClientCalls,
             \/ LoadCreate(c) \/ CancelRequest(c) \/ AcceptOffer(c)
             \/ RejectOffer(c) \/ ClientRollback(c)
             \/ \E q \in BuyerReqs : CreateRequest(c, q) \/ LoadCancel(c, q)
             \/ \E q \in BuyerReqs, o \in Offers : LoadAccept(c, q, o)
             \/ \E o \in Offers : LoadReject(c, o)
      PROVE  OpenNearlyBounded' /\ \A q \in BuyerReqs : OffersNearlyBounded(q)'
  BY <1>1, <1>9, ClientLimits DEF LimitInv
<1> QED
  BY <1>5, <1>6, <1>7, <1>8, <1>9 DEF RequestsNext

LEMMA RequestsBegin == RequestsInit => LimitInv
<1> SUFFICES ASSUME RequestsInit PROVE LimitInv
  OBVIOUS
<1>1. RequestsTypeOK
  BY DEF RequestsInit, RequestsTypeOK, NoOffer, Offer, NoClientCall, ClientCall, NotSending,
     Sending
<1>2. Loaded
  BY DEF RequestsInit, Loaded
<1>3. \A q \in BuyerReqs : Deal(q)
  BY DEF RequestsInit, Deal, Accepted, NoOffer
<1>4. \A c \in ClientCalls : Holds(c)
  BY DEF RequestsInit, Holds, NoClientCall
<1>5. OpenRequests = {} /\ Creating = {}
  BY DEF RequestsInit, OpenRequests, Creating, NoClientCall
<1>6. \A q \in BuyerReqs : Standing(q) = {} /\ SendingFor(q) = {}
  BY BuyerRequestsAssumption
  DEF RequestsInit, Standing, SendingFor, NoOffer, NotSending
<1>7. Cardinality({}) = 0
  BY FS_EmptySet
<1>8. Cardinality(ClientCalls) \in Nat /\ Cardinality(BidderCalls) \in Nat
  BY LimitsAreFinite
<1>9. OpenNearlyBounded
  BY <1>5, <1>7, <1>8, BuyerRequestsAssumption DEF OpenNearlyBounded
<1>10. \A q \in BuyerReqs : OffersNearlyBounded(q)
  BY <1>6, <1>7, <1>8, BuyerRequestsAssumption DEF OffersNearlyBounded
<1> QED
  BY <1>1, <1>2, <1>3, <1>4, <1>9, <1>10 DEF LimitInv, DealInv

\* The invariant the runs check.
LEMMA LimitsSuffice == LimitInv => RequestsInv
<1> SUFFICES ASSUME LimitInv PROVE RequestsInv
  OBVIOUS
<1>1. RequestsTypeOK /\ OneDeal
  BY DealsAreOne DEF LimitInv, DealInv
<1>2. CallsHold
  BY OneIsAlone DEF LimitInv, DealInv, CallsHold, Holds
<1>3. LimitsNearlyHold
  BY DEF LimitInv, LimitsNearlyHold, OpenNearlyBounded, OffersNearlyBounded, Creating, SendingFor
<1> QED
  BY <1>1, <1>2, <1>3 DEF RequestsInv

---------------------------------------------------------------------------
(* Reviews.                                                                *)

\* The committed reviews are finitely many.
LEMMA ReviewsAreFinite ==
  ASSUME ReviewsTypeOK
  PROVE  /\ IsFiniteSet(Reviewed(review)) /\ Cardinality(Deals) \in Nat
         /\ Cardinality(Reviewed(review)) \in 0 .. Cardinality(Deals)
<1>1. IsFiniteSet(Deals) /\ Cardinality(Deals) \in Nat
  BY ReviewsAssumption, FS_CardinalityType
<1>2. Reviewed(review) \subseteq Deals
  BY DEF Reviewed
<1>3. IsFiniteSet(Reviewed(review)) /\ Cardinality(Reviewed(review)) <= Cardinality(Deals)
  BY <1>1, <1>2, FS_Subset
<1>4. Cardinality(Reviewed(review)) \in Nat
  BY <1>3, FS_CardinalityType
<1> QED
  BY <1>1, <1>3, <1>4

\* The rating of any reviews is what the columns can hold.
LEMMA RatingType ==
  ASSUME NEW R \in Reviews
  PROVE  /\ Rating(R) \in RatingColumns
         /\ Rating(R).count = Cardinality(Reviewed(R))
<1>1. IsFiniteSet(Deals)
  BY ReviewsAssumption
<1>2. Reviewed(R) \subseteq Deals
  BY DEF Reviewed
<1>3. /\ Cardinality(Reviewed(R)) \in Nat /\ Cardinality(Deals) \in Nat
      /\ Cardinality(Reviewed(R)) <= Cardinality(Deals)
  BY <1>1, <1>2, FS_Subset, FS_CardinalityType
<1>4. Average(R) \in Averages
  BY DEF Averages
<1> HIDE DEF Average, Reviewed
<1> QED
  BY <1>3, <1>4 DEF Rating, RatingColumns

\* What a submission sees is one review more than is committed.
LEMMA SeesOneMore ==
  ASSUME ReviewsTypeOK, NEW s \in Submissions, submission[s].deal \in Deals,
         submission[s].stars \in Stars, review[submission[s].deal] = 0
  PROVE  /\ Visible(s) \in Reviews /\ Rating(Visible(s)) \in RatingColumns
         /\ Reviewed(Visible(s)) = Reviewed(review) \cup {submission[s].deal}
         /\ Rating(Visible(s)).count = Cardinality(Reviewed(review)) + 1
<1>1. PICK d \in Deals, n \in Stars : d = submission[s].deal /\ n = submission[s].stars
  OBVIOUS
<1>2. review \in [Deals -> Stars \cup {0}] /\ n # 0
  BY ReviewsAssumption DEF ReviewsTypeOK, Reviews
<1>3. Visible(s) = [review EXCEPT ![d] = n]
  BY <1>1 DEF Visible
<1>4. /\ Visible(s) \in [Deals -> Stars \cup {0}] /\ Visible(s)[d] = n
      /\ \A e \in Deals \ {d} : Visible(s)[e] = review[e]
  BY <1>2, <1>3
<1>5. Reviewed(Visible(s)) = Reviewed(review) \cup {d} /\ d \notin Reviewed(review)
  BY <1>1, <1>2, <1>4 DEF Reviewed
<1>6. Cardinality(Reviewed(Visible(s))) = Cardinality(Reviewed(review)) + 1
  BY <1>5, ReviewsAreFinite, FS_AddElement
<1>7. Visible(s) \in Reviews
  BY <1>4 DEF Reviews
<1> QED
  BY <1>1, <1>5, <1>6, <1>7, RatingType

\* What a request does to its own entry.
LEMMA OwnEntry ==
  ASSUME ReviewsTypeOK, SubmissionsHold, NEW s \in Submissions, NEW w \in BOOLEAN,
         InsertReview(s) \/ Aggregate(s) \/ FlushPerson(s, w)
  PROVE  /\ submission' \in [Submissions -> Submission]
         /\ submission'[s].deal = submission[s].deal
         /\ submission'[s].stars = submission[s].stars
         /\ submission'[s].seen = submission[s].seen
         /\ submission'[s].met = submission[s].met
         /\ submission'[s].stage \in {"inserted", "counted", "written"}
         /\ submission[s].stage \in {"loaded", "inserted", "counted"}
         /\ submission[s].stage = "loaded" => submission'[s].stage = "inserted"
         /\ submission[s].stage = "inserted" =>
               /\ submission'[s].stage = "counted"
               /\ submission'[s].found = Rating(Visible(s))
         /\ submission[s].stage = "counted" =>
               /\ submission'[s].found = submission[s].found
               /\ \/ submission'[s].writes
                  \/ submission'[s].found.average = submission'[s].seen.average
         /\ submission[s].stage # "idle"
         /\ submission[s].deal \in Deals /\ review[submission[s].deal] = 0
         /\ submission[s].stars \in Stars
         /\ \A q \in Submissions \ {s} : submission'[q] = submission[q]
<1>0. PICK k \in Submission : k = submission[s]
  BY DEF ReviewsTypeOK
<1>1. /\ k.stage \in {"loaded", "inserted", "counted"} /\ k.deal \in completed
      /\ review[k.deal] = 0 /\ k.stars \in Stars
  BY <1>0 DEF InsertReview, Aggregate, FlushPerson, SubmissionsHold, SubmissionHolds
<1>2. k.deal \in Deals
  BY <1>1 DEF ReviewsTypeOK
<1>3. CASE InsertReview(s)
  <2> DEFINE r == [k EXCEPT !.stage = "inserted"]
  <2>1. k.stage = "loaded" /\ submission' = [submission EXCEPT ![s] = r]
    BY <1>0, <1>3 DEF InsertReview
  <2>2. /\ r \in Submission /\ r.deal = k.deal /\ r.stars = k.stars /\ r.seen = k.seen
        /\ r.met = k.met /\ r.stage = "inserted"
    BY <1>0 DEF Submission, ReviewStages
  <2> HIDE DEF r
  <2>3. /\ submission' \in [Submissions -> Submission] /\ submission'[s] = r
        /\ \A q \in Submissions \ {s} : submission'[q] = submission[q]
    BY <2>1, <2>2 DEF ReviewsTypeOK
  <2> QED
    BY <1>0, <1>1, <1>2, <2>1, <2>2, <2>3
<1>4. CASE Aggregate(s)
  <2> DEFINE g == Rating(Visible(s))
  <2>1. g \in RatingColumns
    BY <1>0, <1>1, <1>2, SeesOneMore
  <2> HIDE DEF g
  <2> DEFINE r == [k EXCEPT !.stage = "counted", !.found = g]
  <2>3. k.stage = "inserted" /\ submission' = [submission EXCEPT ![s] = r]
    BY <1>0, <1>4 DEF Aggregate, g
  <2>4. /\ r \in Submission /\ r.deal = k.deal /\ r.stars = k.stars /\ r.seen = k.seen
        /\ r.met = k.met /\ r.found = g /\ r.stage = "counted"
    BY <1>0, <2>1 DEF Submission, ReviewStages
  <2> HIDE DEF r
  <2>5. /\ submission' \in [Submissions -> Submission] /\ submission'[s] = r
        /\ \A q \in Submissions \ {s} : submission'[q] = submission[q]
    BY <2>3, <2>4 DEF ReviewsTypeOK
  <2> QED
    BY <1>0, <1>1, <1>2, <2>3, <2>4, <2>5 DEF g
<1>5. CASE FlushPerson(s, w)
  <2> DEFINE r == [k EXCEPT !.stage = "written", !.writes = w]
  <2>1. k.stage = "counted" /\ submission' = [submission EXCEPT ![s] = r]
    BY <1>0, <1>5 DEF FlushPerson
  <2>2. w \/ k.found.average = k.seen.average
    BY <1>0, <1>5 DEF FlushPerson
  <2>3. /\ r \in Submission /\ r.deal = k.deal /\ r.stars = k.stars /\ r.seen = k.seen
        /\ r.met = k.met /\ r.found = k.found /\ r.writes = w /\ r.stage = "written"
    BY <1>0 DEF Submission, ReviewStages
  <2> HIDE DEF r
  <2>4. /\ submission' \in [Submissions -> Submission] /\ submission'[s] = r
        /\ \A q \in Submissions \ {s} : submission'[q] = submission[q]
    BY <2>1, <2>3 DEF ReviewsTypeOK
  <2>5. submission'[s].writes \/ submission'[s].found.average = submission'[s].seen.average
    BY <2>2, <2>3, <2>4
  <2> QED
    BY <1>0, <1>1, <1>2, <2>1, <2>3, <2>4, <2>5
<1> QED
  BY <1>3, <1>4, <1>5

\* What loading a deal does to every entry.
LEMMA LoadedEntries ==
  ASSUME ReviewsTypeOK, NEW s \in Submissions, NEW d \in Deals, NEW n \in Stars,
         LoadDeal(s, d, n)
  PROVE  /\ submission' \in [Submissions -> Submission]
         /\ submission'[s].stage = "loaded" /\ submission'[s].deal = d
         /\ submission'[s].stars = n /\ submission'[s].seen = person
         /\ submission'[s].met = (UnderWay # {})
         /\ \A q \in Submissions \ {s} :
               /\ submission'[q].stage = submission[q].stage
               /\ submission'[q].deal = submission[q].deal
               /\ submission'[q].stars = submission[q].stars
               /\ submission'[q].seen = submission[q].seen
               /\ submission'[q].found = submission[q].found
               /\ submission'[q].writes = submission[q].writes
               /\ q \in UnderWay => submission'[q].met
<1> DEFINE r == [NoSubmission EXCEPT !.stage = "loaded", !.deal = d, !.stars = n,
                                     !.seen = person, !.met = UnderWay # {}]
           e(q) == IF q = s THEN r
                   ELSE IF q \in UnderWay THEN [submission[q] EXCEPT !.met = TRUE]
                   ELSE submission[q]
<1>1. /\ r \in Submission /\ r.stage = "loaded" /\ r.deal = d /\ r.stars = n
      /\ r.seen = person /\ r.met = (UnderWay # {})
  <2>1. (UnderWay # {}) \in BOOLEAN
    OBVIOUS
  <2>2. NoReviews \in Reviews
    BY DEF NoReviews, Reviews
  <2>3. Rating(NoReviews) \in RatingColumns
    BY <2>2, RatingType
  <2>4. person \in RatingColumns
    BY DEF ReviewsTypeOK
  <2> HIDE DEF UnderWay
  <2> QED
    BY <2>1, <2>3, <2>4 DEF Submission, ReviewStages, NoSubmission
<1> HIDE DEF r
<1>2. ASSUME NEW q \in Submissions \ {s}
      PROVE  /\ e(q) \in Submission
             /\ e(q).stage = submission[q].stage /\ e(q).deal = submission[q].deal
             /\ e(q).stars = submission[q].stars /\ e(q).seen = submission[q].seen
             /\ e(q).found = submission[q].found /\ e(q).writes = submission[q].writes
             /\ q \in UnderWay => e(q).met
  <2>1. submission[q] \in Submission
    BY DEF ReviewsTypeOK
  <2> QED
    BY <2>1 DEF Submission
<1>3. submission' = [q \in Submissions |-> e(q)]
  BY DEF LoadDeal, r
<1>4. e(s) = r
  OBVIOUS
<1> HIDE DEF e
<1> QED
  BY <1>1, <1>2, <1>3, <1>4

\* The end of a request empties its entry.
LEMMA EndedEntry ==
  ASSUME ReviewsTypeOK, NEW s \in Submissions,
         submission' = [submission EXCEPT ![s] = NoSubmission]
  PROVE  /\ submission' \in [Submissions -> Submission] /\ submission'[s] = NoSubmission
         /\ submission'[s].stage = "idle"
         /\ \A q \in Submissions \ {s} : submission'[q] = submission[q]
<1>1. NoReviews \in Reviews
  BY DEF NoReviews, Reviews
<1>2. Rating(NoReviews) \in RatingColumns
  BY <1>1, RatingType
<1>3. NoSubmission \in Submission /\ NoSubmission.stage = "idle"
  BY <1>2 DEF NoSubmission, Submission, ReviewStages
<1> QED
  BY <1>3 DEF ReviewsTypeOK

\* A step of a request between its loading and its end.
LEMMA OwnReviewStep ==
  ASSUME ReviewsInv, NEW s \in Submissions, NEW w \in BOOLEAN,
         InsertReview(s) \/ Aggregate(s) \/ FlushPerson(s, w)
  PROVE  ReviewsInv'
<1> DEFINE n == Cardinality(Reviewed(review))
<1>1. UNCHANGED <<completed, review, person, services, overlapped>>
  BY DEF InsertReview, Aggregate, FlushPerson
<1>2. ReviewsTypeOK /\ SubmissionsHold /\ RatingsAgree
  BY DEF ReviewsInv
<1>3. /\ submission' \in [Submissions -> Submission]
      /\ submission'[s].deal = submission[s].deal
      /\ submission'[s].stars = submission[s].stars
      /\ submission'[s].seen = submission[s].seen
      /\ submission'[s].met = submission[s].met
      /\ submission'[s].stage \in {"inserted", "counted", "written"}
      /\ submission[s].stage \in {"loaded", "inserted", "counted"}
      /\ submission[s].stage = "loaded" => submission'[s].stage = "inserted"
      /\ submission[s].stage = "inserted" =>
            /\ submission'[s].stage = "counted"
            /\ submission'[s].found = Rating(Visible(s))
      /\ submission[s].stage = "counted" =>
            /\ submission'[s].found = submission[s].found
            /\ \/ submission'[s].writes
               \/ submission'[s].found.average = submission'[s].seen.average
      /\ submission[s].stage # "idle"
      /\ submission[s].deal \in Deals /\ review[submission[s].deal] = 0
      /\ submission[s].stars \in Stars
      /\ \A q \in Submissions \ {s} : submission'[q] = submission[q]
  BY <1>2, OwnEntry
<1>4. n \in Nat /\ n' = n
  BY <1>1, <1>2, ReviewsAreFinite
<1>5. ReviewsTypeOK'
  BY <1>1, <1>2, <1>3 DEF ReviewsTypeOK
<1>6. RatingsAgree'
  BY <1>1, <1>2 DEF RatingsAgree
<1>7. UnderWay' = UnderWay
  BY <1>3 DEF UnderWay
<1>8. ASSUME NEW q \in Submissions PROVE SubmissionHolds(q)'
  <2>1. SubmissionHolds(q)
    BY <1>2 DEF SubmissionsHold
  <2>2. CASE q # s
    <3>1. submission'[q] = submission[q]
      BY <1>3, <2>2
    <3> QED
      BY <1>1, <1>7, <2>1, <3>1 DEF SubmissionHolds, Visible
  <2>3. CASE q = s
    <3> DEFINE g == Rating(Visible(s))
    <3>1. /\ submission[s].deal \in completed /\ submission[s].stars \in Stars
          /\ submission[s].seen.count <= n
          /\ ~submission[s].met => UnderWay = {s} /\ submission[s].seen = person
          /\ submission[s].stage = "counted" =>
               /\ submission[s].seen.count < submission[s].found.count
               /\ submission[s].found.count <= n + 1
               /\ ~submission[s].met => submission[s].found = g
      BY <1>3, <2>1, <2>3 DEF SubmissionHolds
    <3>2. submission[s].seen.count \in Nat
      BY <1>2 DEF ReviewsTypeOK, Submission, RatingColumns
    <3>3. Rating(Visible(s)).count = n + 1
      BY <1>2, <1>3, SeesOneMore
    <3>4. g' = g
      BY <1>1, <1>3 DEF Visible
    <3>5. g.count = n + 1
      BY <3>3
    <3> HIDE DEF g, n
    <3>6. submission'[s].stage \in {"counted", "written"} =>
            /\ submission'[s].seen.count < submission'[s].found.count
            /\ submission'[s].found.count <= n + 1
            /\ ~submission'[s].met => submission'[s].found = g
      <4>1. CASE submission[s].stage = "loaded"
        BY <1>3, <4>1
      <4>2. CASE submission[s].stage = "inserted"
        <5>1. submission'[s].found = g
          BY <1>3, <4>2 DEF g
        <5> QED
          BY <1>3, <1>4, <3>1, <3>2, <3>5, <5>1
      <4>3. CASE submission[s].stage = "counted"
        BY <1>3, <3>1, <4>3
      <4> QED
        BY <1>3, <4>1, <4>2, <4>3
    <3>7. submission'[s].stage = "written" =>
            \/ submission'[s].writes
            \/ submission'[s].found.average = submission'[s].seen.average
      BY <1>3
    <3>8. /\ submission'[s].stage # "idle" =>
               /\ submission'[s].deal \in completed' /\ submission'[s].stars \in Stars
               /\ submission'[s].seen.count <= n'
          /\ review'[submission'[s].deal] = 0
          /\ submission'[s].stage # "idle" /\ ~submission'[s].met =>
               UnderWay' = {s} /\ submission'[s].seen = person'
      BY <1>1, <1>3, <1>4, <1>7, <3>1
    <3>9. submission'[s].stage \in {"counted", "written"} =>
            /\ submission'[s].seen.count < submission'[s].found.count
            /\ submission'[s].found.count <= n' + 1
            /\ ~submission'[s].met => submission'[s].found = g'
      BY <1>4, <3>4, <3>6
    <3> QED
      BY <2>3, <3>7, <3>8, <3>9 DEF SubmissionHolds, n, g
  <2> QED
    BY <2>2, <2>3
<1>9. ASSUME NEW p \in Submissions, NEW q \in Submissions, p # q,
             submission'[p].deal = submission'[q].deal,
             submission'[p].stage \in {"inserted", "counted", "written"}
      PROVE  submission'[q].stage \in {"idle", "loaded"}
  <2>1. \A a, b \in Submissions :
          a # b /\ submission[a].deal = submission[b].deal
            /\ submission[a].stage \in {"inserted", "counted", "written"} =>
                  submission[b].stage \in {"idle", "loaded"}
    BY <1>2 DEF SubmissionsHold
  <2>2. submission[p].deal = submission[q].deal
    BY <1>3, <1>9
  <2>3. submission[s].stage = "loaded" => EntryFree(s, submission[s].deal)
    BY <1>3 DEF InsertReview, Aggregate, FlushPerson
  <2>4. CASE p = s
    <3>1. submission[s].stage = "loaded" => submission[q].stage \in {"idle", "loaded"}
      BY <1>9, <2>2, <2>3, <2>4 DEF EntryFree
    <3>2. submission'[q] = submission[q]
      BY <1>3, <1>9, <2>4
    <3> QED
      BY <1>3, <1>9, <2>1, <2>2, <2>4, <3>1, <3>2
  <2>5. CASE q = s
    <3>1. submission'[p] = submission[p]
      BY <1>3, <1>9, <2>5
    <3>2. submission[s].stage = "loaded"
      BY <1>3, <1>9, <2>1, <2>2, <2>5, <3>1
    <3>3. submission[p].stage \in {"idle", "loaded"}
      BY <1>9, <2>2, <2>3, <2>5, <3>2 DEF EntryFree
    <3> QED
      BY <1>9, <3>1, <3>3
  <2>6. CASE p # s /\ q # s
    <3>1. submission'[p] = submission[p] /\ submission'[q] = submission[q]
      BY <1>3, <2>6
    <3> QED
      BY <1>9, <2>1, <2>2, <3>1
  <2> QED
    BY <2>4, <2>5, <2>6
<1>10. Reviewed(review)' \subseteq completed'
  BY <1>1, <1>2 DEF SubmissionsHold
<1>11. SubmissionsHold'
  BY <1>8, <1>9, <1>10 DEF SubmissionsHold
<1> QED
  BY <1>5, <1>6, <1>11 DEF ReviewsInv

\* A request that loads a deal meets those that are under way.
LEMMA LoadReviewStep ==
  ASSUME ReviewsInv, NEW s \in Submissions, NEW d \in Deals, NEW n \in Stars,
         LoadDeal(s, d, n)
  PROVE  ReviewsInv'
<1>1. UNCHANGED <<completed, review, person, services, overlapped>>
  BY DEF LoadDeal
<1>2. ReviewsTypeOK /\ SubmissionsHold /\ RatingsAgree
  BY DEF ReviewsInv
<1>3. /\ submission' \in [Submissions -> Submission]
      /\ submission'[s].stage = "loaded" /\ submission'[s].deal = d
      /\ submission'[s].stars = n /\ submission'[s].seen = person
      /\ submission'[s].met = (UnderWay # {})
      /\ \A q \in Submissions \ {s} :
            /\ submission'[q].stage = submission[q].stage
            /\ submission'[q].deal = submission[q].deal
            /\ submission'[q].stars = submission[q].stars
            /\ submission'[q].seen = submission[q].seen
            /\ submission'[q].found = submission[q].found
            /\ submission'[q].writes = submission[q].writes
            /\ q \in UnderWay => submission'[q].met
  BY <1>2, LoadedEntries
<1>4. submission[s] = NoSubmission /\ d \in completed
  BY DEF LoadDeal
<1>5. submission[s].stage = "idle" /\ d \in completed
  BY <1>4 DEF NoSubmission
<1>6. ReviewsTypeOK'
  BY <1>1, <1>2, <1>3 DEF ReviewsTypeOK
<1>7. RatingsAgree'
  BY <1>1, <1>2 DEF RatingsAgree
<1>8. UnderWay' = UnderWay \cup {s}
  BY <1>3 DEF UnderWay
<1>9. ASSUME NEW q \in Submissions PROVE SubmissionHolds(q)'
  <2>1. CASE q = s
    <3>1. ~submission'[s].met => UnderWay' = {s}
      BY <1>3, <1>8
    <3>2. person.count <= Cardinality(Reviewed(review))
      BY <1>2 DEF RatingsAgree
    <3>3. submission'[s].seen.count <= Cardinality(Reviewed(review))'
      BY <1>1, <1>3, <3>2
    <3> QED
      BY <1>1, <1>3, <1>5, <2>1, <3>1, <3>3 DEF SubmissionHolds
  <2>2. CASE q # s
    <3>1. /\ submission'[q].stage = submission[q].stage
          /\ submission'[q].deal = submission[q].deal
          /\ submission'[q].stars = submission[q].stars
          /\ submission'[q].seen = submission[q].seen
          /\ submission'[q].found = submission[q].found
          /\ submission'[q].writes = submission[q].writes
          /\ submission[q].stage # "idle" => submission'[q].met
      BY <1>3, <2>2 DEF UnderWay
    <3>2. SubmissionHolds(q)
      BY <1>2 DEF SubmissionsHold
    <3>3. submission'[q].stage \in {"counted", "written"} => submission'[q].stage # "idle"
      OBVIOUS
    <3> QED
      BY <1>1, <3>1, <3>2, <3>3 DEF SubmissionHolds
  <2> QED
    BY <2>1, <2>2
<1>10. ASSUME NEW p \in Submissions, NEW q \in Submissions, p # q,
             submission'[p].deal = submission'[q].deal,
             submission'[p].stage \in {"inserted", "counted", "written"}
      PROVE  submission'[q].stage \in {"idle", "loaded"}
  <2>1. CASE q = s
    BY <1>3, <2>1
  <2>2. CASE q # s
    <3>1. p # s
      BY <1>3, <1>10
    <3>2. /\ submission[p].deal = submission[q].deal
          /\ submission[p].stage \in {"inserted", "counted", "written"}
          /\ submission'[q].stage = submission[q].stage
      BY <1>3, <1>10, <2>2, <3>1
    <3> QED
      BY <1>2, <1>10, <3>2 DEF SubmissionsHold
  <2> QED
    BY <2>1, <2>2
<1>11. Reviewed(review)' \subseteq completed'
  BY <1>1, <1>2 DEF SubmissionsHold
<1>12. SubmissionsHold'
  BY <1>9, <1>10, <1>11 DEF SubmissionsHold
<1> QED
  BY <1>6, <1>7, <1>12 DEF ReviewsInv

\* What a commit writes: one review, and ratings that count alike; the rating
\* it saw, to both, if it met no other request.
LEMMA CommittedRating ==
  ASSUME ReviewsInv, NEW s \in Submissions, CommitReview(s)
  PROVE  /\ review' \in Reviews /\ person' \in RatingColumns
         /\ services' \in RatingColumns /\ overlapped' = submission[s].met
         /\ submission[s].stage = "written"
         /\ Reviewed(review)' = Reviewed(review) \cup {submission[s].deal}
         /\ \A d \in Deals \ {submission[s].deal} : review'[d] = review[d]
         /\ Cardinality(Reviewed(review))' = Cardinality(Reviewed(review)) + 1
         /\ services'.count = person'.count
         /\ person'.count <= Cardinality(Reviewed(review)) + 1
         /\ ~submission[s].met => person' = Rating(review') /\ services' = Rating(review')
<1>1. ReviewsTypeOK /\ SubmissionHolds(s)
  BY DEF ReviewsInv, SubmissionsHold
<1>2. PICK k \in Submission : k = submission[s]
  BY <1>1 DEF ReviewsTypeOK
<1>3. k.stage = "written"
  BY <1>2 DEF CommitReview
<1>4. /\ k.deal \in completed /\ k.stars \in Stars /\ review[k.deal] = 0
      /\ k.seen.count < k.found.count
      /\ k.found.count <= Cardinality(Reviewed(review)) + 1
      /\ ~k.met => k.found = Rating(Visible(s))
      /\ k.writes \/ k.found.average = k.seen.average
      /\ ~k.met => k.seen = person
  BY <1>1, <1>2, <1>3 DEF SubmissionHolds
<1>5. k.deal \in Deals
  BY <1>1, <1>4 DEF ReviewsTypeOK
<1>6. /\ k.seen \in RatingColumns /\ k.found \in RatingColumns
      /\ person \in RatingColumns
  BY <1>1, <1>2 DEF ReviewsTypeOK, Submission
<1>7. WritesCount(s)
  <2>1. k.seen.count \in Int /\ k.found.count \in Int
    BY <1>6 DEF RatingColumns
  <2> QED
    BY <1>2, <1>4, <2>1 DEF WritesCount
<1>8. review' = Visible(s)
  BY <1>2 DEF CommitReview, Visible
<1>9. /\ services' = k.found /\ overlapped' = k.met
      /\ person' = [average |-> IF k.writes THEN k.found.average ELSE person.average,
                    count |-> k.found.count]
  BY <1>2, <1>7 DEF CommitReview
<1>10. /\ Visible(s) \in Reviews
       /\ Reviewed(Visible(s)) = Reviewed(review) \cup {k.deal}
       /\ Rating(Visible(s)).count = Cardinality(Reviewed(review)) + 1
  BY <1>1, <1>2, <1>4, <1>5, SeesOneMore
<1>11. Cardinality(Reviewed(Visible(s))) = Cardinality(Reviewed(review)) + 1
  BY <1>10, RatingType
<1>12. person' \in RatingColumns /\ person'.count = k.found.count
  BY <1>6, <1>9 DEF RatingColumns
<1>13. ~k.met => person' = k.found
  <2> SUFFICES ASSUME ~k.met PROVE person' = k.found
    OBVIOUS
  <2>1. person'.average = k.found.average
    BY <1>4, <1>9
  <2>2. k.found = [average |-> k.found.average, count |-> k.found.count]
    BY <1>6 DEF RatingColumns
  <2>3. person' = [average |-> k.found.average, count |-> k.found.count]
    BY <1>9, <2>1
  <2> QED
    BY <2>2, <2>3
<1>14. \A d \in Deals \ {k.deal} : Visible(s)[d] = review[d]
  BY <1>1, <1>2 DEF Visible, ReviewsTypeOK, Reviews
<1> HIDE DEF Visible, Rating, Reviewed
<1>15. Reviewed(review)' = Reviewed(Visible(s))
  BY <1>8 DEF Reviewed
<1>16. Cardinality(Reviewed(review))' = Cardinality(Reviewed(Visible(s)))
  BY <1>15
<1> QED
  BY <1>2, <1>3, <1>4, <1>6, <1>8, <1>9, <1>10, <1>11, <1>12, <1>13, <1>14, <1>15, <1>16

\* The end of a request: the reviews grow by its own, or stay.
LEMMA EndReviewStep ==
  ASSUME ReviewsInv, NEW s \in Submissions, CommitReview(s) \/ RollbackReview(s)
  PROVE  ReviewsInv'
<1> DEFINE n == Cardinality(Reviewed(review))
<1>1. ReviewsTypeOK /\ SubmissionsHold /\ RatingsAgree
  BY DEF ReviewsInv
<1>2. UNCHANGED completed /\ submission' = [submission EXCEPT ![s] = NoSubmission]
  BY DEF CommitReview, RollbackReview
<1>3. /\ submission' \in [Submissions -> Submission] /\ submission'[s] = NoSubmission
      /\ submission'[s].stage = "idle"
      /\ \A q \in Submissions \ {s} : submission'[q] = submission[q]
  BY <1>1, <1>2, EndedEntry
<1>4. PICK k \in Submission : k = submission[s]
  BY <1>1 DEF ReviewsTypeOK
<1>5. k.stage # "idle"
  BY <1>4 DEF CommitReview, RollbackReview
<1>6. SubmissionHolds(s)
  BY <1>1 DEF SubmissionsHold
<1>7. k.deal \in completed /\ k.deal \in Deals
  BY <1>1, <1>4, <1>5, <1>6 DEF SubmissionHolds, ReviewsTypeOK
<1>9. n \in Nat
  BY <1>1, ReviewsAreFinite
<1>10. \/ UNCHANGED <<review, person, services, overlapped>>
       \/ /\ review' \in Reviews /\ person' \in RatingColumns
          /\ services' \in RatingColumns /\ overlapped' = k.met /\ k.stage = "written"
          /\ Reviewed(review)' = Reviewed(review) \cup {k.deal}
          /\ \A d \in Deals \ {k.deal} : review'[d] = review[d]
          /\ n' = n + 1 /\ services'.count = person'.count /\ person'.count <= n + 1
          /\ ~k.met => person' = Rating(review') /\ services' = Rating(review')
  <2>1. CASE RollbackReview(s)
    BY <2>1 DEF RollbackReview
  <2>2. CASE CommitReview(s)
    BY <1>4, <2>2, CommittedRating
  <2> QED
    BY <2>1, <2>2
<1>11. ReviewsTypeOK'
  <2>1. overlapped' \in BOOLEAN
    BY <1>1, <1>4, <1>10 DEF ReviewsTypeOK, Submission
  <2>2. review' \in Reviews /\ person' \in RatingColumns /\ services' \in RatingColumns
    BY <1>1, <1>10 DEF ReviewsTypeOK
  <2> QED
    BY <1>1, <1>2, <1>3, <2>1, <2>2 DEF ReviewsTypeOK
<1>12. n <= n'
  <2>1. CASE UNCHANGED <<review, person, services, overlapped>>
    BY <1>9, <2>1
  <2>2. CASE n' = n + 1
    BY <1>9, <2>2
  <2> QED
    BY <1>10, <2>1, <2>2
<1>13. RatingsAgree'
  <2>1. CASE UNCHANGED <<review, person, services, overlapped>>
    BY <1>1, <2>1 DEF RatingsAgree
  <2>2. CASE ~UNCHANGED <<review, person, services, overlapped>>
    <3>1. /\ overlapped' = k.met /\ services'.count = person'.count
          /\ n' = n + 1 /\ person'.count <= n + 1
          /\ ~k.met => person' = Rating(review') /\ services' = Rating(review')
      BY <1>10, <2>2
    <3>2. person'.count <= n'
      BY <3>1
    <3> QED
      BY <3>1, <3>2 DEF RatingsAgree
  <2> QED
    BY <2>1, <2>2
<1>14. ASSUME NEW q \in Submissions PROVE SubmissionHolds(q)'
  <2>1. CASE q = s
    BY <1>3, <2>1 DEF SubmissionHolds
  <2>2. CASE q # s
    <3>1. submission'[q] = submission[q]
      BY <1>3, <2>2
    <3>2. SubmissionHolds(q)
      BY <1>1 DEF SubmissionsHold
    <3>3. PICK j \in Submission : j = submission[q]
      BY <1>1 DEF ReviewsTypeOK
    <3>4. j.stage # "idle" => j.met
      <4>1. s \in UnderWay
        BY <1>4, <1>5 DEF UnderWay
      <4> QED
        BY <2>2, <3>2, <3>3, <4>1 DEF SubmissionHolds
    <3>5. j.stage # "idle" =>
            j.deal \in completed' /\ j.stars \in Stars /\ j.seen.count <= n'
      <4>1. j.seen.count \in Int /\ n' \in Int
        <5>1. j.seen.count \in Int
          BY <3>3 DEF Submission, RatingColumns
        <5>2. n' = n \/ n' = n + 1
          BY <1>10
        <5> QED
          BY <1>9, <5>1, <5>2
      <4>2. j.stage # "idle" =>
              j.deal \in completed /\ j.stars \in Stars /\ j.seen.count <= n
        BY <3>2, <3>3 DEF SubmissionHolds
      <4> HIDE DEF n
      <4> QED
        BY <1>2, <1>9, <1>12, <4>1, <4>2
    <3>6. j.stage \in {"inserted", "counted", "written"} => review'[j.deal] = 0
      <4>1. j.stage \in {"inserted", "counted", "written"} =>
              review[j.deal] = 0 /\ j.deal \in completed
        BY <3>2, <3>3 DEF SubmissionHolds
      <4>2. j.stage \in {"inserted", "counted", "written"} /\ k.stage = "written" =>
              j.deal # k.deal
        BY <1>1, <1>4, <2>2, <3>3 DEF SubmissionsHold
      <4>3. completed \subseteq Deals
        BY <1>1 DEF ReviewsTypeOK
      <4> QED
        BY <1>10, <4>1, <4>2, <4>3
    <3>7. j.stage \in {"counted", "written"} =>
            j.seen.count < j.found.count /\ j.found.count <= n' + 1
      <4>1. j.stage \in {"counted", "written"} =>
              j.seen.count < j.found.count /\ j.found.count <= n + 1
        BY <3>2, <3>3 DEF SubmissionHolds
      <4>2. j.found.count \in Int
        BY <3>3 DEF Submission, RatingColumns
      <4>3. n' = n \/ n' = n + 1
        BY <1>10
      <4> HIDE DEF n
      <4> QED
        BY <1>9, <4>1, <4>2, <4>3
    <3>8. submission'[q] = j
      BY <3>1, <3>3
    <3>9. j.stage = "written" => j.writes \/ j.found.average = j.seen.average
      BY <3>2, <3>3 DEF SubmissionHolds
    <3>10. j.stage \in {"counted", "written"} => j.met
      BY <3>4
    <3> QED
      BY <3>4, <3>5, <3>6, <3>7, <3>8, <3>9, <3>10 DEF SubmissionHolds
  <2> QED
    BY <2>1, <2>2
<1>15. ASSUME NEW p \in Submissions, NEW q \in Submissions, p # q,
             submission'[p].deal = submission'[q].deal,
             submission'[p].stage \in {"inserted", "counted", "written"}
      PROVE  submission'[q].stage \in {"idle", "loaded"}
  <2>1. CASE q = s
    BY <1>3, <2>1
  <2>2. CASE q # s
    <3>1. p # s
      BY <1>3, <1>15
    <3>2. submission'[p] = submission[p] /\ submission'[q] = submission[q]
      BY <1>3, <2>2, <3>1
    <3> QED
      BY <1>1, <1>15, <3>2 DEF SubmissionsHold
  <2> QED
    BY <2>1, <2>2
<1>16. Reviewed(review)' \subseteq completed'
  <2>1. Reviewed(review) \subseteq completed
    BY <1>1 DEF SubmissionsHold
  <2>2. Reviewed(review)' \subseteq Reviewed(review) \cup {k.deal}
    BY <1>10
  <2> QED
    BY <1>2, <1>7, <2>1, <2>2
<1>17. SubmissionsHold'
  BY <1>14, <1>15, <1>16 DEF SubmissionsHold
<1> QED
  BY <1>11, <1>13, <1>17 DEF ReviewsInv

LEMMA ReviewsStep == ReviewsInv /\ [ReviewsNext]_reviewVars => ReviewsInv'
<1> SUFFICES ASSUME ReviewsInv, [ReviewsNext]_reviewVars PROVE ReviewsInv'
  OBVIOUS
<1>1. CASE UNCHANGED reviewVars
  <2>1. UNCHANGED <<completed, review, person, services, submission, overlapped>>
    BY <1>1 DEF reviewVars
  <2>2. ReviewsTypeOK'
    BY <2>1 DEF ReviewsInv, ReviewsTypeOK
  <2>3. SubmissionsHold'
    BY <2>1 DEF ReviewsInv, SubmissionsHold, SubmissionHolds, UnderWay, Visible
  <2>4. RatingsAgree'
    BY <2>1 DEF ReviewsInv, RatingsAgree
  <2> QED
    BY <2>2, <2>3, <2>4 DEF ReviewsInv
<1>2. ASSUME NEW d \in Deals, DealCompletes(d) PROVE ReviewsInv'
  <2>1. /\ completed' = completed \cup {d}
        /\ UNCHANGED <<review, person, services, submission, overlapped>>
    BY <1>2 DEF DealCompletes
  <2>2. ReviewsTypeOK'
    BY <2>1 DEF ReviewsInv, ReviewsTypeOK
  <2>3. SubmissionsHold'
    BY <2>1 DEF ReviewsInv, SubmissionsHold, SubmissionHolds, UnderWay, Visible
  <2>4. RatingsAgree'
    BY <2>1 DEF ReviewsInv, RatingsAgree
  <2> QED
    BY <2>2, <2>3, <2>4 DEF ReviewsInv
<1>3. ASSUME NEW s \in Submissions, NEW d \in Deals, NEW n \in Stars, LoadDeal(s, d, n)
      PROVE  ReviewsInv'
  BY <1>3, LoadReviewStep
<1>4. ASSUME NEW s \in Submissions, NEW w \in BOOLEAN,
             InsertReview(s) \/ Aggregate(s) \/ FlushPerson(s, w)
      PROVE  ReviewsInv'
  BY <1>4, OwnReviewStep
<1>5. ASSUME NEW s \in Submissions, CommitReview(s) \/ RollbackReview(s) PROVE ReviewsInv'
  BY <1>5, EndReviewStep
<1> QED
  BY <1>1, <1>2, <1>3, <1>4, <1>5 DEF ReviewsNext

LEMMA ReviewsBegin == ReviewsInit => ReviewsInv
<1> SUFFICES ASSUME ReviewsInit PROVE ReviewsInv
  OBVIOUS
<1>1. NoReviews \in Reviews /\ Reviewed(NoReviews) = {}
  BY DEF NoReviews, Reviews, Reviewed
<1>2. /\ Rating(NoReviews) \in RatingColumns
      /\ Rating(NoReviews).count = 0 /\ Cardinality(Reviewed(NoReviews)) = 0
  BY <1>1, RatingType, FS_EmptySet
<1>3. NoSubmission \in Submission /\ NoSubmission.stage = "idle"
  BY <1>2 DEF NoSubmission, Submission, ReviewStages
<1> HIDE DEF NoReviews, Rating, Reviewed
<1>4. ReviewsTypeOK
  BY <1>1, <1>2, <1>3 DEF ReviewsInit, ReviewsTypeOK
<1>5. SubmissionsHold
  BY <1>1, <1>3 DEF ReviewsInit, SubmissionsHold, SubmissionHolds
<1>6. RatingsAgree
  BY <1>2 DEF ReviewsInit, RatingsAgree
<1> QED
  BY <1>4, <1>5, <1>6 DEF ReviewsInv

\* However many requests are under way, the services count as many reviews as
\* the person's row and neither counts one that is not committed; and after a
\* submission that overlapped no other one both columns of both are exact.
THEOREM RatingsAreExact == ReviewsSpec => []RatingsAgree
<1>1. ReviewsInv => RatingsAgree
  BY DEF ReviewsInv
<1> QED
  BY <1>1, ReviewsBegin, ReviewsStep, PTL DEF ReviewsSpec

---------------------------------------------------------------------------
(* Levels.                                                                 *)

\* Counts are of finite sets, and of more statuses there are more orders.
LEMMA SoldCounts ==
  /\ \A statuses : Sold(statuses) \in Nat
  /\ \A S, T : S \subseteq T => Sold(S) <= Sold(T)
<1>1. ASSUME NEW S, NEW T, S \subseteq T PROVE Sold(S) \in Nat /\ Sold(S) <= Sold(T)
  <2> DEFINE A == {o \in SoldOrders : sold[o] \in S}
             B == {o \in SoldOrders : sold[o] \in T}
  <2>1. A \subseteq B /\ B \subseteq SoldOrders
    BY <1>1
  <2>2. IsFiniteSet(B)
    BY <2>1, LevelsAssumption, FS_Subset
  <2> QED
    BY <2>1, <2>2, OneLess DEF Sold
<1> QED
  BY <1>1

\* Orders complete once and for all.
LEMMA CompletedGrows ==
  ASSUME LevelsTypeOK, NEW o \in SoldOrders, OrderMoves(o)
  PROVE  Sold({"completed"}) <= Sold({"completed"})'
<1> DEFINE A == {x \in SoldOrders : sold[x] \in {"completed"}}
<1>1. \A x \in SoldOrders : sold[x] = "completed" => sold'[x] = "completed"
  BY DEF OrderMoves, LevelsTypeOK
<1>2. A \subseteq A' /\ A' \subseteq SoldOrders
  BY <1>1
<1>3. IsFiniteSet(A')
  BY <1>2, LevelsAssumption, FS_Subset
<1>4. Cardinality(A) <= Cardinality(A')
  BY <1>2, <1>3, OneLess
<1> QED
  BY <1>4 DEF Sold

\* A rate that is at most one scores at most 200.
LEMMA ScoreScale ==
  ASSUME NEW p \in Profile, p.completed <= p.total
  PROVE  Score(p) \in Nat /\ Score(p) <= 250
<1>1. PICK c \in Nat, t \in Nat : c = p.completed /\ t = p.total
  BY DEF Profile
<1>2. c <= t
  BY <1>1
<1> DEFINE rate == IF t = 0 THEN 0 ELSE (200 * c) \div t
<1>3. rate \in Nat /\ rate <= 200
  <2>1. CASE t = 0
    BY <2>1
  <2>2. CASE t # 0
    <3>1. t \in Nat \ {0} /\ 200 * c \in Nat /\ 200 * c <= 200 * t
      BY <1>2, <2>2
    <3>2. ASSUME NEW a \in Nat, a <= 200 * t PROVE a \div t \in Nat /\ a \div t <= 200
      BY <3>1, <3>2
    <3> QED
      BY <2>2, <3>1, <3>2
  <2> QED
    BY <2>1, <2>2
<1>4. PICK l \in Levels : l = p.level
  BY DEF Profile
<1> DEFINE bonus == CASE l = "new_seller" -> 0
                      [] l = "level_1" -> 17
                      [] l = "level_2" -> 33
                      [] l = "top_rated" -> 50
<1>5. bonus \in Nat /\ bonus <= 50
  BY <1>4 DEF Levels
<1>6. Score(p) = rate + bonus
  BY <1>1, <1>4 DEF Score
<1> HIDE DEF rate, bonus
<1> QED
  BY <1>3, <1>5, <1>6

\* LevelsInv, of one run.
RunHolds(r) ==
    /\ nightly[r].completed <= Sold({"completed"})
    /\ nightly[r].score <= 250
    /\ nightly[r].stage = "counted" => nightly[r].completed <= nightly[r].total

LEMMA LevelsParts ==
  LevelsInv <=> /\ LevelsTypeOK
                /\ profile.completed <= profile.total
                /\ ScoreInScale
                /\ \A r \in Runs : RunHolds(r)
                /\ profile.level \in {"new_seller", "top_rated"} /\ profile.response = 0
  BY DEF LevelsInv, RateIsARate, RunHolds

\* A run's own step on its own counts.
LEMMA RunSteps ==
  ASSUME LevelsTypeOK, NEW r \in Runs, NEW k \in Nightly,
         nightly' = [nightly EXCEPT ![r] = k], UNCHANGED sold,
         \A q \in Runs : RunHolds(q),
         k.completed <= Sold({"completed"}), k.score <= 250,
         k.stage = "counted" => k.completed <= k.total
  PROVE  nightly' \in [Runs -> Nightly] /\ \A q \in Runs : RunHolds(q)'
<1>1. nightly' \in [Runs -> Nightly] /\ nightly'[r] = k
  BY DEF LevelsTypeOK
<1>2. \A q \in Runs \ {r} : nightly'[q] = nightly[q]
  BY DEF LevelsTypeOK
<1>3. Sold({"completed"})' = Sold({"completed"})
  BY DEF Sold
<1>4. RunHolds(r)'
  BY <1>1, <1>3 DEF RunHolds
<1>5. ASSUME NEW q \in Runs \ {r} PROVE RunHolds(q)'
  BY <1>2, <1>3, <1>5 DEF RunHolds
<1> QED
  BY <1>1, <1>4, <1>5

LEMMA NoRun ==
  /\ NoNightly \in Nightly /\ NoNightly.completed = 0 /\ NoNightly.score = 0
  /\ NoNightly.stage = "idle"
  BY DEF NoNightly, Nightly

LEMMA LevelsStep == LevelsInv /\ [LevelsNext]_levelVars => LevelsInv'
<1> SUFFICES ASSUME LevelsInv, [LevelsNext]_levelVars PROVE LevelsInv'
  OBVIOUS
<1>1. /\ LevelsTypeOK /\ profile.completed <= profile.total /\ ScoreInScale
      /\ \A r \in Runs : RunHolds(r)
      /\ profile.level \in {"new_seller", "top_rated"} /\ profile.response = 0
  BY LevelsParts
<1>2. profile \in Profile /\ score \in Nat /\ score <= 250 /\ Sold({"completed"}) \in Nat
  BY <1>1, SoldCounts DEF LevelsTypeOK, ScoreInScale
<1>3. ASSUME UNCHANGED <<sold, steady, profile, score>>, nightly' \in [Runs -> Nightly],
             \A q \in Runs : RunHolds(q)'
      PROVE  LevelsInv'
  <2>1. LevelsTypeOK'
    BY <1>1, <1>3 DEF LevelsTypeOK
  <2>2. ScoreInScale'
    BY <1>1, <1>3 DEF ScoreInScale
  <2>3. RateIsARate'
    BY <1>1, <1>3 DEF RateIsARate, RunHolds
  <2>4. \A q \in Runs : /\ nightly'[q].completed <= Sold({"completed"})'
                        /\ nightly'[q].score <= 250
    BY <1>3 DEF RunHolds
  <2> QED
    BY <1>1, <1>3, <2>1, <2>2, <2>3, <2>4 DEF LevelsInv
<1>4. ASSUME NEW o \in SoldOrders, OrderMoves(o) PROVE LevelsInv'
  <2>1. UNCHANGED <<steady, profile, nightly, score>>
    BY <1>4 DEF OrderMoves
  <2>2. LevelsTypeOK'
    BY <1>1, <1>4 DEF LevelsTypeOK, OrderMoves
  <2>3. Sold({"completed"}) <= Sold({"completed"})' /\ Sold({"completed"})' \in Nat
    <3>1. Sold({"completed"})' \in Nat
      <4> DEFINE A == {x \in SoldOrders : sold[x] \in {"completed"}}
      <4>1. A' \subseteq SoldOrders
        OBVIOUS
      <4>2. Cardinality(A') \in Nat
        BY <4>1, LevelsAssumption, OneLess
      <4> QED
        BY <4>2 DEF Sold
    <3> QED
      BY <1>1, <1>4, <3>1, CompletedGrows
  <2>4. ASSUME NEW q \in Runs
        PROVE  /\ nightly'[q].completed <= Sold({"completed"})' /\ nightly'[q].score <= 250
               /\ nightly'[q].stage = "counted" => nightly'[q].completed <= nightly'[q].total
    <3>1. /\ nightly[q].completed <= Sold({"completed"}) /\ nightly[q].score <= 250
          /\ nightly[q].stage = "counted" => nightly[q].completed <= nightly[q].total
      BY <1>1 DEF RunHolds
    <3>2. PICK n \in Nat : n = nightly[q].completed
      BY <1>1 DEF LevelsTypeOK, Nightly
    <3>3. n <= Sold({"completed"})'
      BY <1>2, <2>3, <3>1, <3>2
    <3> QED
      BY <2>1, <3>1, <3>2, <3>3
  <2>5. RateIsARate' /\ ScoreInScale'
    BY <1>1, <2>1, <2>4 DEF RateIsARate, ScoreInScale
  <2> QED
    BY <1>1, <2>1, <2>2, <2>4, <2>5 DEF LevelsInv
<1>5. ASSUME NEW r \in Runs, NEW k \in Nightly, nightly' = [nightly EXCEPT ![r] = k],
             UNCHANGED <<sold, steady, profile, score>>,
             k.completed <= Sold({"completed"}), k.score <= 250,
             k.stage = "counted" => k.completed <= k.total
      PROVE  LevelsInv'
  BY <1>1, <1>3, <1>5, RunSteps
<1>6. ASSUME NEW r \in Runs
      PROVE  /\ nightly[r] \in Nightly /\ nightly[r].completed <= Sold({"completed"})
             /\ nightly[r].score <= 250
             /\ nightly[r].stage = "counted" => nightly[r].completed <= nightly[r].total
  BY <1>1 DEF LevelsTypeOK, RunHolds
<1>7. ASSUME NEW r \in Runs, CountCompleted(r) PROVE LevelsInv'
  <2> DEFINE k == [NoNightly EXCEPT !.stage = "completed", !.completed = Sold({"completed"})]
  <2>1. /\ k \in Nightly /\ k.completed = Sold({"completed"}) /\ k.score = 0
        /\ k.stage = "completed"
    BY <1>2 DEF NoNightly, Nightly
  <2>2. nightly' = [nightly EXCEPT ![r] = k] /\ UNCHANGED <<sold, steady, profile, score>>
    BY <1>7 DEF CountCompleted
  <2> HIDE DEF k
  <2>3. k.completed <= Sold({"completed"}) /\ k.score <= 250
    BY <1>2, <2>1
  <2> QED
    BY <1>5, <2>1, <2>2, <2>3
<1>8. ASSUME NEW r \in Runs, CountTotal(r) PROVE LevelsInv'
  <2> DEFINE n == Sold({"open", "completed", "cancelled"})
             k == [nightly[r] EXCEPT !.stage = "counted", !.total = n]
  <2>1. Sold({"completed"}) <= n /\ n \in Nat
    <3>1. {"completed"} \subseteq {"open", "completed", "cancelled"}
      OBVIOUS
    <3> QED
      BY <3>1, SoldCounts
  <2> HIDE DEF n
  <2>2. /\ k \in Nightly /\ k.completed = nightly[r].completed /\ k.score = nightly[r].score
        /\ k.total = n
    BY <1>6, <2>1 DEF Nightly
  <2>3. nightly' = [nightly EXCEPT ![r] = k] /\ UNCHANGED <<sold, steady, profile, score>>
    BY <1>8 DEF CountTotal, n
  <2> HIDE DEF k
  <2>4. k.completed \in Nat
    BY <2>2 DEF Nightly
  <2>5. k.completed <= Sold({"completed"}) /\ k.completed <= k.total /\ k.score <= 250
    BY <1>2, <1>6, <2>1, <2>2, <2>4
  <2> QED
    BY <1>5, <2>2, <2>3, <2>5
<1>9. ASSUME NEW r \in Runs, ReadForRank(r) PROVE LevelsInv'
  <2> DEFINE k == [nightly[r] EXCEPT !.stage = "scored", !.score = Score(profile)]
  <2>1. Score(profile) \in Nat /\ Score(profile) <= 250
    BY <1>1, <1>2, ScoreScale
  <2>2. /\ k \in Nightly /\ k.completed = nightly[r].completed /\ k.score = Score(profile)
        /\ k.stage = "scored"
    BY <1>6, <2>1 DEF Nightly
  <2>3. nightly' = [nightly EXCEPT ![r] = k] /\ UNCHANGED <<sold, steady, profile, score>>
    BY <1>9 DEF ReadForRank
  <2> HIDE DEF k
  <2> QED
    BY <1>5, <1>6, <2>1, <2>2, <2>3
<1>10. ASSUME NEW r \in Runs, RunFails(r) PROVE LevelsInv'
  <2>1. nightly' = [nightly EXCEPT ![r] = NoNightly] /\ UNCHANGED <<sold, steady, profile, score>>
    BY <1>10 DEF RunFails
  <2>2. NoNightly.completed <= Sold({"completed"}) /\ NoNightly.score <= 250
    BY <1>2, NoRun
  <2> QED
    BY <1>5, <2>1, <2>2, NoRun
<1>11. ASSUME NEW r \in Runs, RefreshRank(r) PROVE LevelsInv'
  <2>1. /\ nightly' = [nightly EXCEPT ![r] = NoNightly] /\ UNCHANGED <<sold, steady, profile>>
        /\ score' = nightly[r].score
    BY <1>11 DEF RefreshRank
  <2>2. nightly' \in [Runs -> Nightly] /\ \A q \in Runs : RunHolds(q)'
    <3>1. NoNightly.completed <= Sold({"completed"}) /\ NoNightly.score <= 250
      BY <1>2, NoRun
    <3> QED
      BY <1>1, <2>1, <3>1, NoRun, RunSteps
  <2>3. score' \in Nat /\ score' <= 250
    BY <1>6, <2>1 DEF Nightly
  <2>4. LevelsTypeOK'
    BY <1>1, <2>1, <2>2, <2>3 DEF LevelsTypeOK
  <2>5. ScoreInScale'
    BY <2>3 DEF ScoreInScale
  <2>6. RateIsARate' /\ \A q \in Runs : /\ nightly'[q].completed <= Sold({"completed"})'
                                        /\ nightly'[q].score <= 250
    BY <1>1, <2>1, <2>2 DEF RateIsARate, RunHolds
  <2> QED
    BY <1>1, <2>1, <2>4, <2>5, <2>6 DEF LevelsInv
<1>12. ASSUME NEW r \in Runs, RecalculateLevel(r) PROVE LevelsInv'
  <2>1. PICK k \in Nightly : k = nightly[r]
    BY <1>6
  <2> DEFINE l == NewLevel(k.completed, k.total)
             p == [profile EXCEPT !.completed = k.completed, !.total = k.total, !.level = l]
             m == [k EXCEPT !.stage = "ranking"]
  <2>2. /\ k.stage = "counted" /\ profile' = p /\ nightly' = [nightly EXCEPT ![r] = m]
        /\ UNCHANGED <<sold, steady, score>>
    BY <1>12, <2>1 DEF RecalculateLevel
  <2>3. l \in {"new_seller", "top_rated"}
    <3>1. profile.response = 0 /\ Level1.response \in Nat \ {0} /\ Level2.response \in Nat \ {0}
      BY <1>1, LevelsAssumption
    <3>2. ~ profile.response >= Level1.response /\ ~ profile.response >= Level2.response
      BY <3>1
    <3> QED
      BY <3>2 DEF NewLevel, Qualifies
  <2> HIDE DEF l
  <2>4. /\ p \in Profile /\ p.completed = k.completed /\ p.total = k.total /\ p.level = l
        /\ p.response = profile.response
    BY <1>2, <2>3 DEF Profile, Nightly, Levels
  <2>5. /\ m \in Nightly /\ m.completed = k.completed /\ m.score = k.score
        /\ m.stage = "ranking"
    BY DEF Nightly
  <2> HIDE DEF p, m
  <2>6. nightly' \in [Runs -> Nightly] /\ \A q \in Runs : RunHolds(q)'
    BY <1>1, <1>6, <2>1, <2>2, <2>5, RunSteps
  <2>7. profile'.completed <= profile'.total
    BY <1>6, <2>1, <2>2, <2>4
  <2>8. LevelsTypeOK'
    BY <1>1, <2>2, <2>4, <2>6 DEF LevelsTypeOK
  <2>9. ScoreInScale'
    BY <1>1, <2>2 DEF ScoreInScale
  <2>10. RateIsARate' /\ \A q \in Runs : /\ nightly'[q].completed <= Sold({"completed"})'
                                         /\ nightly'[q].score <= 250
    BY <2>6, <2>7 DEF RateIsARate, RunHolds
  <2>11. profile'.level \in {"new_seller", "top_rated"} /\ profile'.response = 0
    BY <1>1, <2>2, <2>3, <2>4
  <2> QED
    BY <2>8, <2>9, <2>10, <2>11 DEF LevelsInv
<1>13. CASE UNCHANGED levelVars
  BY <1>1, <1>13 DEF levelVars, LevelsInv, LevelsTypeOK, RateIsARate, ScoreInScale, RunHolds, Sold
<1> QED
  BY <1>4, <1>7, <1>8, <1>9, <1>10, <1>11, <1>12, <1>13 DEF LevelsNext

LEMMA LevelsBegin == LevelsInit => LevelsInv
<1> SUFFICES ASSUME LevelsInit PROVE LevelsInv
  OBVIOUS
<1>1. profile \in Profile /\ profile.completed = 0 /\ profile.total = 0 /\ profile.response = 0
      /\ profile.level \in {"new_seller", "top_rated"}
  BY DEF LevelsInit, Profile, Levels
<1>2. LevelsTypeOK
  BY <1>1, NoRun DEF LevelsInit, LevelsTypeOK
<1>3. \A r \in Runs : RunHolds(r)
  BY NoRun, SoldCounts DEF LevelsInit, RunHolds
<1>4. ScoreInScale
  BY DEF LevelsInit, ScoreInScale
<1> QED
  BY <1>1, <1>2, <1>3, <1>4, LevelsParts

---------------------------------------------------------------------------
(* The catalogue.                                                          *)

OwnerStep(t) ==
    \/ \E op \in OwnerOps : OwnerRequest(t, op)
    \/ UpdateService(t) \/ PauseOrResume(t) \/ DeleteService(t)
    \/ \E i \in Images : UploadImage(t, i) \/ LoadRemove(t, i)
    \/ LoadGallery(t) \/ AddImage(t) \/ RemoveImage(t)
    \/ DeleteServiceImage(t) \/ OwnerFails(t)

ModeratorStep(a) ==
    \/ \E op \in ModeratorOps : LoadModeration(a, op)
    \/ Moderate(a) \/ ModerationFails(a)

\* What a request of the owner puts in its own hand.
LEMMA OwnerLoaded ==
  ASSUME CatalogTypeOK, NEW t \in OwnerTabs, NEW op \in OwnerOps,
         NEW i \in Images \cup {NoImage}, OwnerLoads(t, op, i)
  PROVE  /\ ownerTab' \in [OwnerTabs -> OwnerTab]
         /\ ownerTab'[t].op = op /\ ownerTab'[t].status = listing.status
         /\ ownerTab'[t].gallery = gallery /\ ownerTab'[t].image = i
         /\ \A s \in OwnerTabs \ {t} : ownerTab'[s] = ownerTab[s]
<1> DEFINE k == [op |-> op, status |-> listing.status, gallery |-> gallery, image |-> i]
<1>1. k \in OwnerTab
  BY DEF CatalogTypeOK, OwnerTab, Listing
<1>2. ownerTab' = [ownerTab EXCEPT ![t] = k]
  BY DEF OwnerLoads
<1>3. /\ k.op = op /\ k.status = listing.status /\ k.gallery = gallery /\ k.image = i
  OBVIOUS
<1> HIDE DEF k
<1> QED
  BY <1>1, <1>2, <1>3 DEF CatalogTypeOK

LEMMA NothingLoaded ==
  NoOwnerTab \in OwnerTab /\ NoOwnerTab.op = "idle"
<1>1. EmptyGallery \in Gallery
  BY DEF EmptyGallery, Gallery
<1> QED
  BY <1>1 DEF NoOwnerTab, OwnerTab, OwnerOps

LEMMA OwnerEnded ==
  ASSUME CatalogTypeOK, NEW t \in OwnerTabs, OwnerEnds(t)
  PROVE  /\ ownerTab' \in [OwnerTabs -> OwnerTab] /\ ownerTab'[t] = NoOwnerTab
         /\ ownerTab'[t].op = "idle"
         /\ \A s \in OwnerTabs \ {t} : ownerTab'[s] = ownerTab[s]
  BY NothingLoaded DEF CatalogTypeOK, OwnerEnds

LEMMA OwnerUploads ==
  ASSUME CatalogTypeOK, NEW t \in OwnerTabs, NEW i \in Images, UploadImage(t, i)
  PROVE  /\ ownerTab' \in [OwnerTabs -> OwnerTab]
         /\ ownerTab'[t].op = "upload" /\ ownerTab'[t].image = i
         /\ \A s \in OwnerTabs \ {t} : ownerTab'[s] = ownerTab[s]
<1>1. PICK k \in OwnerTab : k = ownerTab[t]
  BY DEF CatalogTypeOK
<1> DEFINE m == [k EXCEPT !.op = "upload", !.image = i]
<1>2. m \in OwnerTab /\ m.op = "upload" /\ m.image = i
  BY DEF OwnerTab, OwnerOps
<1>3. ownerTab' = [ownerTab EXCEPT ![t] = m]
  BY <1>1 DEF UploadImage
<1> HIDE DEF m
<1> QED
  BY <1>2, <1>3 DEF CatalogTypeOK

LEMMA OwnerUnlinks ==
  ASSUME CatalogTypeOK, NEW t \in OwnerTabs, RemoveImage(t)
  PROVE  /\ ownerTab' \in [OwnerTabs -> OwnerTab]
         /\ ownerTab'[t].op = "unlink" /\ ownerTab'[t].image = ownerTab[t].image
         /\ \A s \in OwnerTabs \ {t} : ownerTab'[s] = ownerTab[s]
<1>1. PICK k \in OwnerTab : k = ownerTab[t]
  BY DEF CatalogTypeOK
<1> DEFINE m == [k EXCEPT !.op = "unlink"]
<1>2. m \in OwnerTab /\ m.op = "unlink" /\ m.image = k.image
  BY DEF OwnerTab, OwnerOps
<1>3. ownerTab' = [ownerTab EXCEPT ![t] = m]
  BY <1>1 DEF RemoveImage
<1> HIDE DEF m
<1> QED
  BY <1>1, <1>2, <1>3 DEF CatalogTypeOK

\* A step of the owner changes one request of theirs, and no moderation.
LEMMA OwnerStepType ==
  ASSUME CatalogTypeOK, NEW t \in OwnerTabs, OwnerStep(t)
  PROVE  /\ ownerTab' \in [OwnerTabs -> OwnerTab]
         /\ \A s \in OwnerTabs \ {t} : ownerTab'[s] = ownerTab[s]
         /\ UNCHANGED <<approved, purchase, moderator>>
<1>1. ASSUME NEW op \in OwnerOps, OwnerRequest(t, op)
      PROVE  /\ ownerTab' \in [OwnerTabs -> OwnerTab]
             /\ \A s \in OwnerTabs \ {t} : ownerTab'[s] = ownerTab[s]
  BY <1>1, OwnerLoaded DEF OwnerRequest
<1>2. CASE UpdateService(t) \/ PauseOrResume(t) \/ DeleteService(t) \/ AddImage(t)
           \/ DeleteServiceImage(t) \/ OwnerFails(t)
  BY <1>2, OwnerEnded
  DEF UpdateService, PauseOrResume, DeleteService, AddImage, DeleteServiceImage, OwnerFails
<1>3. ASSUME NEW i \in Images, LoadRemove(t, i)
      PROVE  /\ ownerTab' \in [OwnerTabs -> OwnerTab]
             /\ \A s \in OwnerTabs \ {t} : ownerTab'[s] = ownerTab[s]
  BY <1>3, OwnerLoaded DEF LoadRemove, OwnerOps
<1>4. CASE LoadGallery(t)
  <2>1. ownerTab[t].image \in Images \cup {NoImage}
    BY DEF CatalogTypeOK, OwnerTab
  <2> QED
    BY <1>4, <2>1, OwnerLoaded DEF LoadGallery, OwnerOps
<1>5. UNCHANGED <<approved, purchase, moderator>>
  BY DEF OwnerStep, OwnerRequest, UpdateService, PauseOrResume, DeleteService, UploadImage,
     LoadRemove, LoadGallery, AddImage, RemoveImage, DeleteServiceImage, OwnerFails
<1> QED
  BY <1>1, <1>2, <1>3, <1>4, <1>5, OwnerUploads, OwnerUnlinks DEF OwnerStep

\* What a step may make of the row: its status and its packages.
ListingMoves ==
    /\ listing' \in Listing
    /\ ~(listing.status = "none" <=> listing'.status = "none") =>
          listing'.status = "none" /\ Unordered
    /\ listing'.packages # listing.packages => Unordered
    /\ approved => approved'
    /\ approved' \in BOOLEAN
    /\ listing'.status \in {"active", "paused"} =>
          \/ listing'.status = listing.status \/ approved'
          \/ \E t \in OwnerTabs : ownerTab[t].op \in {"pause", "resume"}

LEMMA ListingSteps ==
  ASSUME CatalogTypeOK, [CatalogNext]_catalogVars
  PROVE  ListingMoves
<1>0. listing \in Listing
  BY DEF CatalogTypeOK
<1>1. /\ listing.status \in ServiceStatus \cup {"none"}
      /\ listing.packages \in 1 .. MaxEditions
      /\ listing.orders \in Nat
      /\ approved \in BOOLEAN
  BY DEF Listing, CatalogTypeOK
<1>2. CASE UNCHANGED <<listing, approved>>
  BY <1>0, <1>1, <1>2 DEF ListingMoves
<1>3. ASSUME NEW t \in OwnerTabs, UpdateService(t)
      PROVE  /\ UNCHANGED approved /\ listing' \in Listing
             /\ listing.status # "none" /\ listing'.status # "none"
             /\ listing'.status \in {listing.status, "pending_review"}
             /\ listing'.packages # listing.packages => Unordered
  <2>1. PICK k \in OwnerTab : k = ownerTab[t]
    BY DEF CatalogTypeOK
  <2> DEFINE st == Stored(StatusAfterEdit(k.status), k.status, listing.status)
             pk == IF k.op = "packages" THEN listing.packages + 1 ELSE listing.packages
             m == [listing EXCEPT !.status = st, !.packages = pk]
  <2>2. /\ listing' = m /\ UNCHANGED approved /\ listing.status # "none"
        /\ k.op = "packages" => Unordered /\ listing.packages < MaxEditions
    BY <1>0, <1>3, <2>1 DEF UpdateService, Listed
  <2>3. st \in {listing.status, "pending_review"}
    BY DEF Stored, StatusAfterEdit
  <2>4. pk \in 1 .. MaxEditions /\ (pk # listing.packages => Unordered)
    BY <1>1, <2>2, CatalogAssumption
  <2> HIDE DEF st, pk
  <2>5. m \in Listing /\ m.status = st /\ m.packages = pk
    BY <1>0, <1>1, <2>3, <2>4 DEF Listing, ServiceStatus
  <2> QED
    BY <1>0, <2>2, <2>3, <2>4, <2>5
<1>4. ASSUME NEW x \in ServiceStatus \cup {"none"}, listing' = [listing EXCEPT !.status = x]
      PROVE  listing' \in Listing /\ listing'.status = x /\ listing'.packages = listing.packages
  BY <1>0, <1>4 DEF Listing
<1>5. ASSUME NEW t \in OwnerTabs, PauseOrResume(t)
      PROVE  /\ UNCHANGED approved /\ listing' \in Listing
             /\ listing.status # "none" /\ listing'.status # "none"
             /\ ownerTab[t].op \in {"pause", "resume"}
             /\ listing'.packages = listing.packages
  <2> DEFINE x == IF ownerTab[t].op = "pause" THEN "paused" ELSE "active"
  <2>1. /\ listing' = [listing EXCEPT !.status = x] /\ UNCHANGED approved
        /\ ownerTab[t].op \in {"pause", "resume"} /\ listing.status # "none"
    BY <1>5 DEF PauseOrResume, Listed
  <2>2. x \in ServiceStatus /\ x # "none"
    BY DEF ServiceStatus
  <2> HIDE DEF x
  <2> QED
    BY <1>4, <2>1, <2>2
<1>6. ASSUME NEW t \in OwnerTabs, DeleteService(t)
      PROVE  /\ UNCHANGED approved /\ listing' \in Listing /\ Unordered
             /\ listing'.status = "none" /\ listing'.packages = listing.packages
  <2>1. /\ listing' = [listing EXCEPT !.status = "none"] /\ UNCHANGED approved /\ Unordered
    BY <1>6 DEF DeleteService, Deletable
  <2> QED
    BY <1>4, <2>1
<1>7. ASSUME NEW a \in Moderators, Moderate(a)
      PROVE  /\ approved' \in BOOLEAN /\ (approved => approved') /\ listing' \in Listing
             /\ listing.status # "none" /\ listing'.status # "none"
             /\ listing'.packages = listing.packages
             /\ listing'.status \in {"active", "paused"} =>
                   listing'.status = listing.status \/ approved'
  <2>1. PICK k \in [op : ModeratorOps \cup {"idle"}, status : ServiceStatus \cup {"none"}] :
          k = moderator[a]
    BY DEF CatalogTypeOK
  <2> DEFINE x == Stored(Verdict(k.op), k.status, listing.status)
  <2>2. /\ listing' = [listing EXCEPT !.status = x] /\ approved' = (approved \/ k.op = "approve")
        /\ k.op # "idle" /\ listing.status # "none"
    BY <1>0, <1>7, <2>1 DEF Moderate, Listed
  <2>3. k.op \in ModeratorOps
    BY <2>1, <2>2
  <2>4. /\ x \in ServiceStatus /\ x # "none"
        /\ x \in {"active", "paused"} => x = listing.status \/ k.op = "approve"
    BY <1>1, <2>2, <2>3 DEF Stored, Verdict, ModeratorOps, ServiceStatus
  <2> HIDE DEF x
  <2>5. listing' \in Listing /\ listing'.status = x /\ listing'.packages = listing.packages
    BY <1>4, <2>2, <2>4
  <2> QED
    BY <1>0, <1>1, <2>2, <2>4, <2>5
<1>8. ASSUME NEW n \in Nat, listing' = [listing EXCEPT !.orders = n]
      PROVE  /\ listing' \in Listing /\ listing'.status = listing.status
             /\ listing'.packages = listing.packages
  BY <1>0, <1>8 DEF Listing
<1>9. ASSUME PurchaseExpires \/ \E p \in Purchases : PlacePurchase(p)
      PROVE  /\ UNCHANGED approved /\ listing' \in Listing /\ listing'.status = listing.status
             /\ listing'.packages = listing.packages
  <2>1. PICK n \in {listing.orders + 1, listing.orders - 1} :
          n \in Nat /\ listing' = [listing EXCEPT !.orders = n] /\ UNCHANGED approved
    BY <1>0, <1>1, <1>9 DEF PurchaseExpires, PlacePurchase
  <2> QED
    BY <1>8, <2>1
<1>10. ASSUME NEW t \in OwnerTabs, OwnerStep(t),
              ~(UpdateService(t) \/ PauseOrResume(t) \/ DeleteService(t))
       PROVE  UNCHANGED <<listing, approved>>
  BY <1>10 DEF OwnerStep, OwnerRequest, UploadImage, LoadRemove, LoadGallery, AddImage,
               RemoveImage, DeleteServiceImage, OwnerFails
<1>11. ASSUME NEW a \in Moderators, ModeratorStep(a), ~Moderate(a)
       PROVE  UNCHANGED <<listing, approved>>
  BY <1>11 DEF ModeratorStep, LoadModeration, ModerationFails
<1>12. CASE UNCHANGED catalogVars
  BY <1>2, <1>12 DEF catalogVars
<1>13. ASSUME NEW t \in OwnerTabs, UpdateService(t) \/ PauseOrResume(t) \/ DeleteService(t)
       PROVE  /\ UNCHANGED approved /\ listing' \in Listing
              /\ ~(listing.status = "none" <=> listing'.status = "none") =>
                    listing'.status = "none" /\ Unordered
              /\ listing'.packages # listing.packages => Unordered
              /\ listing'.status \in {"active", "paused"} =>
                    \/ listing'.status = listing.status
                    \/ \E s \in OwnerTabs : ownerTab[s].op \in {"pause", "resume"}
  BY <1>3, <1>5, <1>6, <1>13
<1>14. CASE \E t \in OwnerTabs : UpdateService(t) \/ PauseOrResume(t) \/ DeleteService(t)
  BY <1>1, <1>13, <1>14 DEF ListingMoves
<1>15. CASE \E a \in Moderators : Moderate(a)
  BY <1>7, <1>15 DEF ListingMoves
<1>16. CASE PurchaseExpires \/ \E p \in Purchases : PlacePurchase(p)
  BY <1>1, <1>9, <1>16 DEF ListingMoves
<1>17. \/ \E t \in OwnerTabs : OwnerStep(t)
       \/ \E a \in Moderators : ModeratorStep(a)
       \/ PurchaseExpires \/ \E p \in Purchases : PlacePurchase(p)
       \/ UNCHANGED catalogVars
  BY DEF CatalogNext, OwnerStep, ModeratorStep
<1>18. CASE \E t \in OwnerTabs : OwnerStep(t)
  <2>1. PICK t \in OwnerTabs : OwnerStep(t)
    BY <1>18
  <2>2. CASE UpdateService(t) \/ PauseOrResume(t) \/ DeleteService(t)
    BY <1>14, <2>2
  <2>3. CASE ~(UpdateService(t) \/ PauseOrResume(t) \/ DeleteService(t))
    BY <1>2, <1>10, <2>1, <2>3
  <2> QED
    BY <2>2, <2>3
<1>19. CASE \E a \in Moderators : ModeratorStep(a)
  <2>1. PICK a \in Moderators : ModeratorStep(a)
    BY <1>19
  <2>2. CASE Moderate(a)
    BY <1>15, <2>2
  <2>3. CASE ~Moderate(a)
    BY <1>2, <1>11, <2>1, <2>3
  <2> QED
    BY <2>2, <2>3
<1> QED
  BY <1>12, <1>16, <1>17, <1>18, <1>19

\* The images: what a step may make of them.
LEMMA GallerySteps ==
  ASSUME CatalogTypeOK, TabsHold, [CatalogNext]_catalogVars
  PROVE  /\ gallery' \in Gallery /\ files' \subseteq Images
         /\ \/ gallery' = gallery
            \/ \E t \in OwnerTabs : AddImage(t) \/ RemoveImage(t)
<1>1. gallery \in Gallery /\ files \subseteq Images
  BY DEF CatalogTypeOK
<1>2. ASSUME NEW t \in OwnerTabs
      PROVE  /\ ownerTab[t].gallery.images \subseteq Images
             /\ ownerTab[t].gallery.thumbnail \in Images \cup {NoImage}
             /\ ownerTab[t].image \in Images \cup {NoImage}
  BY DEF CatalogTypeOK, OwnerTab, Gallery
<1>3. gallery.thumbnail \in Images \cup {NoImage}
  BY <1>1 DEF Gallery
<1>4. ASSUME NEW t \in OwnerTabs, RemoveImage(t) PROVE gallery' \in Gallery /\ UNCHANGED files
  BY <1>2, <1>3, <1>4 DEF RemoveImage, Gallery, Stored
<1>5. ASSUME NEW t \in OwnerTabs, NEW i \in Images, UploadImage(t, i)
      PROVE  files' \subseteq Images /\ UNCHANGED gallery
  BY <1>1, <1>5 DEF UploadImage
<1>6. ASSUME NEW t \in OwnerTabs, DeleteServiceImage(t)
      PROVE  files' \subseteq Images /\ UNCHANGED gallery
  BY <1>1, <1>6 DEF DeleteServiceImage
<1>7. ASSUME NEW t \in OwnerTabs, OwnerStep(t), ~AddImage(t), ~RemoveImage(t),
             ~DeleteServiceImage(t), ~ \E i \in Images : UploadImage(t, i)
      PROVE  UNCHANGED <<gallery, files>>
  BY <1>7 DEF OwnerStep, OwnerRequest, UpdateService, PauseOrResume, DeleteService,
              LoadRemove, LoadGallery, OwnerFails
<1>8. CASE ~ \E t \in OwnerTabs : OwnerStep(t)
  <2>1. UNCHANGED <<gallery, files>>
    BY <1>8 DEF CatalogNext, OwnerStep, LoadModeration, Moderate, ModerationFails,
                PlacePurchase, PurchaseExpires, catalogVars
  <2> QED
    BY <1>1, <2>1
<1>9. ASSUME NEW t \in OwnerTabs, AddImage(t) PROVE gallery' \in Gallery /\ UNCHANGED files
  <2>1. ownerTab[t].image \in Images
    BY <1>9 DEF AddImage, TabsHold
  <2> QED
    BY <1>2, <1>3, <1>9, <2>1 DEF AddImage, Gallery, Stored
<1> QED
  BY <1>1, <1>4, <1>5, <1>6, <1>7, <1>8, <1>9

LEMMA CatalogTypeStep ==
  ASSUME CatalogTypeOK, TabsHold, [CatalogNext]_catalogVars
  PROVE  CatalogTypeOK'
<1>1. listing' \in Listing /\ approved' \in BOOLEAN
  BY ListingSteps DEF ListingMoves
<1>2. gallery' \in Gallery /\ files' \subseteq Images
  BY GallerySteps
<1> DEFINE Moderating == [op : ModeratorOps \cup {"idle"}, status : ServiceStatus \cup {"none"}]
<1>3. /\ purchase \in [Purchases -> 0 .. MaxEditions] /\ ownerTab \in [OwnerTabs -> OwnerTab]
      /\ moderator \in [Moderators -> Moderating]
  BY DEF CatalogTypeOK
<1>4. ASSUME NEW t \in OwnerTabs, OwnerStep(t) PROVE CatalogTypeOK'
  BY <1>1, <1>2, <1>3, <1>4, OwnerStepType DEF CatalogTypeOK
<1>5. ASSUME NEW a \in Moderators, ModeratorStep(a)
      PROVE  moderator' \in [Moderators -> Moderating] /\ UNCHANGED <<purchase, ownerTab>>
  <2>1. NotModerating \in Moderating
    BY DEF NotModerating
  <2>2. ASSUME NEW op \in ModeratorOps PROVE [op |-> op, status |-> listing.status] \in Moderating
    BY DEF CatalogTypeOK, Listing
  <2> HIDE DEF Moderating
  <2> QED
    BY <1>3, <1>5, <2>1, <2>2 DEF ModeratorStep, LoadModeration, Moderate, ModerationFails
<1>6. ASSUME NEW p \in Purchases, PlacePurchase(p)
      PROVE  purchase' \in [Purchases -> 0 .. MaxEditions] /\ UNCHANGED <<ownerTab, moderator>>
  <2>1. listing.packages \in 0 .. MaxEditions
    BY DEF CatalogTypeOK, Listing
  <2> QED
    BY <1>3, <1>6, <2>1 DEF PlacePurchase
<1>7. ASSUME PurchaseExpires \/ UNCHANGED catalogVars
      PROVE  UNCHANGED <<purchase, ownerTab, moderator>>
  BY <1>7 DEF PurchaseExpires, catalogVars
<1>8. ASSUME moderator' \in [Moderators -> Moderating],
             purchase' \in [Purchases -> 0 .. MaxEditions], UNCHANGED ownerTab
      PROVE  CatalogTypeOK'
  BY <1>1, <1>2, <1>3, <1>8 DEF CatalogTypeOK
<1>9. CASE \E a \in Moderators : ModeratorStep(a)
  BY <1>3, <1>5, <1>8, <1>9
<1>10. CASE \E p \in Purchases : PlacePurchase(p)
  BY <1>3, <1>6, <1>8, <1>10
<1>11. CASE PurchaseExpires \/ UNCHANGED catalogVars
  BY <1>3, <1>7, <1>8, <1>11
<1> QED
  BY <1>4, <1>9, <1>10, <1>11 DEF CatalogNext, OwnerStep, ModeratorStep

\* Steps of the administrators and of the buyers touch no image and no request
\* of the owner.
LEMMA OthersInCatalog ==
  ASSUME [CatalogNext]_catalogVars, ~ \E t \in OwnerTabs : OwnerStep(t)
  PROVE  UNCHANGED <<gallery, files, ownerTab>>
  BY DEF CatalogNext, OwnerStep, LoadModeration, Moderate, ModerationFails, PlacePurchase,
         PurchaseExpires, catalogVars

\* A request of the owner that pauses or resumes found the service live or
\* paused.
LEMMA PauseLoaded ==
  ASSUME CatalogTypeOK, NEW t \in OwnerTabs, OwnerStep(t), ownerTab'[t].op \in {"pause", "resume"}
  PROVE  /\ listing.status \in {"active", "paused"}
         /\ ownerTab'[t].status = IF ownerTab'[t].op = "pause" THEN "active" ELSE "paused"
<1>1. ASSUME NEW op \in OwnerOps, OwnerRequest(t, op)
      PROVE  /\ listing.status \in {"active", "paused"}
             /\ ownerTab'[t].status = IF ownerTab'[t].op = "pause" THEN "active" ELSE "paused"
  <2>1. /\ ownerTab'[t].op = op /\ ownerTab'[t].status = listing.status
        /\ op = "pause" => listing.status = "active"
        /\ op = "resume" => listing.status = "paused"
    BY <1>1, OwnerLoaded DEF OwnerRequest, MayPause, MayResume
  <2> QED
    BY <2>1
<1>2. CASE UpdateService(t) \/ PauseOrResume(t) \/ DeleteService(t) \/ AddImage(t)
           \/ DeleteServiceImage(t) \/ OwnerFails(t)
  <2>1. ownerTab'[t].op = "idle"
    BY <1>2, OwnerEnded
    DEF UpdateService, PauseOrResume, DeleteService, AddImage, DeleteServiceImage, OwnerFails
  <2> QED
    BY <2>1
<1>3. ASSUME NEW i \in Images, LoadRemove(t, i) PROVE FALSE
  <2>1. ownerTab'[t].op = "remove"
    BY <1>3, OwnerLoaded DEF LoadRemove, OwnerOps
  <2> QED
    BY <2>1
<1>4. CASE LoadGallery(t)
  <2>1. ownerTab[t].image \in Images \cup {NoImage}
    BY DEF CatalogTypeOK, OwnerTab
  <2>2. ownerTab'[t].op = "add"
    BY <1>4, <2>1, OwnerLoaded DEF LoadGallery, OwnerOps
  <2> QED
    BY <2>2
<1>5. CASE RemoveImage(t) \/ \E i \in Images : UploadImage(t, i)
  BY <1>5, OwnerUnlinks, OwnerUploads
<1> QED
  BY <1>1, <1>2, <1>3, <1>4, <1>5 DEF OwnerStep

\* Nothing goes live that was never approved.
LEMMA ApprovedStep ==
  ASSUME CatalogTypeOK, LiveWasApproved, [CatalogNext]_catalogVars
  PROVE  LiveWasApproved'
<1>1. /\ approved => approved'
      /\ listing'.status \in {"active", "paused"} =>
            \/ listing'.status = listing.status \/ approved'
            \/ \E t \in OwnerTabs : ownerTab[t].op \in {"pause", "resume"}
  BY ListingSteps DEF ListingMoves
<1>2. listing'.status \in {"active", "paused"} => approved'
  BY <1>1 DEF LiveWasApproved
<1>3. ASSUME NEW s \in OwnerTabs, ownerTab'[s].op \in {"pause", "resume"} PROVE approved'
  <2>1. CASE ownerTab'[s] = ownerTab[s]
    BY <1>1, <1>3, <2>1 DEF LiveWasApproved
  <2>2. CASE ownerTab'[s] # ownerTab[s]
    <3>1. PICK t \in OwnerTabs : OwnerStep(t)
      BY <2>2, OthersInCatalog
    <3>2. s = t
      BY <2>2, <3>1, OwnerStepType
    <3>3. listing.status \in {"active", "paused"}
      BY <1>3, <3>1, <3>2, PauseLoaded
    <3> QED
      BY <1>1, <3>3 DEF LiveWasApproved
  <2> QED
    BY <2>1, <2>2
<1> QED
  BY <1>2, <1>3 DEF LiveWasApproved

\* An order keeps the service and its package.
LEMMA PackageStep ==
  ASSUME CatalogTypeOK, OrdersKeepPackage, [CatalogNext]_catalogVars
  PROVE  OrdersKeepPackage'
<1>1. /\ ~(listing.status = "none" <=> listing'.status = "none") => Unordered
      /\ listing'.packages # listing.packages => Unordered
  BY ListingSteps DEF ListingMoves
<1>2. ASSUME UNCHANGED purchase PROVE OrdersKeepPackage'
  BY <1>1, <1>2 DEF OrdersKeepPackage, Unordered, Listed
<1>3. ASSUME NEW p \in Purchases, PlacePurchase(p) PROVE OrdersKeepPackage'
  <2>1. \A q \in Purchases : purchase'[q] = IF q = p THEN listing.packages ELSE purchase[q]
    BY <1>3 DEF PlacePurchase, CatalogTypeOK
  <2>2. listing.status = "active" /\ listing'.status = "active"
        /\ listing'.packages = listing.packages
    BY <1>3 DEF PlacePurchase, CatalogTypeOK, Listing
  <2> QED
    BY <2>1, <2>2 DEF OrdersKeepPackage, Listed
<1>4. ASSUME ~ \E p \in Purchases : PlacePurchase(p) PROVE UNCHANGED purchase
  BY <1>4, OwnerStepType
  DEF CatalogNext, OwnerStep, LoadModeration, Moderate, ModerationFails, PurchaseExpires,
      catalogVars
<1> QED
  BY <1>2, <1>3, <1>4

\* TabsHold, of one request: whatever else is in flight ...
TabSafe(t) ==
    LET k == ownerTab[t] IN
    /\ k.op \in {"pause", "resume"} => k.status = IF k.op = "pause" THEN "active"
                                                 ELSE "paused"
    /\ k.op \in {"upload", "add"} => k.image \in Images
    /\ k.op = "add" => Cardinality(k.gallery.images) < MaxImages
    /\ k.op = "remove" => Cardinality(k.gallery.images) <= MaxImages

\* ... and if nothing else of the owner is.
TabAlone(t) ==
    LET k == ownerTab[t] IN
    /\ k.op \in {"upload", "add"} => k.image \in files \ gallery.images
    /\ k.op \in {"add", "remove"} => k.gallery = gallery
    /\ k.op = "remove" => k.image \in gallery.images
    /\ k.op = "unlink" => k.image \notin gallery.images

Backed ==
    /\ gallery.images \subseteq files
    /\ IF gallery.images = {} THEN gallery.thumbnail = NoImage
       ELSE gallery.thumbnail \in gallery.images

OneOwner == Cardinality(OwnerTabs) <= 1

LEMMA CatalogParts ==
  CatalogInv <=> /\ CatalogTypeOK /\ LiveWasApproved /\ OrdersKeepPackage /\ GalleryBounded
                 /\ \A t \in OwnerTabs : TabSafe(t)
                 /\ OneOwner => Backed /\ \A t \in OwnerTabs : TabAlone(t)
  BY DEF CatalogInv, TabsHold, TabSafe, TabAlone, ImagesBacked, Backed, OneOwner

\* The images of a gallery are finitely many.
LEMMA ImagesAreFinite ==
  ASSUME NEW S, S \subseteq Images
  PROVE  /\ IsFiniteSet(S) /\ Cardinality(S) \in Nat /\ MaxImages \in Nat
         /\ \A i : Cardinality(S \ {i}) <= Cardinality(S) /\ Cardinality(S \ {i}) \in Nat
         /\ \A i : Cardinality(S \cup {i}) <= Cardinality(S) + 1 /\ Cardinality(S \cup {i}) \in Nat
<1>1. IsFiniteSet(S) /\ MaxImages \in Nat
  BY CatalogAssumption, FS_Subset
<1>2. ASSUME NEW i
      PROVE  Cardinality(S \ {i}) <= Cardinality(S) /\ Cardinality(S \ {i}) \in Nat
  <2>1. S \ {i} \subseteq S
    OBVIOUS
  <2> QED
    BY <1>1, <2>1, OneLess
<1>3. ASSUME NEW i
      PROVE  Cardinality(S \cup {i}) <= Cardinality(S) + 1 /\ Cardinality(S \cup {i}) \in Nat
  BY <1>1, OneMore
<1> QED
  BY <1>1, <1>2, <1>3, FS_CardinalityType

\* The limit: a request adds to a gallery that had room, or takes from one that
\* was within it.
LEMMA GalleryStep ==
  ASSUME CatalogTypeOK, TabsHold, GalleryBounded, \A t \in OwnerTabs : TabSafe(t),
         [CatalogNext]_catalogVars
  PROVE  GalleryBounded'
<1>1. CASE gallery' = gallery
  BY <1>1 DEF GalleryBounded
<1>2. ASSUME NEW t \in OwnerTabs, AddImage(t) \/ RemoveImage(t) PROVE GalleryBounded'
  <2>1. PICK k \in OwnerTab : k = ownerTab[t]
    BY DEF CatalogTypeOK
  <2>2. k.gallery.images \subseteq Images
    BY DEF OwnerTab, Gallery
  <2>3. CASE AddImage(t)
    <3>1. k.op = "add" /\ gallery'.images = k.gallery.images \cup {k.image}
      BY <2>1, <2>3 DEF AddImage
    <3>2. Cardinality(k.gallery.images) < MaxImages
      BY <2>1, <3>1 DEF TabSafe
    <3>3. Cardinality(k.gallery.images \cup {k.image}) <= MaxImages
      <4>1. /\ Cardinality(k.gallery.images \cup {k.image}) <= Cardinality(k.gallery.images) + 1
            /\ Cardinality(k.gallery.images \cup {k.image}) \in Nat
            /\ Cardinality(k.gallery.images) \in Nat /\ MaxImages \in Nat
        BY <2>2, ImagesAreFinite
      <4> QED
        BY <3>2, <4>1
    <3> QED
      BY <3>1, <3>3 DEF GalleryBounded
  <2>4. CASE RemoveImage(t)
    <3>1. k.op = "remove" /\ gallery'.images = k.gallery.images \ {k.image}
      BY <2>1, <2>4 DEF RemoveImage
    <3>2. Cardinality(k.gallery.images) <= MaxImages
      BY <2>1, <3>1 DEF TabSafe
    <3>3. Cardinality(k.gallery.images \ {k.image}) <= MaxImages
      <4>1. /\ Cardinality(k.gallery.images \ {k.image}) <= Cardinality(k.gallery.images)
            /\ Cardinality(k.gallery.images \ {k.image}) \in Nat
            /\ Cardinality(k.gallery.images) \in Nat /\ MaxImages \in Nat
        BY <2>2, ImagesAreFinite
      <4> QED
        BY <3>2, <4>1
    <3> QED
      BY <3>1, <3>3 DEF GalleryBounded
  <2> QED
    BY <1>2, <2>3, <2>4
<1> QED
  BY <1>1, <1>2, GallerySteps

\* What a request of the owner takes in hand.
LEMMA SafeStep ==
  ASSUME CatalogTypeOK, GalleryBounded, NEW t \in OwnerTabs, TabSafe(t), OwnerStep(t)
  PROVE  TabSafe(t)'
<1>1. ownerTab'[t].op \in {"pause", "resume"} =>
         ownerTab'[t].status = IF ownerTab'[t].op = "pause" THEN "active" ELSE "paused"
  BY PauseLoaded
<1>2. ASSUME ownerTab'[t].op \notin {"upload", "add", "remove"} PROVE TabSafe(t)'
  BY <1>1, <1>2 DEF TabSafe
<1>3. ASSUME NEW op \in OwnerOps, OwnerRequest(t, op) PROVE TabSafe(t)'
  <2>1. ownerTab'[t].op = op /\ op \notin {"upload", "add", "remove"}
    BY <1>3, OwnerLoaded DEF OwnerRequest
  <2> QED
    BY <1>2, <2>1
<1>4. CASE UpdateService(t) \/ PauseOrResume(t) \/ DeleteService(t) \/ AddImage(t)
           \/ DeleteServiceImage(t) \/ OwnerFails(t)
  <2>1. ownerTab'[t].op = "idle"
    BY <1>4, OwnerEnded
    DEF UpdateService, PauseOrResume, DeleteService, AddImage, DeleteServiceImage, OwnerFails
  <2> QED
    BY <1>2, <2>1
<1>5. ASSUME NEW i \in Images, LoadRemove(t, i) PROVE TabSafe(t)'
  <2>1. ownerTab'[t].op = "remove" /\ ownerTab'[t].gallery = gallery
    BY <1>5, OwnerLoaded DEF LoadRemove, OwnerOps
  <2> QED
    BY <2>1 DEF TabSafe, GalleryBounded
<1>6. CASE LoadGallery(t)
  <2>1. ownerTab[t].image \in Images /\ Cardinality(gallery.images) < MaxImages
    BY <1>6 DEF LoadGallery, TabSafe
  <2>2. /\ ownerTab'[t].op = "add" /\ ownerTab'[t].gallery = gallery
        /\ ownerTab'[t].image = ownerTab[t].image
    BY <1>6, <2>1, OwnerLoaded DEF LoadGallery, OwnerOps
  <2> QED
    BY <2>1, <2>2 DEF TabSafe
<1>7. ASSUME NEW i \in Images, UploadImage(t, i) PROVE TabSafe(t)'
  <2>1. ownerTab'[t].op = "upload" /\ ownerTab'[t].image = i
    BY <1>7, OwnerUploads
  <2> QED
    BY <2>1 DEF TabSafe
<1>8. CASE RemoveImage(t)
  BY <1>2, <1>8, OwnerUnlinks
<1> QED
  BY <1>3, <1>4, <1>5, <1>6, <1>7, <1>8 DEF OwnerStep

\* One request at a time: every image keeps its file.
LEMMA AloneStep ==
  ASSUME CatalogTypeOK, Backed, NEW t \in OwnerTabs, TabSafe(t), TabAlone(t), OwnerStep(t)
  PROVE  Backed' /\ TabAlone(t)'
<1>1. ASSUME UNCHANGED <<gallery, files>> PROVE Backed'
  BY <1>1 DEF Backed
<1>2. ASSUME ownerTab'[t].op \notin {"upload", "add", "remove", "unlink"} PROVE TabAlone(t)'
  BY <1>2 DEF TabAlone
<1>3. ASSUME NEW op \in OwnerOps, OwnerRequest(t, op) PROVE Backed' /\ TabAlone(t)'
  <2>1. ownerTab'[t].op = op /\ op \notin {"upload", "add", "remove", "unlink"}
    BY <1>3, OwnerLoaded DEF OwnerRequest
  <2> QED
    BY <1>1, <1>2, <1>3, <2>1 DEF OwnerRequest
<1>4. CASE UpdateService(t) \/ PauseOrResume(t) \/ DeleteService(t) \/ OwnerFails(t)
  <2>1. ownerTab'[t].op = "idle" /\ UNCHANGED <<gallery, files>>
    BY <1>4, OwnerEnded DEF UpdateService, PauseOrResume, DeleteService, OwnerFails
  <2> QED
    BY <1>1, <1>2, <2>1
<1>5. ASSUME NEW i \in Images, LoadRemove(t, i) PROVE Backed' /\ TabAlone(t)'
  <2>1. ownerTab'[t].op = "remove" /\ ownerTab'[t].gallery = gallery /\ ownerTab'[t].image = i
    BY <1>5, OwnerLoaded DEF LoadRemove, OwnerOps
  <2>2. i \in gallery.images /\ UNCHANGED <<gallery, files>>
    BY <1>5 DEF LoadRemove
  <2> QED
    BY <1>1, <2>1, <2>2 DEF TabAlone
<1>6. CASE LoadGallery(t)
  <2>1. ownerTab[t].image \in Images /\ ownerTab[t].op = "upload" /\ UNCHANGED <<gallery, files>>
    BY <1>6 DEF LoadGallery, TabSafe
  <2>2. /\ ownerTab'[t].op = "add" /\ ownerTab'[t].gallery = gallery
        /\ ownerTab'[t].image = ownerTab[t].image
    BY <1>6, <2>1, OwnerLoaded DEF LoadGallery, OwnerOps
  <2> QED
    BY <1>1, <2>1, <2>2 DEF TabAlone
<1>7. ASSUME NEW i \in Images, UploadImage(t, i) PROVE Backed' /\ TabAlone(t)'
  <2>1. ownerTab'[t].op = "upload" /\ ownerTab'[t].image = i
    BY <1>7, OwnerUploads
  <2>2. i \notin files /\ files' = files \cup {i} /\ UNCHANGED gallery
    BY <1>7 DEF UploadImage
  <2>3. Backed'
    BY <2>2 DEF Backed
  <2>4. i \in files' \ gallery'.images
    BY <2>2 DEF Backed
  <2> QED
    BY <2>1, <2>3, <2>4 DEF TabAlone
<1>8. CASE AddImage(t)
  <2>1. PICK k \in OwnerTab : k = ownerTab[t]
    BY DEF CatalogTypeOK
  <2>2. k.op = "add" /\ k.gallery = gallery /\ k.image \in files \ gallery.images
    BY <1>8, <2>1 DEF AddImage, TabAlone
  <2> DEFINE first == IF gallery.thumbnail = NoImage THEN k.image ELSE gallery.thumbnail
  <2>3. /\ gallery'.images = gallery.images \cup {k.image} /\ UNCHANGED files
        /\ gallery'.thumbnail = Stored(first, gallery.thumbnail, gallery.thumbnail)
    BY <1>8, <2>1, <2>2 DEF AddImage
  <2>4. gallery'.thumbnail = first
    BY <2>3 DEF Stored
  <2>5. gallery'.thumbnail \in gallery'.images
    BY <2>2, <2>3, <2>4 DEF Backed
  <2>6. gallery'.images \subseteq files'
    BY <2>2, <2>3 DEF Backed
  <2>7. ownerTab'[t].op = "idle"
    BY <1>8, OwnerEnded DEF AddImage
  <2>8. Backed'
    BY <2>5, <2>6 DEF Backed
  <2> QED
    BY <1>2, <2>7, <2>8
<1>9. CASE RemoveImage(t)
  <2>1. PICK k \in OwnerTab : k = ownerTab[t]
    BY DEF CatalogTypeOK
  <2>2. k.op = "remove" /\ k.gallery = gallery /\ k.image \in gallery.images
    BY <1>9, <2>1 DEF RemoveImage, TabAlone
  <2> DEFINE rest == gallery.images \ {k.image}
  <2>3. PICK next \in IF gallery.thumbnail # k.image THEN {gallery.thumbnail}
                      ELSE IF rest = {} THEN {NoImage} ELSE rest :
          /\ gallery'.images = rest /\ UNCHANGED files
          /\ gallery'.thumbnail = Stored(next, gallery.thumbnail, gallery.thumbnail)
    BY <1>9, <2>1, <2>2 DEF RemoveImage
  <2>4. gallery'.thumbnail = next
    BY <2>3 DEF Stored
  <2>5. gallery.thumbnail \in gallery.images
    BY <2>2 DEF Backed
  <2>6. IF rest = {} THEN next = NoImage ELSE next \in rest
    BY <2>2, <2>3, <2>5
  <2>7. rest \subseteq files
    BY DEF Backed
  <2>8. Backed'
    BY <2>3, <2>4, <2>6, <2>7 DEF Backed
  <2>9. ownerTab'[t].op = "unlink" /\ ownerTab'[t].image = k.image /\ k.image \notin gallery'.images
    BY <1>9, <2>1, <2>3, OwnerUnlinks
  <2> QED
    BY <2>8, <2>9 DEF TabAlone
<1>10. CASE DeleteServiceImage(t)
  <2>1. /\ files' = files \ {ownerTab[t].image} /\ UNCHANGED gallery
        /\ ownerTab[t].image \notin gallery.images
    BY <1>10 DEF DeleteServiceImage, MayUnlink, TabAlone
  <2>2. ownerTab'[t].op = "idle"
    BY <1>10, OwnerEnded DEF DeleteServiceImage
  <2>3. Backed'
    BY <2>1 DEF Backed
  <2> QED
    BY <1>2, <2>2, <2>3
<1> QED
  BY <1>3, <1>4, <1>5, <1>6, <1>7, <1>8, <1>9, <1>10 DEF OwnerStep

LEMMA OneOwnerIsAlone == OneOwner => \A s, t \in OwnerTabs : s = t
<1> SUFFICES ASSUME OneOwner, NEW s \in OwnerTabs, NEW t \in OwnerTabs, s # t PROVE FALSE
  OBVIOUS
<1>1. IsFiniteSet(OwnerTabs)
  BY CatalogAssumption
<1>2. {s} \subseteq OwnerTabs /\ t \in OwnerTabs \ {s} /\ Cardinality({s}) = 1
  BY FS_Singleton
<1>3. Cardinality({s}) < Cardinality(OwnerTabs) /\ Cardinality(OwnerTabs) \in Nat
  BY <1>1, <1>2, OneLess
<1> QED
  BY <1>2, <1>3 DEF OneOwner

LEMMA CatalogStep == CatalogInv /\ [CatalogNext]_catalogVars => CatalogInv'
<1> SUFFICES ASSUME CatalogInv, [CatalogNext]_catalogVars PROVE CatalogInv'
  OBVIOUS
<1>1. /\ CatalogTypeOK /\ TabsHold /\ LiveWasApproved /\ OrdersKeepPackage /\ GalleryBounded
      /\ \A t \in OwnerTabs : TabSafe(t)
      /\ OneOwner => Backed /\ \A t \in OwnerTabs : TabAlone(t)
  BY CatalogParts DEF CatalogInv
<1>2. CatalogTypeOK' /\ LiveWasApproved' /\ OrdersKeepPackage' /\ GalleryBounded'
  BY <1>1, CatalogTypeStep, ApprovedStep, PackageStep, GalleryStep
<1>3. CASE ~ \E t \in OwnerTabs : OwnerStep(t)
  <2>1. UNCHANGED <<gallery, files, ownerTab>>
    BY <1>3, OthersInCatalog
  <2>2. TabsHold' /\ ImagesBacked'
    BY <1>1, <2>1 DEF TabsHold, ImagesBacked, CatalogInv
  <2> QED
    BY <1>2, <2>2 DEF CatalogInv
<1>4. ASSUME NEW t \in OwnerTabs, OwnerStep(t) PROVE CatalogInv'
  <2>1. \A s \in OwnerTabs \ {t} : ownerTab'[s] = ownerTab[s]
    BY <1>1, <1>4, OwnerStepType
  <2>2. TabSafe(t)'
    BY <1>1, <1>4, SafeStep
  <2>3. ASSUME NEW s \in OwnerTabs PROVE TabSafe(s)'
    <3>1. CASE s = t
      BY <2>2, <3>1
    <3>2. CASE s # t
      BY <1>1, <2>1, <3>2 DEF TabSafe
    <3> QED
      BY <3>1, <3>2
  <2>4. ASSUME OneOwner PROVE Backed' /\ \A s \in OwnerTabs : TabAlone(s)'
    <3>1. Backed' /\ TabAlone(t)'
      BY <1>1, <1>4, <2>4, AloneStep
    <3>2. \A s \in OwnerTabs : s = t
      BY <2>4, OneOwnerIsAlone
    <3> QED
      BY <3>1, <3>2
  <2>5. TabsHold' /\ ImagesBacked'
    BY <2>3, <2>4 DEF TabsHold, ImagesBacked, TabSafe, TabAlone, Backed, OneOwner
  <2> QED
    BY <1>2, <2>5 DEF CatalogInv
<1> QED
  BY <1>3, <1>4

LEMMA CatalogBegins == CatalogInit => CatalogInv
<1> SUFFICES ASSUME CatalogInit PROVE CatalogInv
  OBVIOUS
<1>1. /\ listing = [status |-> "pending_review", packages |-> 1, orders |-> 0]
      /\ approved = FALSE /\ files = {}
      /\ gallery.images = {} /\ gallery.thumbnail = NoImage /\ gallery \in Gallery
      /\ \A p \in Purchases : purchase[p] = 0
      /\ \A t \in OwnerTabs : ownerTab[t].op = "idle"
  BY NothingLoaded DEF CatalogInit, EmptyGallery, Gallery
<1>2. listing \in Listing
  BY <1>1, CatalogAssumption DEF Listing, ServiceStatus
<1>3. purchase \in [Purchases -> 0 .. MaxEditions] /\ ownerTab \in [OwnerTabs -> OwnerTab]
  BY NothingLoaded, CatalogAssumption DEF CatalogInit
<1>4. CatalogTypeOK
  BY <1>1, <1>2, <1>3 DEF CatalogInit, CatalogTypeOK, NotModerating
<1>5. TabsHold /\ ImagesBacked
  BY <1>1 DEF TabsHold, ImagesBacked
<1>6. LiveWasApproved /\ OrdersKeepPackage
  BY <1>1 DEF LiveWasApproved, OrdersKeepPackage
<1>7. GalleryBounded
  BY <1>1, FS_EmptySet, CatalogAssumption DEF GalleryBounded
<1> QED
  BY <1>4, <1>5, <1>6, <1>7 DEF CatalogInv

---------------------------------------------------------------------------
(* The five together.                                                      *)

\* Everything the runs check of the marketplace, for any number of jobs,
\* freelancers, requests and reviews, if each client has one request in flight
\* at a time: counters, contracts, deals and limits, ratings, the catalogue,
\* levels and ranks.
THEOREM MarketIsSound ==
  ASSUME \A s, t \in ClientTabs : s = t, Cardinality(ClientCalls) <= 1
  PROVE  AllSpec => []MarketInv
<1> DEFINE Inv == IInv /\ LimitInv /\ ReviewsInv /\ CatalogInv /\ LevelsInv
<1>1. AllInit => Inv
  BY JobsBegin, RequestsBegin, ReviewsBegin, CatalogBegins, LevelsBegin DEF AllInit
<1>2. Inv /\ [AllNext]_allVars => Inv'
  <2> SUFFICES ASSUME Inv, [AllNext]_allVars PROVE Inv'
    OBVIOUS
  <2>1. /\ [Next]_vars /\ [RequestsNext]_requestVars /\ [ReviewsNext]_reviewVars
        /\ [CatalogNext]_catalogVars /\ [LevelsNext]_levelVars
    BY DEF AllNext, allVars
  <2>2. Alone
    BY OneIsAlone
  <2> QED
    BY <2>1, <2>2, JobsStep, LimitStep, ReviewsStep, CatalogStep, LevelsStep
<1>3. Inv => MarketInv
  BY LimitsSuffice DEF MarketInv
<1> QED
  BY <1>1, <1>2, <1>3, PTL DEF AllSpec
============================================================================
