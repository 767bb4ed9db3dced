------------------------------ MODULE JobBoard ------------------------------
(***************************************************************************)
(* Jobs, the proposals freelancers make on them, and the contract that an  *)
(* acceptance creates.                                                     *)
(*                                                                         *)
(* Every handler loads its rows without a lock, tests them, and writes     *)
(* them by id later.  respond_to_proposal locks the job before an          *)
(* acceptance, but its session has loaded the job already, and SQLAlchemy  *)
(* keeps what it has loaded: the locked SELECT waits, and returns the old  *)
(* attributes.                                                             *)
(***************************************************************************)
EXTENDS Integers, FiniteSets

CONSTANTS
    Jobs,           \* jobs of one client
    Freelancers,
    ClientTabs,     \* requests the client can have in flight
    Tabs,           \* requests freelancers can have in flight
    NoTab,          \* owner of a free row lock
    MaxOpenings     \* bound on how often a job becomes open

Sessions == ClientTabs \cup Tabs

ASSUME SessionAssumption == NoTab \notin Sessions
ASSUME FiniteAssumption == IsFiniteSet(Freelancers)

VARIABLES
    job,            \* jobs rows
    proposal,       \* status of the proposal of each job and freelancer
    contract,       \* contracts rows, one per proposal
    openings,       \* history: how often each job became OPEN
    jobLock,        \* request that holds a job row
    proposalLock,   \* request that holds a proposal row
    req             \* what each request has in hand

vars == <<job, proposal, contract, openings, jobLock, proposalLock, req>>

JobStatus == {"draft", "open", "in_progress", "completed", "cancelled", "closed"}

ProposalStatus == {"pending", "shortlisted", "accepted", "rejected", "withdrawn"}

\* uq_proposal_job_freelancer: a proposal is known by its job and freelancer.
Bids == Jobs \X Freelancers

BidsOn(j) == {j} \X Freelancers

JobRow == [status : JobStatus \cup {"none", "deleted"},
           freelancer : Freelancers \cup {"nobody"}, count : Nat]

Answers == {"shortlisted", "accepted", "rejected"}

Ops == {"none", "submit", "withdraw", "close", "delete"} \cup Answers

Stages == {"idle", "loaded", "row_locked", "job_locked", "childless"}

\* "seenOpen" is the job in the session's identity map; "others" are the
\* proposals an acceptance is about to reject.
Request == [op : Ops, stage : Stages, job : Jobs \cup {"none"},
            freelancer : Freelancers \cup {"nobody"}, seenOpen : BOOLEAN,
            others : SUBSET Bids]

Idle == [op |-> "none", stage |-> "idle", job |-> "none",
         freelancer |-> "nobody", seenOpen |-> FALSE, others |-> {}]

TypeOK ==
    /\ job \in [Jobs -> JobRow]
    /\ proposal \in [Bids -> ProposalStatus \cup {"none"}]
    /\ contract \in [Bids -> {"none", "active", "completed"}]
    /\ openings \in [Jobs -> Nat]
    /\ jobLock \in [Jobs -> Sessions \cup {NoTab}]
    /\ proposalLock \in [Bids -> Sessions \cup {NoTab}]
    /\ req \in [Sessions -> Request]

Init ==
    /\ job = [j \in Jobs |-> [status |-> "none", freelancer |-> "nobody",
                              count |-> 0]]
    /\ proposal = [b \in Bids |-> "none"]
    /\ contract = [b \in Bids |-> "none"]
    /\ openings = [j \in Jobs |-> 0]
    /\ jobLock = [j \in Jobs |-> NoTab]
    /\ proposalLock = [b \in Bids |-> NoTab]
    /\ req = [s \in Sessions |-> Idle]

---------------------------------------------------------------------------

At(s, op, stage) == req[s].op = op /\ req[s].stage = stage

Bid(s) == <<req[s].job, req[s].freelancer>>

Exists(j) == job[j].status \in JobStatus

JobFree(j) == jobLock[j] = NoTab

ProposalFree(b) == proposalLock[b] = NoTab

Begin(s, op, j, f) ==
    req' = [req EXCEPT ![s] = [op |-> op, stage |-> "loaded", job |-> j,
                               freelancer |-> f,
                               seenOpen |-> job[j].status = "open",
                               others |-> {}]]

Go(s, stage) == req' = [req EXCEPT ![s].stage = stage]

\* Commit and rollback free the request's rows.
End(s) ==
    /\ req' = [req EXCEPT ![s] = Idle]
    /\ jobLock' = [j \in Jobs |-> IF jobLock[j] = s THEN NoTab ELSE jobLock[j]]
    /\ proposalLock' = [b \in Bids |-> IF proposalLock[b] = s
                                       THEN NoTab ELSE proposalLock[b]]

Data == <<job, proposal, contract, openings>>

Locks == <<jobLock, proposalLock>>

---------------------------------------------------------------------------
(* JobService.                                                             *)

CreateJob(j) ==
    /\ job[j].status = "none"
    /\ job' = [job EXCEPT ![j].status = "open"]
    /\ openings' = [openings EXCEPT ![j] = 1]
    /\ UNCHANGED <<proposal, contract, Locks, req>>

\* close_job, delete_job: what an owner may still take back.
Editable == {"open", "draft"}

LoadClose(s, j) ==
    /\ req[s] = Idle
    /\ job[j].status \in Editable
    /\ Begin(s, "close", j, "nobody")
    /\ UNCHANGED <<Data, Locks>>

\* UPDATE jobs SET status = 'closed' WHERE id = ?, whatever it is by now.
CloseJob(s) ==
    LET j == req[s].job IN
    /\ At(s, "close", "loaded")
    /\ Exists(j) /\ JobFree(j)
    /\ job' = [job EXCEPT ![j].status = "closed"]
    /\ End(s)
    /\ UNCHANGED <<proposal, contract, openings>>

LoadDelete(s, j) ==
    /\ req[s] = Idle
    /\ job[j].status \in Editable
    /\ job[j].count = 0
    /\ Begin(s, "delete", j, "nobody")
    /\ UNCHANGED <<Data, Locks>>

\* Mutant: the relationships are declared passive_deletes.
Childless_Unchecked(j) == TRUE

\* The flush loads the job's proposals and contracts to take their job_id
\* away; job_id is NOT NULL, so that any row it finds aborts the request.
Childless(j) == \A b \in BidsOn(j) : proposal[b] = "none" /\ contract[b] = "none"

FindNoChild(s) ==
    /\ At(s, "delete", "loaded")
    /\ Childless(req[s].job)
    /\ Go(s, "childless")
    /\ UNCHANGED <<Data, Locks>>

\* DELETE FROM jobs; ON DELETE CASCADE takes what was inserted since.
DeleteJob(s) ==
    LET j == req[s].job IN
    /\ At(s, "delete", "childless")
    /\ Exists(j) /\ JobFree(j)
    /\ \A b \in BidsOn(j) : ProposalFree(b)
    /\ job' = [job EXCEPT ![j] = [status |-> "deleted",
                                  freelancer |-> "nobody", count |-> 0]]
    /\ proposal' = [b \in Bids |-> IF b \in BidsOn(j) THEN "none"
                                                      ELSE proposal[b]]
    /\ contract' = [b \in Bids |-> IF b \in BidsOn(j) THEN "none"
                                                      ELSE contract[b]]
    /\ End(s)
    /\ UNCHANGED openings

\* AdminService.update_job_status: any status, unchecked.
SetStatus(j, status) ==
    /\ Exists(j) /\ JobFree(j)
    /\ job[j].status # status
    /\ status = "open" => openings[j] < MaxOpenings
    /\ job' = [job EXCEPT ![j].status = status]
    /\ openings' = [openings EXCEPT ![j] = IF status = "open" THEN @ + 1 ELSE @]
    /\ UNCHANGED <<proposal, contract, Locks, req>>

\* review_milestone pays the last milestone: the contract and its job are done.
CompleteContract(j, f) ==
    /\ contract[<<j, f>>] = "active"
    /\ JobFree(j)
    /\ contract' = [contract EXCEPT ![<<j, f>>] = "completed"]
    /\ job' = [job EXCEPT ![j].status = "completed"]
    /\ UNCHANGED <<proposal, openings, Locks, req>>

---------------------------------------------------------------------------
(* ProposalService, the freelancer's side.                                 *)

LoadSubmit(s, j, f) ==
    /\ req[s] = Idle
    /\ job[j].status = "open"
    /\ proposal[<<j, f>>] = "none"
    /\ Begin(s, "submit", j, f)
    /\ UNCHANGED <<Data, Locks>>

\* INSERT, which the unique constraint or the foreign key may refuse, and the
\* increment at the SQL level, which waits for the job row.
Submit(s) ==
    LET j == req[s].job IN
    /\ At(s, "submit", "loaded")
    /\ Exists(j) /\ JobFree(j)
    /\ proposal[Bid(s)] = "none"
    /\ proposal' = [proposal EXCEPT ![Bid(s)] = "pending"]
    /\ job' = [job EXCEPT ![j].count = @ + 1]
    /\ End(s)
    /\ UNCHANGED <<contract, openings>>

Undecided == {"pending", "shortlisted"}

LoadWithdraw(s, j, f) ==
    /\ req[s] = Idle
    /\ proposal[<<j, f>>] \in Undecided
    /\ Begin(s, "withdraw", j, f)
    /\ UNCHANGED <<Data, Locks>>

\* The autoflush writes the row, and thereby locks it, before the counter's
\* UPDATE; an acceptance does the same before it locks the job.
FlushProposal(s) ==
    /\ req[s].op \in {"withdraw", "accepted"}
    /\ req[s].stage = "loaded"
    /\ proposal[Bid(s)] # "none"
    /\ ProposalFree(Bid(s))
    /\ proposalLock' = [proposalLock EXCEPT ![Bid(s)] = s]
    /\ Go(s, "row_locked")
    /\ UNCHANGED <<Data, jobLock>>

\* CASE WHEN proposal_count > 0 THEN proposal_count - 1 ELSE 0.
Decremented(n) == IF n > 0 THEN n - 1 ELSE 0

Withdraw(s) ==
    LET j == req[s].job IN
    /\ At(s, "withdraw", "row_locked")
    /\ Exists(j) /\ JobFree(j)
    /\ proposal' = [proposal EXCEPT ![Bid(s)] = "withdrawn"]
    /\ job' = [job EXCEPT ![j].count = Decremented(@)]
    /\ End(s)
    /\ UNCHANGED <<contract, openings>>

---------------------------------------------------------------------------
(* ProposalService, the client's side.                                     *)

\* Mutant: any answer may be changed.
MayAnswer_Always(status, answer) == status # "none" /\ answer # status

\* valid_transitions.
MayAnswer(status, answer) ==
    status \in Undecided /\ answer \in Answers \ {status}

LoadRespond(s, j, f, answer) ==
    /\ req[s] = Idle
    /\ MayAnswer(proposal[<<j, f>>], answer)
    /\ Begin(s, answer, j, f)
    /\ UNCHANGED <<Data, Locks>>

\* Shortlist or reject: one UPDATE by id.
Respond(s) ==
    /\ req[s].op \in {"shortlisted", "rejected"}
    /\ req[s].stage = "loaded"
    /\ proposal[Bid(s)] # "none"
    /\ ProposalFree(Bid(s))
    /\ proposal' = [proposal EXCEPT ![Bid(s)] = req[s].op]
    /\ End(s)
    /\ UNCHANGED <<job, contract, openings>>

\* Mutant: the job's status is not tested.
JobIsOpen_Unchecked(s) == TRUE

\* "job.status != JobStatus.OPEN", of the job loaded with the proposal.
JobIsOpen(s) == req[s].seenOpen

\* Mutant: shortlisted proposals are forgotten.
Losers_Pending(s) ==
    {b \in BidsOn(req[s].job) \ {Bid(s)} : proposal[b] = "pending"}

\* The other proposals the acceptance is to reject.
Losers(s) == {b \in BidsOn(req[s].job) \ {Bid(s)} : proposal[b] \in Undecided}

\* SELECT job FOR UPDATE, the test, and the SELECT of the other proposals.
LockJob(s) ==
    LET j == req[s].job IN
    /\ At(s, "accepted", "row_locked")
    /\ Exists(j) /\ JobFree(j)
    /\ JobIsOpen(s)
    /\ jobLock' = [jobLock EXCEPT ![j] = s]
    /\ req' = [req EXCEPT ![s].stage = "job_locked", ![s].others = Losers(s)]
    /\ UNCHANGED <<Data, proposalLock>>

\* The contract's INSERT, after the other proposals' UPDATEs, which wait for
\* their rows; contracts.proposal_id is unique.
Accept(s) ==
    LET j == req[s].job IN
    /\ At(s, "accepted", "job_locked")
    /\ \A b \in req[s].others : ProposalFree(b)
    /\ contract[Bid(s)] = "none"
    /\ job' = [job EXCEPT ![j].status = "in_progress",
                          ![j].freelancer = req[s].freelancer]
    /\ proposal' = [b \in Bids |-> IF b = Bid(s) THEN "accepted"
                                   ELSE IF b \in req[s].others THEN "rejected"
                                   ELSE proposal[b]]
    /\ contract' = [contract EXCEPT ![Bid(s)] = "active"]
    /\ End(s)
    /\ UNCHANGED openings

\* A refusal after the load, a constraint, a deadlock PostgreSQL resolves, a lost
\* connection or a killed worker: nothing is written.
Rollback(s) ==
    /\ req[s] # Idle
    /\ End(s)
    /\ UNCHANGED Data

---------------------------------------------------------------------------

ClientStep(s) ==
    \/ \E j \in Jobs : LoadClose(s, j) \/ LoadDelete(s, j)
    \/ \E j \in Jobs, f \in Freelancers, answer \in Answers :
         LoadRespond(s, j, f, answer)
    \/ CloseJob(s) \/ FindNoChild(s) \/ DeleteJob(s)
    \/ Respond(s) \/ FlushProposal(s) \/ LockJob(s) \/ Accept(s)

FreelancerStep(s) ==
    \/ \E j \in Jobs, f \in Freelancers :
         LoadSubmit(s, j, f) \/ LoadWithdraw(s, j, f)
    \/ Submit(s) \/ FlushProposal(s) \/ Withdraw(s)

Next ==
    \/ \E j \in Jobs : CreateJob(j)
    \/ \E s \in ClientTabs : ClientStep(s)
    \/ \E s \in Tabs : FreelancerStep(s)
    \/ \E s \in Sessions : Rollback(s)
    \/ \E j \in Jobs, status \in JobStatus : SetStatus(j, status)
    \/ \E j \in Jobs, f \in Freelancers : CompleteContract(j, f)

Spec == Init /\ [][Next]_vars

---------------------------------------------------------------------------

Contracted(j) == {f \in Freelancers : contract[<<j, f>>] # "none"}

\* A job is given away once, and once more whenever an administrator reopens
\* it: "lock to prevent concurrent acceptance" (respond_to_proposal).
ContractPerOpening == \A j \in Jobs : Cardinality(Contracted(j)) <= openings[j]

\* What holds however many requests the client has in flight.
ContractPerRequest ==
    \A j \in Jobs :
        Cardinality(Contracted(j)) <= openings[j] * Cardinality(ClientTabs)

\* A contract never vanishes with its job, whatever delete_job's guards read
\* before other requests changed the status, the counter or the proposals.
ContractsSurvive ==
    [][\A b \in Bids : contract[b] # "none" => contract'[b] # "none"]_vars

Live(j) == {f \in Freelancers : proposal[<<j, f>>] \notin {"none", "withdrawn"}}

\* jobs.proposal_count never counts a proposal that is not there, although
\* a withdrawal may run twice and an answer may overwrite a withdrawal.
CountNotOverstated == \A j \in Jobs : job[j].count <= Cardinality(Live(j))

\* Once the client has turned a proposal down, by an answer or by accepting
\* another, nothing but its freelancer's own withdrawal changes it.
RejectionStands ==
    [][\A b \in Bids :
         proposal[b] = "rejected"
           => proposal'[b] \in {"rejected", "withdrawn", "none"}]_vars

\* "All other pending/shortlisted proposals are auto-rejected": an acceptance
\* leaves no proposal of its job undecided, although others are submitted,
\* shortlisted and withdrawn while it is under way.
AcceptanceDecidesAll ==
    [][\A b \in Bids :
         contract[b] = "none" /\ contract'[b] = "active"
           => \A c \in BidsOn(b[1]) : proposal'[c] \notin Undecided]_vars

(* The inductive invariant (proofs in Market_proofs).                      *)

\* A request knows the job, and but for closing and deleting the freelancer.
HandInv ==
    \A s \in Sessions :
      req[s].op # "none" =>
        /\ req[s].job \in Jobs
        /\ req[s].op \notin {"close", "delete"} => req[s].freelancer \in Freelancers

\* A job that is open has an opening no contract has used.
OpeningInv ==
    \A j \in Jobs :
      /\ job[j].status = "none" => Contracted(j) = {}
      /\ job[j].status = "open" => Cardinality(Contracted(j)) < openings[j]

\* So has the job a client's acceptance has loaded as open.
AcceptanceInv ==
    \A s \in ClientTabs, j \in Jobs :
      req[s].op = "accepted" /\ req[s].job = j =>
        /\ req[s].seenOpen => Cardinality(Contracted(j)) < openings[j]
        /\ req[s].stage = "job_locked" => req[s].seenOpen

ContractInv == ContractPerOpening /\ OpeningInv /\ AcceptanceInv

\* The client's requests that loaded the job as open and may still accept.
Holders(j) ==
    {s \in ClientTabs : req[s].op = "accepted" /\ req[s].job = j /\ req[s].seenOpen}

\* An opening is spent by as many requests as can hold it: an open job has one
\* left for all of them, and of any other each holder has one.
HoldersInv ==
    /\ \A s \in ClientTabs : At(s, "accepted", "job_locked") => req[s].seenOpen
    /\ \A j \in Jobs :
          LET C == Cardinality(Contracted(j))
              T == Cardinality(ClientTabs)
          IN  /\ job[j].status = "none" => Contracted(j) = {}
              /\ IF job[j].status = "open" THEN C + T <= openings[j] * T
                 ELSE C + Cardinality(Holders(j)) <= openings[j] * T

\* What the client's request has found is still so, if there is one at a time:
\* a job to delete has no contract, a proposal to answer is not rejected, and an
\* acceptance holds the job and knows every other proposal to reject.
ClientHand(s) ==
    LET k == req[s] IN
    /\ At(s, "delete", "childless") =>
          \A f \in Freelancers : contract[<<k.job, f>>] = "none"
    /\ k.op \in Answers => proposal[Bid(s)] # "rejected"
    /\ At(s, "accepted", "job_locked") =>
          /\ jobLock[k.job] = s
          /\ \A b \in BidsOn(k.job) \ {Bid(s)} :
                proposal[b] \in Undecided => b \in k.others

ClientHandsHold == \A s \in ClientTabs : ClientHand(s)

IInv == TypeOK /\ HandInv /\ CountNotOverstated /\ ContractInv /\ ClientHandsHold
============================================================================
