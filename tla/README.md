# Kaasb: a verification project

Kaasb is a freelancing marketplace: buyers order services, pay through a
gateway's hosted page, and the platform holds the money in escrow until the
work is accepted, a sweep accepts it for the buyer, or an administrator
decides a dispute. The backend (`src/backend/app`) is FastAPI over PostgreSQL
(READ COMMITTED, one session and one transaction per request), served by
several Gunicorn workers that also run the nightly jobs, coordinated by Redis.

This directory holds TLA+ modules of that backend, the TLC configurations that
check them on small instances, and TLAPS proofs for every instance.

## Inventory

| Component | State it keeps | Operations | What makes it correct |
|---|---|---|---|
| **Service orders and escrow** `catalog_service.py`, `payment_service.py`, `endpoints/payments.py` | `service_orders`, `escrows`, `transactions`, `services.orders_count` | place, pay, requirements, deliver, revise, complete, release, refund | no payment is released or refunded more often than it was confirmed, and it is confirmed again only after a failure redirect wrote over it; an expired order stays cancelled |
| **Disputes** `dispute_service.py` | `disputes`, the escrow freeze | raise, open, assign, resolve | a frozen escrow moves only by a resolution; never frozen and released at once |
| **Nightly sweeps** `marketplace_tasks.py` | – (lists read before the writes) | expire unpaid orders, complete stale deliveries | counters exact under two sweeps; nothing waits forever |
| **Payout approvals** `payout_approval_service.py` | `payout_approvals`, `admin_audit_logs` | request, approve, reject | two administrators for large or split releases; one pending approval per escrow |
| **Scheduler** `scheduler.py` | Redis lock, last-run key | tick, run, crash, lock expiry | no two runs at once, every job runs again (two runs within one interval, one after the other, are possible: see "Differences") |
| **Contracts and milestones** `contract_service.py`, `payment_service.py` | `contracts`, `milestones`, their escrows | add, edit, delete, fund, start, submit, revise, approve, release | what the contract says was paid is what its milestones say; a milestone is PAID only with a release in the ledger; a payment goes in once for every failure written over it and one more, and out no more often than in |
| **Jobs and proposals** `job_service.py`, `proposal_service.py` | `jobs`, `proposals`, counters | submit, withdraw, accept, close | one contract per opening; an acceptance decides every proposal |
| **Buyer requests** `buyer_request_service.py` | `buyer_requests`, offers | create, offer, accept, reject, cancel, expire | a filled request has one accepted offer; limits |
| **Payouts** `payment_service.py` | payout transactions | request, mark paid | never more paid out than earned; marked paid once |
| **Admin accounts** `admin_service.py` | status and privileges of users | suspend, promote, demote, toggle support, leave | an active administrator remains |
| **Sessions and tokens** `auth_service.py`, `frontend/.../client.ts`, `auth-store.ts` | refresh tokens, `token_version`, cookies | log in, refresh, revoke, end all | an ended session does not come back, but for a token that a refresh commits while the end is under way; overlapping refreshes of one browser do not log it out |
| **Service catalogue** `catalog_service.py` | `services`, images and their files | create, edit, pause, delete, moderate | what is on sale was approved; orders keep their package |
| **Reviews** `review_service.py` | `reviews`, the cached average and count in two places | submit, aggregate | the counts agree; a submission that overlaps no other leaves the caches exact |
| **Seller levels** `marketplace_tasks.py` | statistics, level, `rank_score` | count, level, rank, nightly | a completion rate is a rate under overlapping runs |
| **Conversations** `message_service.py`, `message_filter_service.py` | `conversations`, `messages`, `chat_violations` | open, send, mask, refuse, read | unread counters cover the unread; a receipt means that the conversation was opened |
| **Support inbox** `message_service.py` | ticket status and assignee | contact, reply, claim, release, resolve, reopen | a reply nobody has read since is not resolved |
| **Presence, realtime** `presence.py`, `websocket_manager.py`, `ws.py` | tickets, a count in Redis, a set in Redis, connections | connect, count, disconnect, publish, relay | nobody lingers online; an event is shown once |
| **Notifications** `notification_service.py` | `notifications` | insert, mark some or all, archive | the numbers pushed to the tabs add up to what was marked, and what was rolled back after the push |
| **Rate limiter** `middleware/security.py` | a counter in Redis, lists in the workers | count, fall back, clean up | a bound per window under outages; the blocked are let in again |
| **Gateway calls** `circuit_breaker.py`, `qi_card_client.py` | breaker state | call, trip, probe | an outage costs a bounded number of calls; the breaker closes again |

How they interact: handlers call each other as plain functions inside one
transaction (`complete_order` calls `_release_locked_escrow`, a dispute
resolution calls `release_escrow_by_id`), and otherwise only through rows of the
database. The gateway reaches the program by redirecting the buyer's browser to
`/payments/qi-card/success|failure|cancel`, which may come late, twice or never. The three
URLs of an order carry one signature, the HMAC of the order id, and no handler asks the
gateway whether it captured anything: a success redirect says that somebody who was sent to
the gateway came back.

What is hard here:

* **Interleaving.** Most handlers load the order without a row lock
  (`_get_order`), test its status, and write `UPDATE ... WHERE id = ?` later.
  Under READ COMMITTED another handler may commit in between.
* **Atomicity by accident.** Autoflush decides when an UPDATE, and with it the
  row lock, is issued; disputes depend on it.
* **Partial failure.** A resolution commits the order and the dispute row
  separately; an exception in the release takes the whole transaction back.
* **Delivery.** Redirects are lost, repeated and reordered against each other and the sweep.
* **Money kept in several places**: escrow status and version, the fund
  transaction, the ledger rows, the release reference, a contract's total.
* **Redis and memory.** Presence, rate limits, the scheduler and events rest on
  sequences of Redis commands, any of which may be the last one a worker sends.
* **Answers out of order.** Tabs of one browser refresh its session at once.

`PROJECT.json` lists each hazard at its line with the properties that watch it.

## Modules

* **`EscrowLedger`** – the abstract promise about a payment: it is booked in once, and again
  only after a failure redirect reopened it; releases are no more than bookings in, and so
  are refunds. It says nothing of the gateway's capture, which the code does not establish.
* **`OrderEscrow`** – the whole life of an order. `MCOrderEscrow` gives it
  symmetry sets and the unlimited revision count; `OrderEscrow_proofs` holds the
  theorems.
* **`ReleaseApproval`** – dual control of the releases administrators make on the
  payout page, in front of `release_escrow_by_id`. It keeps several escrows of one
  seller, which `OrderEscrow` does not need, and of an escrow only the status.
  `MCReleaseApproval` names escrows for their amounts; `ReleaseApproval_proofs`.
* **`MilestoneEscrow`** – one contract, its milestones and their payments; it implements
  `EscrowLedger` too. `MCMilestoneEscrow`, `MilestoneEscrow_proofs`.
* **`Payouts`** – withdrawals of what was released, under an advisory lock. Checked by
  `MCReleaseApproval` beside `ReleaseApproval` and `AdminGuard`.
* **`JobBoard`**, **`BuyerRequests`**, **`Reviews`**, **`ServiceCatalog`**, **`SellerLevels`** – the
  marketplace. `MCJobBoard` checks the five; `Market_proofs`.
* **`AdminGuard`**, **`AccountSessions`** – who may do what, and for how long.
  `MCReleaseApproval` checks the one, `MCCommunity` the other; `Accounts_proofs`.
* **`Conversations`**, **`SupportTickets`**, **`Realtime`**, **`Notifications`** – what users tell each
  other and how it reaches them. `MCCommunity` checks the four and `AccountSessions`; `Messaging_proofs`.
* **`Scheduler`**, **`RateLimiter`**, **`PaymentGateway`**, **`ClientSession`** – what the rest
  stands on. `MCScheduler` checks the four; `Scheduler_proofs`.
* **`Sums_proofs`** – facts about sums over finite sets that the proofs about money,
  counters and windows cite.

How they fit. `Scheduler` says when two sweeps can overlap (never while a job is
shorter than the lock's TTL); `OrderEscrow` assumes less and lets two workers sweep at
once, `SellerLevels` two runs. `ReleaseApproval` ends in the release that is the action
`ReleaseEscrowById` of `OrderEscrow` and `AdminRelease` of `MilestoneEscrow`; the moves of the
rest of the program are one action there (`MovesElsewhere`). `Payouts` begins where
either has released (`EscrowReleases`). `JobBoard` and `BuyerRequests` are the other ways to
sell work: the one ends in the contract that is the initial state of `MilestoneEscrow`,
the other in an order of `OrderEscrow`. `AdminGuard` decides who the administrators
of all the others are; its suspensions are `SetUserStatus` of `AccountSessions`, and
`ClientSession` is the browser at the other end of that module.

An MC module that checks several modules gives a behaviour a variable `part`, chosen at
the start: one module runs, the others stand still. They share no variable, so every
invariant of theirs means what it means alone, and fairness is stated of
the part that runs.

### Correspondence of `OrderEscrow` with the code

| Variable | Code |
|---|---|
| `order` | `service_orders`: status, `revisions_remaining`, whether `cancelled_by` is an admin; `provider` is the gateway of the fund transaction; `stale` says that the timestamp the sweep compares is past its cutoff |
| `escrow` | `escrows`: status, `version`, whether `release_transaction_id` is set |
| `fundTx` | status of the ESCROW_FUND row of `transactions` |
| `dispute` | `disputes.status` |
| `ledger` | history: how often the payment was confirmed, failed, released, refunded by a commit |
| `ordersCount`, `payoutReady` | `services.orders_count`; a verified payout account with all three fields |
| `gateway` | whether the hosted page captured the payment (external; no guard of the code reads it) and the page the buyer's redirect was answered with |
| `orderLock` | the row lock an UPDATE keeps until commit, where a transaction has several steps |
| `req` | what a request in flight has read: the ORM identity map of its session |

A handler is one action where a `FOR UPDATE` row covers it from its test to its
commit (`ConfirmQiCardPayment`, whose transaction row is locked;
`ReleaseEscrowById`, the payout page). Otherwise it is a load action that does the reads and the
early returns, and one action per later point at which what it reads or writes
can have changed: `LoadOrder` then `MarkDelivered`, `RequestRevision`,
`CompleteOrder` and so on; a dispute is `LoadOrder`, `DisputeFlush` (which takes
the row lock) and `DisputeCommit`; a resolution is `LoadOrder`,
`ResolveReadEscrow`, `ResolveRelease` or `ResolveRefund`, and `CloseDispute` where
the dispute service commits a second time. Columns the ORM did not see change
are not written, which is why `RequestRevision` and `AssignAdmin` may leave a
newer value alone. `Rollback` is `get_db`'s except branch, a lost connection or a
killed worker: it can hit any request in flight. The sweep is `ExpireList`,
`ExpireOrder`, `AutoCompleteList`, `AutoCompleteOrder`, `SweepEnd`.

Abstracted: amounts (every escrow carries one amount, split once), messages,
e-mails, notifications, evidence, texts, pagination, the order's own price
arithmetic. `place_order` after a gateway error rolls back everything, so it is a
step that did not happen.

### Correspondence of `ReleaseApproval` with the code

| Variable | Code |
|---|---|
| `escrow` | `escrows.status`, from FUNDED on |
| `releases` | the ESCROW_RELEASED rows of `admin_audit_logs` for an escrow: how many, which administrators stand behind them, and whether they are `recent`, inside the 24-hour window |
| `approval` | `payout_approvals`: status, escrow, requester, decider |
| `escrowLock`, `approvalLock` | the `FOR UPDATE` row locks a request holds until commit or rollback |
| `req`, `total` | what a request has in hand, and its `freelancer_total` |

`request_release` is `RequestRelease` (the locking SELECT), `SumReleased` and `SumPending`
(two statements, each with a snapshot of its own) and one of `ReleaseNow`,
`RequestApproval`, `RefuseSecondRequest`. `approve` is `LoadPending` and then `Approve`
or `CancelApproval`; it waits for an escrow row another request holds. `reject` is one
action. Not here: an escrow that is written FUNDED again over a refund
(`OrderEscrow` has it), the payout-method snapshot, the signed request text.

### Correspondence of `Scheduler` with the code

`lock` is the key `scheduler:...:lock` with the worker that set it (the key itself
holds only "1"), `lastRun` whether the key `last_run` lies within the interval,
`pc` where a worker is in `_run_with_lock`, `current` whether the time it took at the
start does. Each Redis command is an action; `RunnerReturns` covers a run that
succeeds, raises or is cancelled by `stop()`. `Crash` is a killed worker or a Redis
command that raises. `LockExpires` and `IntervalPasses` are time (external). Loss of the Redis
data is not modelled.

### Correspondence of `JobBoard` with the code

| Variable | Code |
|---|---|
| `job` | `jobs`: status, `freelancer_id`, `proposal_count`; "deleted" is a row that is gone |
| `proposal` | `proposals.status` by job and freelancer (`uq_proposal_job_freelancer`) |
| `contract` | `contracts` by the proposal they come from (`proposal_id` is unique) |
| `openings` | history: how often a job was created open or reopened |
| `jobLock`, `proposalLock` | the row locks of transactions with several steps |
| `req` | what a request has in hand; `seenOpen` is the job in its session's identity map, `others` the proposals an acceptance is to reject |

Every operation is a load, with the reads and the early returns (`LoadSubmit`, `LoadWithdraw`,
`LoadRespond`, `LoadClose`, `LoadDelete`), and a commit by id. Withdrawal and acceptance write the
proposal first and then wait for the job (`FlushProposal`, then `Withdraw` or `LockJob`,
`Accept`). A deletion looks for proposals and contracts in the flush (`FindNoChild`), and the
DELETE cascades to whatever was inserted since (`DeleteJob`). `Rollback` is also the victim
PostgreSQL chooses when two transactions wait for each other's rows. `SetStatus` is the
administrator's unchecked edit; `CompleteContract` is all this module keeps of the contract's
life. Edits to a job's text (`update_job`) are left out: no status depends on them, and
`JobUpdate` has no status.

### Correspondence of the other modules

A request in flight is always an entry of a variable that says what its session has
read; a *load* has the reads and the early returns, a *commit* what is written over
whatever the row is by then. `Rollback`, `Abandon...`, `...Fails` is the request that
raises or is lost.

**`MilestoneEscrow`** – `contract`, `milestone`, `escrow`, `fundTx` are the rows of one
contract, `funded`, `failed` and `released` the ledger. Every operation
of `ContractService` on milestones is a `Load...` and a commit; an approval is
`LoadReview`, `FlushApproved` (autoflush: the row lock), then `ApproveUnfunded`, or `Tally`
(the release, and the sum over the contract's milestones) and `FinishApproval`.
`ConfirmPayment` is the success redirect under its locked transaction, `LoadFailed` and
`WriteFailed` the failure redirect, which writes over whatever became of the rows since it
found the transaction PENDING; `AdminRelease` is the payout page. None of them depends on the
gateway: the signature of every redirect is that of the order id. `overtaken` and `orderly` are
history: a request is overtaken when another of the same sender commits, and what is committed
is orderly until an overtaken request commits; an approval that nobody overtook, which sums up
afresh, makes it orderly again. A milestone has
`MaxAttempts` payments, all under the order id `escrow-<milestone>`: the redirect finds one
only while there is one (`TheTransaction`).

**`Payouts`** – `earned` and `booked` are the two sums of the ledger, `payout` the rows,
`marks` the audit rows. `TakeAdvisoryLock`, `SumEarned`, `SumPaidOut` and `InsertPayout` are
`request_payout`; `LockPayout` and `MarkPayoutPaid` the administrator's page.

**`BuyerRequests`** – each operation is a load and a commit; `AcceptOffer` is one step with its
UPDATE of the other offers. `ExpireOldRequests` is the nightly conditional UPDATE.

**`Reviews`** – `completed` and `review` are rows with their stars, `person` and `services` the two
caches, each an average in hundredths of a star and a count. `LoadDeal`, `InsertReview`, `Aggregate`,
`FlushPerson`, `CommitReview` are one submission. The ORM writes to the person's row the columns
that differ from what was loaded (`WritesCount`; an average that is not exact in binary always
differs); the services are updated with both.

**`ServiceCatalog`** – `listing` is the row; `packages` counts replacements of the packages,
so that an order can refer to packages that are gone. `gallery` and `files` are the image
lists and the disk: an upload writes its file first and the row later, a removal the row first.

**`SellerLevels`** – `CountCompleted`, `CountTotal` and `RecalculateLevel` are
`_recalculate_one_freelancer` statement by statement, `ReadForRank` and `RefreshRank` the rank
of a service. `score` keeps the terms of the rank that come from these statistics.

**`AdminGuard`** – `Authorise`, `LockAdmins` (advisory lock and `FOR UPDATE`), `CheckRemaining`,
then `SetStatusOf` or `ToggleSuperuser`; `LoadSupport` and `ToggleSupport` without the lock;
`Leave` is `deactivate_account` and the erasure of personal data, switched by
`AdminsMayLeave`.

**`AccountSessions`** – `token` are refresh token rows, `version` is `token_version`, `browser`
the cookies. A login or refresh loads (`Login`, `LoginByOtp`, `Refresh`), inserts (`Issue`) and
answers (`Answer`) or loses the answer (`Drop`). `LoadEndAll` or `LoadReset`, `RevokeAll` and
`EndAll` are every operation that ends all sessions: the UPDATE takes its snapshot, waits for
locked rows, and at the commit has revoked what it saw and no row inserted since. `slipped` is
history: those rows, and the ones they are rotated into. `GraceEnds` is a minute (external).

**`ClientSession`** – `jar` is the cookie, `post` each `POST /auth/refresh` of an interceptor or a
timer, `ask` the requests of the tabs. `Unauthorized`, `TimerFires`, `Arrive`, `Refused`,
`RefreshLost`, `ClearSession` are the branches of `client.ts` and `auth-store.ts`; `LoadRefresh`
and `Rotate` the server's end. `excused` records what may cost the browser its session: a logout,
the end of all sessions, a lost refresh, an older cookie that arrives last, a clear-session that
arrives late.

**`Conversations`** – `scene` is what the conversation is about and who takes part, which
decides who may open or join it; `thread` and `message` are rows, `request` what a request
has read. `SendMessage`, `SendMasked`, `RefuseMessage` are the filter's outcomes;
`Post` and `CommitMessage`, `LoadThread`, `ZeroUnread` and `GetMessages` the two transactions.
`opened` is history: the messages that were there when a participant opened the conversation. All
of them are marked, whichever page of 50 is returned.

**`SupportTickets`** – `handling` and `reply` are what staff and user have read; a column
whose new value equals the one that was read is not written (`Written`). `waiting` is
history: a reply that no resolution by somebody who read it follows.

**`Realtime`** – `conns` and `online` are the two Redis keys, `fallback` the workers' own
counts. `CountIn`, `AddOnline`, `CountOut`, `DeleteCount`, `RemoveOnline` are one Redis command
each; `Publish`, `DeliverLocal`, `Relay`, `Receive` the way of an event. `RedisFails` and
`WorkerDies` are bounded by `MaxOutages`.

**`Notifications`** – a marking is one UPDATE that takes its rows one by one (`TakeRow`) and
tests each again after waiting for it; `PushRead` sends the number to the user's other tabs, and
`CommitMark` or `AbortMark` comes after it. `pushed` sums the numbers, `undone` the rows among
them whose marking was rolled back.

**`RateLimiter`** – `counter` and `ttl` are the Redis key, `recent` the workers' lists by age of
the request. `KeyLost`, `IsAllowedReplyLost`, `CleanupFallback` are the faults; the first and
the last are bounded by `MaxFaults`.

**`PaymentGateway`** – the breaker's fields, and the calls that wait for the gateway. `wasted`
counts the failures since the last success or attempted reset.

## What the runs show

| Run | Bounds | Shows |
|---|---|---|
| `order_core` | 1 order, a buyer, a seller, an admin, a worker, 1 revision, 1 crash | the inductive invariant `IInv`, `ConfirmedOnce`, `CallbackFunds`, `FrozenUntilResolved`, and that the module implements `EscrowLedger` |
| `order_pairs` | 1 order, a buyer, 2 admins, 2 workers, 1 revision, 1 crash | `ReleasesBacked`, `CountMatches`, `ExpiredStaysCancelled` when two resolutions and two sweeps overlap |
| `order_live` | 1 order, a buyer, a seller, a worker, unlimited revisions, 1 crash | `PendingSettles`, `DeliveredSettles` |
| `approval` | approvals: a large and three small escrows of one seller, 2 admins, 2 requests, 2 approval rows; payouts: 2 earners, 2 requests, 2 rows, amounts 1 and 2, at most 3 released; admins: 3 accounts, 2 of them administrators, 2 requests, none leaves | `IInv`, `LargePayoutsNeedTwo`, `SplitBounded`; `PayoutsBacked`, `MarkedOnce`; `GuardInv`, `AlwaysAnAdmin` |
| `milestones` | 2 milestones with 2 payments each, 2 requests of the client, 1 of the freelancer, a failure redirect, amounts 1 and 2, total 2; two requests of the client overlap only at amount 1 and with payments that did not fail | `IInv` (with `CompletedIsPaid`), `AmountPaidExact`, `SettledOnce`, and that the module implements `EscrowLedger` |
| `job_board` | jobs: 1 job, 2 freelancers with 2 requests, 1 of the client, 1 reopening; requests: 2 buyer requests, 3 offers, 1 open at most, 2 offers each; reviews: 3 deals, 3 submissions, 1 or 5 stars; catalogue: 1 request of the owner, 2 moderators, 1 purchase, 2 images, 2 sets of packages; levels: 3 orders, 2 runs | `MarketInv`, `ContractPerOpening`, `ContractsSurvive`, `RejectionStands`, `AcceptanceDecidesAll`; `OneDeal`; `RatingsAgree` |
| `community` | chat: both participants and a member of staff, 2 requests, 2 messages, 2 offences; ticket: 2 agents with 2 requests, 1 reply; realtime: 3 connections, 2 workers, 1 event, 1 outage; notices: 3 rows, 2 markings, 2 rows pushed in vain; sessions: 1 browser, 3 tokens, 2 requests and one that ends all sessions, 1 code, 1 version bump | `UnreadCovered`, `ReceiptsHonest`; `RepliesReopen`; `NobodyLingers`; `EndedMeansEnded`; `CommunityInv` |
| `scheduler` | scheduler: 3 workers, 2 crashes; rates: 2 workers, limit 2, window 2, 1 fault; gateway: 3 calls, thresholds 3 and 2; client: 1 tab, 2 requests, 3 tokens | `IInv`, `DueJobRuns`; `BlockedEnds`; `Recovers`; `RequestsEnd`; `InfraInv` |

`MarketInv`, `CommunityInv` and `InfraInv` are the conjunctions of the type invariants of the
modules a run checks and of their further invariants, `GuardInv` those of `AdminGuard`; among
them: a live listing was approved (`LiveWasApproved`) and an order keeps its package
(`OrdersKeepPackage`); a completion rate is at most 1 (`RateIsARate`); limits are exceeded by no
more than the requests in flight (`LimitsNearlyHold`); an event is shown once (`ShownOnce`) and
the numbers pushed for markings add up (`ReportedOnce`); a window admits a bounded number of
requests whatever Redis does (`WindowBounded`); an outage costs a bounded number of calls
(`OutageBounded`); refreshes of one browser's tabs do not log it out (`StaysSignedIn`).

Why the bounds are enough. The properties of the orders speak of one order at a time and
orders share only `ordersCount`, `payoutReady` and the worker's list, so one order is
enough; one session of each role gives every pairwise race between roles, and two admins or
two workers the races within a role. `MaxCrashes` bounds `Rollback`: one lost
transaction at any point of any request. A second milestone is what the
contract's total and its automatic completion need, a second payment what a retry after
a failure needs. Two requests of the client are two approvals that each miss the other's
milestone; that the payments stay sound under every overlap is proved, so the run does not
combine two requests of the client with failures and retries.

The rule of `ReleaseApproval` compares sums with the threshold, so the sizes that
matter are one above it, and ones below it of which two are together above; a race
needs two requests. `RoomForApproval` admits a request only if an approval row is left
for it, which bounds the history and blocks no request once it started.
`SplitBounded` is what is left of the splitting rule when requests
overlap: what single signatures moved inside the window is at most the threshold times the
number of requests in flight. Two withdrawals of one earner and one of another
show the advisory lock both taken and not in the way.

Three workers show a lock that passes from a killed worker to one while a third is about
to take it. Jobs of `JobBoard` share nothing but the freelancers, so one job is enough;
two freelancers are an accepted one and a rejected one. `MaxOpenings = 2` is a job that an
administrator reopens once. Two buyer requests and three offers fill one request against
both limits. Three reviews of one person are two that overlap and one that settles the
cache afterwards; one star and five are two reviews whose order decides the average, and a
third that leaves it as it was. Three orders reach both level thresholds, which the MC module lowers.

Three tokens are a session, its rotation, and one more rotation or login. Three
connections over two workers are two on one worker and one elsewhere, so that a count
passes through zero while another worker is between its two commands. Limit and window of 2
give a request of every age and one too many; `MaxUndone = 2` is two markings that are
rolled back after their push, or one of two rows; a threshold of 3 needs three calls at once
to trip in one burst. Three generations of tokens are
the cookie's, its rotation, and the one the grace period rotates that into.

The client's requests. `ContractPerOpening`, `AcceptanceDecidesAll`, `RejectionStands` and
`OneDeal` hold only for a client with one request in flight at a time, the image facts of
`ServiceCatalog` only for one request of the owner, `EndedMeansEnded` only if requests that end
all sessions do not overlap; the runs therefore give each of them one, and the next section says
what two can do. `AmountPaidExact` and `CompletedIsPaid` say it themselves, and the run has two
requests of the client: they make no promise between the commit of an overtaken request and the
next approval that nobody overtakes.

`CHECK_DEADLOCK FALSE` stands where a world may be finished: all escrows paid out, the job or the
service deleted, the contract completed with every attempt used, every token, message, ticket
or bounded fault spent.

Runs that show where the documents and the code part (each names the line it
quotes in `PROJECT.json`, "findings"):

* `doc_released_and_refunded` – a release resolution reads the frozen escrow, a
  second admin refunds it, and the first writes FUNDED over REFUNDED and releases.
  The version check does not notice: a refund does not bump it.
* `doc_funded_is_captured` – an order is placed, and its success redirect arrives although the
  gateway captured nothing: the signature depends on the order id alone, and is the same in the
  failure and cancel URLs. The escrow is FUNDED. Every property of orders and milestones speaks of
  confirmations, not of captures, for that reason.
* `doc_one_contract` – a client accepts two proposals of one job from two tabs: the
  second acceptance waits for the job's lock, and then tests the status it had loaded
  before. The job gets two contracts.
* `doc_escalates` – the third offence of a sender should suspend their chat. From the second on
  a message is refused, and the 400 rolls back the transaction that raised the count: it stays
  at one.

### Differences that reading shows

No run states these; each follows from the actions named or from a single line.

*Orders and money.* An order can become DISPUTED although its escrow has just been released
(`catalog_service.py:860`, against `support-dispute-audit.md:28`). A frozen escrow can end on an
order whose status a handler wrote over DISPUTED, and whose resolution is refused
(`catalog_service.py:945`, against `support-macros.md:202`). An order that the sweep expired may
have been charged (`marketplace_tasks.py:126`, against `refund-runbook.md:32`). A failure redirect
that found the transaction PENDING writes FAILED and REFUNDED over a confirmed, or even released,
payment; another success redirect then confirms it again, since only COMPLETED is taken for
processed (`payment_service.py:396`). A dispute resolution releases a large escrow on one
signature (`catalog_service.py:961`, against `dispute-runbook.md:183`); a release of exactly the
threshold needs one signature (`payout_approval_service.py:93`, against `payout-runbook.md:72`),
and two requests at once can each miss the other's release (`payout_approval_service.py:89`). The
redirect of Zain Cash never finds its payment (`payment_service.py:387`), and neither does that of
a milestone payment that was retried: it finds two transactions (`payment_service.py:386`).

*Milestones.* Two approvals at once write `amount_paid` from sums that each miss the other, and
neither completes the contract; a payment that a failure redirect wrote over can be confirmed and
released a second time;
a hand-in that was loaded before an approval writes SUBMITTED over PAID; deleting a milestone that
was funded while PENDING cascades to its escrow; `update_milestone` does not check the
contract's total; a release from the payout page leaves the milestone APPROVED;
`refund_escrow` has no caller.

*Accounts.* The counters of failed logins and of wrong codes are rolled back by the error that
reports them; `token_version` is read, raised and written without a lock, so of two requests that
end all sessions the second may raise nothing (`auth_service.py:648`, against its docstring at
line 638); a code or reset link used twice at once works twice; `toggle_support` takes no lock; an
administrator who deactivates or erases their own account is not counted. A refresh inside the
grace after "end the other sessions" logs its browser in again (`auth_service.py:486`), as does
one that loaded its row before "end all sessions" ran. A token that a refresh inserts after
`logout_all`'s UPDATE took its snapshot, while that UPDATE waits, stays active, and so do its
rotations (`auth_service.py:639`, against the docstring at line 638). In the browser, a refresh
answer that arrives after a newer one leaves a revoked token in the cookie; any network failure of
a refresh clears the session; a late clear-session wipes a new login; a refresh answer after
logout restores the cookies.

*Marketplace.* Two tabs of a client can accept two offers, reject an accepted one or cancel a
filled request; offers sent while another is being accepted stay PENDING; an acceptance does not
look at `expires_at`; a second offer of one freelancer makes later lookups fail. Reviews submitted
at once leave the cached rating behind, and the average on the person's row may differ from the
one on the services: a request whose own average equals the one it loaded does not write that
column to the person, but does to the services (`review_service.py:268`). And a service created
after the last review shows none. A pause that races a rejection lets the owner resume a rejected
service; edits of a paused or pending service go live unreviewed; replacing the packages, or
deleting the service, after an order expired fails on a foreign key; an image added while another
is removed can list a deleted file. `response_rate` is never written (`marketplace_tasks.py:215`),
so nobody reaches level 1; levels are computed before the night's automatic completions.

*Messages and Redis.* Opening messages bypass the filter; a staff member who is no participant
always answers participant one; `claim` transfers a ticket where its docstring promises 409; a
release that races a claim takes the ticket away; a reply that overlaps a resolution does not
reopen; system messages are never read by participant one. A user who reconnects while
disconnecting may show offline, a crashed worker leaves users online, and `_WORKER_ID`, a process
id, may collide between hosts. Notification pushes happen before the commit they announce: a
marking that is rolled back has lowered the badges of the other tabs, and is pushed again when it
is repeated (`notification_service.py:330`). Opening a conversation marks every message of the
other participant as read although one page of them is returned (`message_service.py:797`): a
receipt does not mean that the message was on the page. `scheduler.py:59` reads `last_run` before
the lock and not again, so a job may run twice in an interval, one run after the other. In the
breaker HALF_OPEN admits every call and an HTTP error status is no failure.

### Fairness

`LiveSpec` of `OrderEscrow` assumes strong fairness of each request in flight and of the
sweep, and weak fairness of time. The server carries every request it has accepted to
its end, and the scheduler starts `run_all` every day. It is strong fairness because a
waiting UPDATE is disabled while another transaction holds the row, and
PostgreSQL queues waiters, so a transaction whose row is freed again and again
gets it. Nothing is assumed of people, of the gateway, or of redirects. Crashes are bounded: a
worker that crashes for ever never completes anything.

`Scheduler`: weak fairness of each worker's tick (the loop ticks every minute),
of key expiry and of time. `RateLimiter`: weak fairness of time. `PaymentGateway`: weak fairness
of the beginning of calls (buyers keep paying; without a call the breaker never probes) and of
the recovery timeout, strong fairness of a call's success, which is enabled only while the gateway
answers; `Recovers` assumes that from some time on it does. `ClientSession`: every
request gets an answer or a network error, so weak fairness of answers,
of the outcome of a refresh and of clear-session. The refresh and the clear-session are sent by the
bare `axios.post` (`client.ts:41`, `client.ts:49`), which has no timeout of its own: they end because
the server answers, the proxy in front of it gives up on the worker, or the browser reports a broken
connection. No user is assumed to do anything there.

## What is proved

Every theorem holds for every value of the constants that satisfies the named assumptions of
its module: in most, that the sets of rows are finite, that amounts and limits are natural
numbers and that a "nobody" is nobody. What a theorem assumes beyond that stands in its
statement and is named here.

### Orders: `OrderEscrow_proofs`

* `Invariance`: `Spec => []IInv`, by `TypeStep`, the escrow, snapshot, transaction and
  handler steps, one case per action.
* `TypeCorrect`, `HeldMoneyIsConfirmed`, `ReleasesAreBacked`, `RefundsAreBacked`, `ConfirmsOnce`,
  `DisputedIsNotReleased`: the run's invariants, as consequences of `IInv`.
* `OrdersAreCounted` (`CountMatches`) and `CallbacksFund` (`CallbackFunds`); the latter assumes
  `OnlyQiCard`, because a success page of Zain Cash never finds its payment.
* `ExpiryIsFinal` and `DisputedMoneyIsFrozen` (`FrozenUntilResolved`): action properties.
* `LedgerImplemented`: `Spec => Ledger!LedgerSpec`.

None of them assumes anything of the gateway: a redirect may come at any time after the order
was placed, so what they say of money is said of confirmations.

None of the invariants is inductive alone. `ReleasesBacked` and `RefundsBacked` need to know what
each escrow status says of the ledger (`EscrowInv`: a FUNDED or DISPUTED row has
an unreleased and an unrefunded confirmation), and that in turn needs what
requests in flight remember (`SnapshotInv`). A resolver that read version v
may write FUNDED over anything later, and this is harmless only because the
release it belongs to demands that the version is still v, and v is at most the
number of confirmations. A dispute that saw a FUNDED row may freeze it later, and this
is harmless only because it holds the order row and every refund must write that row
first. `ConfirmedOnce` needs that a transaction that is not COMPLETED has at least as
many failures as confirmations (`TransactionInv`); `ExpiryIsFinal` needs that no request
in flight holds an order that is pending or expired (`HandlerInv`). The page of a callback needs
that an order with a page was checked out and that a COMPLETED transaction was confirmed
(`PageInv`).

### Approvals and payouts: `ReleaseApproval_proofs`

`Invariance`, `QueuedOnce` (`OnePending`) and `LargePayoutsAreSignedTwice`
(`LargePayoutsNeedTwo`), for any escrows, amounts, threshold, administrators and requests in
flight. Neither property is inductive: a decider is another administrator than the requester only
because the approval it loaded is still the one it holds the lock of (`RequestInv`), and an escrow
is released once only because a request holds its funded row until it ends (`ReleaseInv`).
`SplittingIsBounded` (`SplitBounded`) adds to them that what the requests in flight are
about to release counts already (`SplitInv`).
`PayoutsInvariant`, `PayoutsAreBacked` (`PayoutsBacked`) and `PayoutsAreMarkedOnce` (`MarkedOnce`)
rest on the advisory lock: a balance read under it is still the balance when the row is
inserted.

### Milestones: `MilestoneEscrow_proofs`

Every theorem holds for any milestones, attempts, prices and requests in flight, several of one
sender included, and for redirects in any order. `SettlesOnce` (`SettledOnce`),
`PaidMeansReleased` (`PaidIsReleased`) and `LedgerImplemented` need `PaymentsAgree` (what each
escrow and transaction status says of the ledger: a transaction that is not COMPLETED was written
over at least as often as its payment was booked in, a FUNDED escrow has a booking that was not
released), `FailuresAreBacked` (a failure redirect in flight holds a payment that was started) and
`ApprovalsOwn` (an approval between its release and its commit has the milestone and its funded
payment to itself).

`AmountPaidIsExact` (`AmountPaidExact`) and `CompletedMeansPaid` (`CompletedIsPaid`) carry their
exception in the property: while what was committed is orderly. What a request that nobody
overtook has tested of a milestone is still so when it writes, and the sum it read is the sum it
adds to (`TabInv`). The code does not keep a sender from overlapping requests; `TabInv` also says
that with one at a time (`OneAtATime`) nothing is ever overtaken. `MilestonesInvariant` (`IInv`)
is all of it.

### The marketplace: `Market_proofs`

`TypeCorrect` and `CountsAreBacked` (`CountNotOverstated`) need nothing: a decrement that runs
twice may only lower the counter, and the increment comes with the row it counts.
`RequestsGiveOnce` (`ContractPerRequest`) needs no bound on requests either: a job has at most as
many contracts per opening as the client has requests in flight, because an acceptance uses its
stale view of the job once. `OneContract` (`ContractPerOpening`) is its corollary for one tab of
the client. `ContractsAreKept` (`ContractsSurvive`), `RejectionsStand` (`RejectionStands`) and
`AcceptancesDecideAll` (`AcceptanceDecidesAll`) assume one tab of the client; `doc_one_contract`
shows that `OneContract` needs it. An open job must have an opening no contract has used
(`OpeningInv`), and so must the job that an acceptance in flight loaded as open (`AcceptanceInv`),
though others may have closed or reopened it since.

`OneDealPerRequest` (`OneDeal`) says what it assumes itself: one request of the client in flight. What
an acceptance has read of its offer and of its request is then still so when it writes
(`DealInv`). `RatingsAreExact` (`RatingsAgree`) holds for any overlap: it promises that the
counts of the two caches agree, because a submission always finds more reviews than it had loaded and
therefore writes the count to both; of the averages it promises exactness after a submission that
overlapped no other, and nothing after one that did.

`MarketIsSound` (`MarketInv`) is all five modules at once: the catalogue (what a request holds of
a listing was approved if it is live, images and their files, packages an order refers to), levels
(a run counts at most the orders that are completed) and the limits. It assumes one tab of the
client and one request of the buyer: a second one can reject an offer while the first accepts
another, which revives a rejected offer and with it one above the limit.

### Accounts and sessions: `Accounts_proofs`

`ChangesTakeTurns` (`GuardInv`) and `OneAdminRemains` (`AlwaysAnAdmin`) assume that there is an
administrator to begin with and that no administrator closes their own account. The property is
not inductive: a request about to write needs that somebody other than its target still is an
administrator (`ChecksHold`), which holds because a second change cannot be
between the lock and its write (`OneMutates`).

`EndedStaysEnded` (`EndedMeansEnded`) assumes `OneEnds`, that requests which end all sessions do
not overlap: two that loaded the same `token_version` both write it plus one, and an access token
a login got between their commits stays valid. It promises that only the tokens in `slipped` are
active and only their browsers authenticate: those that a refresh committed after the UPDATE took
its snapshot, and what they are rotated into. It needs that nothing held or under way carries a
version of the future, and that a refresh under way at the end holds a row that is revoked or
slipped (`VersionsBehave`).

### Messages, presence, notifications: `Messaging_proofs`

`RepliesStayOpen` (`RepliesReopen`) needs only types and what `Written` leaves alone.
`NoGhostOnline` (`NobodyLingers`) needs that the count is at most the connections counted, that a
count below zero has a connection about to delete it, and that a ticket not yet redeemed has no
connection (`Presence`). `ReceiptsAreHonest` (`ReceiptsHonest`) says that a message is marked
exactly if the other participant opened the conversation since it was sent, which is what the code
promises; it does not say that the message was on the page. It needs that a row posted and not
committed belongs to its request, that only participants mark, and that a draft is unread.
`UnreadIsCovered` (`UnreadCovered`) needs in addition that a request which reads a thread has one,
so that the row it zeroes is the row it read (`Tracked`). `EventsAreShownOnce` (`ShownOnce`) needs
that an event that was not relayed yet is in no channel; `NoticesAreReportedOnce`
(`ReportedOnce`), which counts the rows pushed and rolled back too, that the rows a marking has in
hand are unread and nobody else's. `CommunityIsSound` (`CommunityInv`) is the four and
`AccountSessions` together, under `OneEnds`.

### What the rest stands on: `Scheduler_proofs`

`Invariance` and `NeverTwice` (`MutualExclusion`) say: as long as no job has outlived the
lock's TTL (the history variable `overran`). That is what the comment at
`scheduler.py:36-38` asks of the configuration ("must exceed the longest expected job duration");
nothing in the code enforces it, and without it both fail. Mutual exclusion is not inductive: it
needs `LockOwned`, that a worker between SET NX and DELETE is the one that set the key.

`OutagesAreBounded` (`OutageBounded`): failures so far and the calls under way are together below
the bound, and while the circuit is closed every failure counts towards the threshold (`Costs`).
`TabsStaySignedIn` (`StaysSignedIn`): unless excused, the cookie holds an active token, or one in
its grace whose replacement is on its way in an answer (`Refreshable`).

`WindowsAreBounded` (`WindowBounded`) bounds what *any* stretch of one window admits, although
windows of the counter begin at the first request and those of the lists slide. It needs what was
admitted since the running window of the counter began (at most what the counter shows, and a
limit for each key that was lost) beside the total (one limit more, of the window before:
`CounterCovers`); and for the lists, of every age n, that what they admitted at age n or younger
is what they still hold of it and a limit for each list that is gone (`ListsCover`). When time
passes, the sum up to n becomes the sum up to n + 1 (`Shift`).

`InfraIsSound` (`InfraInv`, with the scheduler's `IInv`) is the four together.

### Sums: `Sums_proofs`

`SumFunctionOnSet` is defined by recursion over finite sets in an order nobody knows. The module
shows from the well-foundedness of the natural numbers that a set of numbers with 0 and every
successor is all of them (`EveryNumber`), turns that into an induction over the size of a finite set
(`BySize`), and proves that the sum does not depend on the order (`AnyOrder`). Everything
else cites `SumSplit`, `SumChange`, `SumMonotonic`, `SumGrows` and `SumBounded`.

### Only model-checked

Every safety property of the runs that pass has a theorem. What stays with TLC is liveness
(`PendingSettles`, `DeliveredSettles`, `DueJobRuns`, `BlockedEnds`, `Recovers`, `RequestsEnd`),
because the prover does not reach `ENABLED`; and what happens without the assumptions named above,
which the `doc_` runs and the section on differences describe.

## Not modelled

* HTTP routing, headers, metrics, and the deployment: configuration around the services.
* Edits of texts, prices and amounts (`update_job`, `update_proposal`, profile fields), lists,
  search, statistics and view counters: single-row writes or reads no guard depends on.
* E-mail, log lines, the texts of notifications and audit rows.
* Signatures and tokens as strings; the link cache of the gateway client, which no
  caller can hit, and the retry decorator, which retries none of the errors its caller raises.
* Retention of tables other than `notifications`: deletion of old rows nothing reads.
* Reports about reviews, attachments, heartbeats and typing indicators.
* The pages and forms of the frontend: they keep no state the server trusts, except
  the session, which is `ClientSession`.
* Loss of the database, and anything that edits its rows from outside.
