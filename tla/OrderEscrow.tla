---------------------------- MODULE OrderEscrow ----------------------------
(***************************************************************************)
(* The life of a service order and of the escrow that holds its money:     *)
(* checkout, gateway callbacks, delivery, disputes, admin resolution and   *)
(* the nightly sweeps of the scheduler.                                    *)
(*                                                                         *)
(* A request handler runs in one READ COMMITTED transaction.  Most load    *)
(* the order WITHOUT a row lock, check its status and write it back later  *)
(* with UPDATE ... WHERE id = ?.  A handler is therefore one action when   *)
(* a FOR UPDATE row covers it, and otherwise a "load" action followed by   *)
(* the action of its locked suffix, with the session remembering what it   *)
(* read in between.                                                        *)
(***************************************************************************)
EXTENDS Integers, FiniteSets

CONSTANTS
    Orders,         \* service orders, all on one service
    Providers,      \* gateways a buyer may choose at checkout
    Clients,        \* sessions (tabs) of the buyer
    Freelancers,    \* sessions of the seller
    Admins,         \* sessions of administrators
    Workers,        \* Gunicorn workers running the scheduled sweep
    Revisions,      \* revisions the package grants, -1 for unlimited
    MaxCrashes,     \* bound on transactions that die before their commit
    NoSession       \* owner of a free row lock

Sessions == Clients \cup Freelancers \cup Admins \cup Workers

ASSUME SessionAssumption == NoSession \notin Sessions
ASSUME RevisionAssumption == Revisions \in Nat \cup {-1}
ASSUME OrderAssumption == IsFiniteSet(Orders)

VARIABLES
    order,          \* service_orders rows
    escrow,         \* escrows rows, one per order
    fundTx,         \* status of the ESCROW_FUND transaction of each order
    dispute,        \* disputes rows: their status, "none" when absent
    ledger,         \* counts of committed ledger movements of each order
    ordersCount,    \* services.orders_count
    payoutReady,    \* the seller's QiCard payout account is complete
    gateway,        \* what the gateway knows and what page the buyer got
    orderLock,      \* session that holds the row lock of an order
    req,            \* what each session has in flight
    crashes         \* transactions lost so far

vars == <<order, escrow, fundTx, dispute, ledger, ordersCount, payoutReady,
          gateway, orderLock, req, crashes>>

OrderStatus == {"pending", "pending_requirements", "in_progress", "delivered",
                "revision_requested", "completed", "cancelled", "disputed"}

EscrowStatus == {"pending", "funded", "released", "refunded", "disputed"}

TransactionStatus == {"pending", "completed", "failed"}

DisputeStatus == {"open", "under_review", "resolved_refund", "resolved_release"}

\* Result pages of the payment redirects.
Pages == {"none", "success", "error", "failed"}

---------------------------------------------------------------------------
(* Rows.  "stale" says that the timestamp the sweep compares (created_at   *)
(* of a pending order, delivered_at of a delivered one) is past its cutoff *)

OrderRow == [status : OrderStatus \cup {"none"},
             provider : Providers \cup {"none"}, revisions : Nat \cup {-1},
             byAdmin : BOOLEAN, stale : BOOLEAN]

EscrowRow == [status : EscrowStatus \cup {"none"}, version : Nat \ {0},
              releaseTx : BOOLEAN]

LedgerRow == [confirmed : Nat, failed : Nat, released : Nat, refunded : Nat]

GatewayRow == [paid : BOOLEAN, page : Pages]

\* Statuses from which each handler may start: its early returns.
Disputable == {"pending_requirements", "in_progress", "delivered",
               "revision_requested"}

StartsFrom == [submit_requirements |-> {"pending_requirements"},
               mark_delivered |-> {"in_progress", "revision_requested"},
               request_revision |-> {"delivered"},
               complete_order |-> {"delivered"},
               raise_dispute |-> Disputable,
               open_dispute |-> Disputable,
               resolve_order |-> {"disputed"},
               resolve_dispute |-> {"disputed"}]

Ops == DOMAIN StartsFrom
         \cup {"none", "payment_failed", "assign_admin", "expire", "auto_complete"}

Stages == {"idle", "loaded", "escrow_read", "resolved"}

(* A session's local memory: the handler, its order, whether it saw the    *)
(* escrow row it filters for, the revisions or version it read, the rows a *)
(* sweep listed, and the outcome an admin chose.                           *)
Request == [op : Ops, stage : Stages, order : Orders \cup {"none"},
            seen : BOOLEAN, val : Nat \cup {-1}, todo : SUBSET Orders,
            outcome : {"none", "release", "refund"}]

Idle == [op |-> "none", stage |-> "idle", order |-> "none", seen |-> FALSE,
         val |-> 0, todo |-> {}, outcome |-> "none"]

TypeOK ==
    /\ order \in [Orders -> OrderRow]
    /\ escrow \in [Orders -> EscrowRow]
    /\ fundTx \in [Orders -> TransactionStatus \cup {"none"}]
    /\ dispute \in [Orders -> DisputeStatus \cup {"none"}]
    /\ ledger \in [Orders -> LedgerRow]
    /\ ordersCount \in Nat
    /\ payoutReady \in BOOLEAN
    /\ gateway \in [Orders -> GatewayRow]
    /\ orderLock \in [Orders -> Sessions \cup {NoSession}]
    /\ req \in [Sessions -> Request]
    /\ crashes \in Nat

Init ==
    /\ order = [o \in Orders |-> [status |-> "none", provider |-> "none",
                                  revisions |-> Revisions, byAdmin |-> FALSE,
                                  stale |-> FALSE]]
    /\ escrow = [o \in Orders |-> [status |-> "none", version |-> 1,
                                   releaseTx |-> FALSE]]
    /\ fundTx = [o \in Orders |-> "none"]
    /\ dispute = [o \in Orders |-> "none"]
    /\ ledger = [o \in Orders |-> [confirmed |-> 0, failed |-> 0,
                                   released |-> 0, refunded |-> 0]]
    /\ ordersCount = 0
    /\ payoutReady \in BOOLEAN
    /\ gateway = [o \in Orders |-> [paid |-> FALSE, page |-> "none"]]
    /\ orderLock = [o \in Orders |-> NoSession]
    /\ req = [s \in Sessions |-> Idle]
    /\ crashes = 0

---------------------------------------------------------------------------
(* Helpers shared by the handlers.                                         *)

Begin(s, r) == req' = [req EXCEPT ![s] = r]

\* The handler committed; its session is free again.
Done(s) == req' = [req EXCEPT ![s] = Idle]

SetOrder(o, st) == order' = [order EXCEPT ![o].status = st]

SetEscrow(o, st) == escrow' = [escrow EXCEPT ![o].status = st]

Show(o, page) == gateway' = [gateway EXCEPT ![o].page = page]

At(s, op, stage) == req[s].op = op /\ req[s].stage = stage

\* Mutant: an UPDATE that does not wait for the row.
Unlocked_NoWait(o) == TRUE

\* No other transaction holds the row: an UPDATE of the order can proceed.
Unlocked(o) == orderLock[o] = NoSession

(* PaymentService._release_locked_escrow: the fee and release rows and     *)
(* UPDATE ... WHERE version = expected AND status = 'funded'.              *)
ReleaseLockedEscrow(o) ==
    /\ escrow' = [escrow EXCEPT ![o] = [status |-> "released",
                                        version |-> @.version + 1,
                                        releaseTx |-> TRUE]]
    /\ ledger' = [ledger EXCEPT ![o].released = @ + 1]

\* Mutants: the status filter dropped, or widened to disputed escrows.
Releasable_AnyStatus(o) == escrow[o].status # "none"
Releasable_Disputed(o) == escrow[o].status \in {"funded", "disputed"}

\* SELECT ... WHERE status = 'funded' FOR UPDATE, then release if found.
Releasable(o) == escrow[o].status = "funded"

ReleaseIfFunded(o) ==
    IF Releasable(o) THEN ReleaseLockedEscrow(o)
                     ELSE UNCHANGED <<escrow, ledger>>

---------------------------------------------------------------------------
(* Checkout and the gateway.                                               *)

(* CatalogService.place_order: order, transaction and escrow rows in one   *)
(* commit; a gateway error rolls everything back, which changes nothing.   *)
PlaceOrder(o, p) ==
    /\ order[o].status = "none"
    /\ order' = [order EXCEPT ![o].status = "pending", ![o].provider = p]
    /\ SetEscrow(o, "pending")
    /\ fundTx' = [fundTx EXCEPT ![o] = "pending"]
    /\ ordersCount' = ordersCount + 1
    /\ UNCHANGED <<dispute, ledger, payoutReady, gateway, orderLock, req, crashes>>

(* The hosted payment page, outside the program, captures a payment once.  *)
(* No handler asks the gateway whether it did.                             *)
GatewayPay(o) ==
    /\ order[o].status # "none"
    /\ ~gateway[o].paid
    /\ gateway' = [gateway EXCEPT ![o].paid = TRUE]
    /\ UNCHANGED <<order, escrow, fundTx, dispute, ledger, ordersCount,
                   payoutReady, orderLock, req, crashes>>

(* PaymentService.confirm_qi_card_payment, reached by the success redirect *)
(* of both gateways, late, lost or repeated.  It looks the transaction up  *)
(* by provider QI_CARD and external id = order reference.  The transaction *)
(* row stays locked, so the handler is one step.                           *)
\* (mutant: only PENDING rows are looked up, so a retried payment is lost)
FundingTransactionFound_PendingOnly(o) ==
    order[o].provider = "qi_card" /\ fundTx[o] \in {"pending", "completed"}

FundingTransactionFound(o) ==
    order[o].provider = "qi_card" /\ fundTx[o] # "none"

\* Mutants: no idempotency check, no second look at the order.
NotYetConfirmed_Always(o) == TRUE
StillPending_Always(o) == TRUE

\* The early return for a transaction that is already COMPLETED.
NotYetConfirmed(o) == fundTx[o] # "completed"

\* The signature is the HMAC of the order reference alone.  Checkout puts the
\* same one into the success, failure and cancel URLs, so it proves that the
\* order was checked out, not that the gateway captured the payment.
SignatureValid(o) == order[o].status # "none"

\* The order is re-read under its lock before it leaves PENDING.
StillPending(o) == order[o].status = "pending"

ConfirmQiCardPayment(o) ==
    /\ SignatureValid(o)
    /\ FundingTransactionFound(o)
    /\ NotYetConfirmed(o)
    /\ Unlocked(o)
    /\ fundTx' = [fundTx EXCEPT ![o] = "completed"]
    /\ SetEscrow(o, "funded")
    /\ ledger' = [ledger EXCEPT ![o].confirmed = @ + 1]
    /\ IF StillPending(o)
       THEN \E st \in {"pending_requirements", "in_progress"} : SetOrder(o, st)
       ELSE UNCHANGED order
    /\ Show(o, "success")
    /\ UNCHANGED <<dispute, ordersCount, payoutReady, orderLock, req, crashes>>

\* The redirects that write nothing: already processed, or not found.
ConfirmWithoutEffect(o) ==
    /\ SignatureValid(o)
    /\ IF FundingTransactionFound(o)
       THEN ~NotYetConfirmed(o) /\ Show(o, "success")
       ELSE Show(o, "error")
    /\ UNCHANGED <<order, escrow, fundTx, dispute, ledger, ordersCount,
                   payoutReady, orderLock, req, crashes>>

(* PaymentService.handle_qi_card_payment_failed: the PENDING transaction   *)
(* is selected without a lock and overwritten later.                       *)
PaymentFailedLookup(s, o) ==
    /\ req[s] = Idle
    /\ SignatureValid(o)
    /\ IF FundingTransactionFound(o) /\ fundTx[o] = "pending"
       THEN /\ Begin(s, [Idle EXCEPT !.op = "payment_failed",
                                     !.stage = "loaded", !.order = o])
            /\ UNCHANGED gateway
       ELSE Show(o, "failed") /\ UNCHANGED req
    /\ UNCHANGED <<order, escrow, fundTx, dispute, ledger, ordersCount,
                   payoutReady, orderLock, crashes>>

PaymentFailedWrite(s) ==
    /\ At(s, "payment_failed", "loaded")
    /\ LET o == req[s].order IN
       /\ fundTx' = [fundTx EXCEPT ![o] = "failed"]
       /\ SetEscrow(o, "refunded")
       /\ ledger' = [ledger EXCEPT ![o].failed = @ + 1]
       /\ Show(o, "failed")
    /\ Done(s)
    /\ UNCHANGED <<order, dispute, ordersCount, payoutReady, orderLock, crashes>>

---------------------------------------------------------------------------
(* Handlers of an existing order: _get_order and the status check, without *)
(* a lock; the rest of the handler runs in a later step.                   *)

LoadOrder(s, op, o) ==
    /\ req[s] = Idle
    /\ order[o].status \in StartsFrom[op]
    /\ op = "request_revision" => order[o].revisions # 0
    /\ op = "open_dispute" => dispute[o] = "none"
    /\ op = "resolve_dispute" => dispute[o] \in {"open", "under_review"}
    /\ Begin(s, [Idle EXCEPT !.op = op, !.stage = "loaded", !.order = o,
                             !.val = order[o].revisions])
    /\ UNCHANGED <<order, escrow, fundTx, dispute, ledger, ordersCount,
                   payoutReady, gateway, orderLock, crashes>>

SubmitRequirements(s) ==
    /\ At(s, "submit_requirements", "loaded")
    /\ Unlocked(req[s].order)
    /\ SetOrder(req[s].order, "in_progress")
    /\ Done(s)
    /\ UNCHANGED <<escrow, fundTx, dispute, ledger, ordersCount, payoutReady,
                   gateway, orderLock, crashes>>

\* delivered_at := now restarts the three days of the auto-complete sweep.
MarkDelivered(s) ==
    /\ At(s, "mark_delivered", "loaded")
    /\ Unlocked(req[s].order)
    /\ order' = [order EXCEPT ![req[s].order].status = "delivered",
                              ![req[s].order].stale = FALSE]
    /\ Done(s)
    /\ UNCHANGED <<escrow, fundTx, dispute, ledger, ordersCount, payoutReady,
                   gateway, orderLock, crashes>>

\* -1 means unlimited and is never decremented.
RevisionsAfter(v) == IF v > 0 THEN v - 1 ELSE v

\* The decrement is computed from the value read, not in SQL; a value the
\* handler leaves alone is not written.
RequestRevision(s) ==
    /\ At(s, "request_revision", "loaded")
    /\ Unlocked(req[s].order)
    /\ order' = [order EXCEPT
                   ![req[s].order].status = "revision_requested",
                   ![req[s].order].revisions =
                       IF RevisionsAfter(req[s].val) # req[s].val
                       THEN RevisionsAfter(req[s].val) ELSE @]
    /\ Done(s)
    /\ UNCHANGED <<escrow, fundTx, dispute, ledger, ordersCount, payoutReady,
                   gateway, orderLock, crashes>>

CompleteOrder(s) ==
    /\ At(s, "complete_order", "loaded")
    /\ Unlocked(req[s].order)
    /\ SetOrder(req[s].order, "completed")
    /\ ReleaseIfFunded(req[s].order)
    /\ Done(s)
    /\ UNCHANGED <<fundTx, dispute, ordersCount, payoutReady, gateway,
                   orderLock, crashes>>

---------------------------------------------------------------------------
(* Disputes.  Both endpoints flush status = DISPUTED (which locks the      *)
(* order row), look for a FUNDED escrow without locking it, and overwrite  *)
(* it at the commit.  open_dispute also inserts the unique disputes row.   *)

Freezing == {"raise_dispute", "open_dispute"}

DisputeFlush(s) ==
    /\ \E op \in Freezing : At(s, op, "loaded")
    /\ LET o == req[s].order IN
       /\ Unlocked(o)
       /\ IF req[s].op = "open_dispute" /\ dispute[o] # "none"
          THEN Done(s) /\ UNCHANGED orderLock     \* unique violation: rollback
          ELSE /\ orderLock' = [orderLock EXCEPT ![o] = s]
               /\ Begin(s, [req[s] EXCEPT !.stage = "escrow_read",
                                          !.seen = escrow[o].status = "funded"])
    /\ UNCHANGED <<order, escrow, fundTx, dispute, ledger, ordersCount,
                   payoutReady, gateway, crashes>>

\* ck_escrow_no_release_while_disputed turns the commit into a rollback.
CheckViolated(o) == escrow[o].releaseTx

DisputeCommit(s) ==
    /\ \E op \in Freezing : At(s, op, "escrow_read")
    /\ LET o == req[s].order IN
       /\ IF req[s].seen /\ CheckViolated(o)
          THEN UNCHANGED <<order, escrow, dispute>>
          ELSE /\ SetOrder(o, "disputed")
               /\ IF req[s].seen THEN SetEscrow(o, "disputed")
                                 ELSE UNCHANGED escrow
               /\ dispute' = IF req[s].op = "open_dispute"
                             THEN [dispute EXCEPT ![o] = "open"] ELSE dispute
       /\ orderLock' = [orderLock EXCEPT ![o] = NoSession]
    /\ Done(s)
    /\ UNCHANGED <<fundTx, ledger, ordersCount, payoutReady, gateway, crashes>>

\* DisputeService.assign_admin: read the status, write UNDER_REVIEW.  The ORM
\* emits no UPDATE of the status when it already read UNDER_REVIEW.
AssignAdminLoad(s, o) ==
    /\ req[s] = Idle
    /\ dispute[o] \in {"open", "under_review"}
    /\ Begin(s, [Idle EXCEPT !.op = "assign_admin", !.stage = "loaded",
                             !.order = o, !.seen = dispute[o] = "open"])
    /\ UNCHANGED <<order, escrow, fundTx, dispute, ledger, ordersCount,
                   payoutReady, gateway, orderLock, crashes>>

AssignAdmin(s) ==
    /\ At(s, "assign_admin", "loaded")
    /\ dispute' = IF req[s].seen
                  THEN [dispute EXCEPT ![req[s].order] = "under_review"]
                  ELSE dispute
    /\ Done(s)
    /\ UNCHANGED <<order, escrow, fundTx, ledger, ordersCount, payoutReady,
                   gateway, orderLock, crashes>>

(* CatalogService.resolve_dispute, called by its own endpoint              *)
(* ("resolve_order") and by DisputeService.resolve_dispute, which closes   *)
(* the disputes row in a second commit.                                    *)
Resolving == {"resolve_order", "resolve_dispute"}

ResolveReadEscrow(s) ==
    /\ \E op \in Resolving : At(s, op, "loaded")
    /\ Begin(s, [req[s] EXCEPT !.stage = "escrow_read",
                   !.seen = escrow[req[s].order].status = "disputed",
                   !.val = escrow[req[s].order].version])
    /\ UNCHANGED <<order, escrow, fundTx, dispute, ledger, ordersCount,
                   payoutReady, gateway, orderLock, crashes>>

\* The order and escrow are committed; the dispute endpoint goes on.
OrderResolved(s, outcome) ==
    Begin(s, IF req[s].op = "resolve_dispute"
             THEN [req[s] EXCEPT !.stage = "resolved", !.outcome = outcome]
             ELSE Idle)

\* Mutant: no optimistic version check.
VersionUnchanged_Always(s) == TRUE

(* resolution = "release": the escrow read as DISPUTED is overwritten with *)
(* FUNDED, then release_escrow_by_id releases it.  Incomplete payout       *)
(* details or a version that moved raise, and the transaction rolls back.  *)
VersionUnchanged(s) == escrow[req[s].order].version = req[s].val

ResolveRelease(s) ==
    /\ \E op \in Resolving : At(s, op, "escrow_read")
    /\ LET o == req[s].order IN
       /\ Unlocked(o)
       /\ IF ~req[s].seen
          THEN /\ SetOrder(o, "completed") /\ OrderResolved(s, "release")
               /\ UNCHANGED <<escrow, ledger>>
          ELSE IF payoutReady /\ VersionUnchanged(s)
          THEN /\ SetOrder(o, "completed") /\ OrderResolved(s, "release")
               /\ ReleaseLockedEscrow(o)
          ELSE Done(s) /\ UNCHANGED <<order, escrow, ledger>>
    /\ UNCHANGED <<fundTx, dispute, ordersCount, payoutReady, gateway,
                   orderLock, crashes>>

(* resolution = "refund": refund_escrow_by_service_order selects the row   *)
(* FOR UPDATE again, and finds nothing if it is neither FUNDED nor         *)
(* DISPUTED by then; the order is cancelled either way.                    *)
RefundableNow(o) == escrow[o].status \in {"funded", "disputed"}

RefundEscrow(o) ==
    /\ SetEscrow(o, "refunded")
    /\ ledger' = [ledger EXCEPT ![o].refunded = @ + 1]

ResolveRefund(s) ==
    /\ \E op \in Resolving : At(s, op, "escrow_read")
    /\ LET o == req[s].order IN
       /\ Unlocked(o)
       /\ order' = [order EXCEPT ![o].status = "cancelled", ![o].byAdmin = TRUE]
       /\ IF req[s].seen /\ RefundableNow(o)
          THEN RefundEscrow(o)
          ELSE UNCHANGED <<escrow, ledger>>
       /\ OrderResolved(s, "refund")
    /\ UNCHANGED <<fundTx, dispute, ordersCount, payoutReady, gateway,
                   orderLock, crashes>>

CloseDispute(s) ==
    /\ At(s, "resolve_dispute", "resolved")
    /\ dispute' = [dispute EXCEPT ![req[s].order] =
                     IF req[s].outcome = "release" THEN "resolved_release"
                                                   ELSE "resolved_refund"]
    /\ Done(s)
    /\ UNCHANGED <<order, escrow, fundTx, ledger, ordersCount, payoutReady,
                   gateway, orderLock, crashes>>

(* PaymentService.release_escrow_by_id as the admin payout page calls it,  *)
(* in one transaction under the escrow row lock; the order is not read.    *)
ReleaseEscrowById(o) ==
    /\ Releasable(o)
    /\ payoutReady
    /\ ReleaseLockedEscrow(o)
    /\ UNCHANGED <<order, fundTx, dispute, ordersCount, payoutReady, gateway,
                   orderLock, req, crashes>>

\* PaymentService.setup_payment_account fills in the missing details.
SetupPaymentAccount ==
    /\ ~payoutReady
    /\ payoutReady' = TRUE
    /\ UNCHANGED <<order, escrow, fundTx, dispute, ledger, ordersCount, gateway,
                   orderLock, req, crashes>>

---------------------------------------------------------------------------
(* run_all, once per worker turn: list the stale pending orders, cancel    *)
(* them one commit at a time, list the stale delivered ones, complete them *)

\* (mutant: the cutoff comparison reversed)
StaleIn_Reversed(st) == {o \in Orders : order[o].status = st /\ ~order[o].stale}

StaleIn(st) == {o \in Orders : order[o].status = st /\ order[o].stale}

ExpireList(w) ==
    /\ req[w] = Idle
    /\ Begin(w, [Idle EXCEPT !.op = "expire", !.stage = "loaded",
                   !.todo = {o \in StaleIn("pending") :
                               escrow[o].status # "funded"}])
    /\ UNCHANGED <<order, escrow, fundTx, dispute, ledger, ordersCount,
                   payoutReady, gateway, orderLock, crashes>>

\* UPDATE ... WHERE status = 'pending', then the counter if a row matched.
ExpireOrder(w, o) ==
    /\ At(w, "expire", "loaded") /\ o \in req[w].todo
    /\ Unlocked(o)
    /\ IF StillPending(o)
       THEN /\ SetOrder(o, "cancelled")
            /\ ordersCount' = IF ordersCount > 0 THEN ordersCount - 1
                                                 ELSE ordersCount
       ELSE UNCHANGED <<order, ordersCount>>
    /\ Begin(w, [req[w] EXCEPT !.todo = @ \ {o}])
    /\ UNCHANGED <<escrow, fundTx, dispute, ledger, payoutReady, gateway,
                   orderLock, crashes>>

AutoCompleteList(w) ==
    /\ At(w, "expire", "loaded") /\ req[w].todo = {}
    /\ Begin(w, [req[w] EXCEPT !.op = "auto_complete",
                               !.todo = StaleIn("delivered")])
    /\ UNCHANGED <<order, escrow, fundTx, dispute, ledger, ordersCount,
                   payoutReady, gateway, orderLock, crashes>>

\* The row listed earlier is written without looking at its status again.
AutoCompleteOrder(w, o) ==
    /\ At(w, "auto_complete", "loaded") /\ o \in req[w].todo
    /\ Unlocked(o)
    /\ SetOrder(o, "completed")
    /\ ReleaseIfFunded(o)
    /\ Begin(w, [req[w] EXCEPT !.todo = @ \ {o}])
    /\ UNCHANGED <<fundTx, dispute, ordersCount, payoutReady, gateway,
                   orderLock, crashes>>

SweepEnd(w) ==
    /\ At(w, "auto_complete", "loaded") /\ req[w].todo = {}
    /\ Done(w)
    /\ UNCHANGED <<order, escrow, fundTx, dispute, ledger, ordersCount,
                   payoutReady, gateway, orderLock, crashes>>

\* Half an hour passes for a pending order, three days for a delivered one.
TimePasses(o) ==
    /\ order[o].status \in {"pending", "delivered"} /\ ~order[o].stale
    /\ order' = [order EXCEPT ![o].stale = TRUE]
    /\ UNCHANGED <<escrow, fundTx, dispute, ledger, ordersCount, payoutReady,
                   gateway, orderLock, req, crashes>>

(* get_db: an exception, a lost connection or a killed worker rolls the    *)
(* open transaction back and frees its locks.                              *)
Rollback(s) ==
    /\ req[s] # Idle
    /\ crashes < MaxCrashes
    /\ crashes' = crashes + 1
    /\ orderLock' = [o \in Orders |-> IF orderLock[o] = s THEN NoSession
                                                          ELSE orderLock[o]]
    /\ Done(s)
    /\ UNCHANGED <<order, escrow, fundTx, dispute, ledger, ordersCount,
                   payoutReady, gateway>>

---------------------------------------------------------------------------

PaymentStep(o) ==
    \/ \E p \in Providers : PlaceOrder(o, p)
    \/ GatewayPay(o)
    \/ ConfirmQiCardPayment(o) \/ ConfirmWithoutEffect(o)

ClientStep(s) ==
    \/ \E o \in Orders : PaymentFailedLookup(s, o)
    \/ \E o \in Orders, op \in {"submit_requirements", "request_revision",
                                "complete_order", "raise_dispute",
                                "open_dispute"} : LoadOrder(s, op, o)
    \/ PaymentFailedWrite(s) \/ SubmitRequirements(s) \/ RequestRevision(s)
    \/ CompleteOrder(s) \/ DisputeFlush(s) \/ DisputeCommit(s)

FreelancerStep(s) ==
    \/ \E o \in Orders, op \in {"mark_delivered", "open_dispute"} :
         LoadOrder(s, op, o)
    \/ MarkDelivered(s) \/ DisputeFlush(s) \/ DisputeCommit(s)

AdminStep(s) ==
    \/ \E o \in Orders : AssignAdminLoad(s, o)
    \/ \E o \in Orders, op \in Resolving : LoadOrder(s, op, o)
    \/ AssignAdmin(s) \/ ResolveReadEscrow(s) \/ ResolveRelease(s)
    \/ ResolveRefund(s) \/ CloseDispute(s)

Sweep(w) ==
    \/ ExpireList(w) \/ AutoCompleteList(w) \/ SweepEnd(w)
    \/ \E o \in Orders : ExpireOrder(w, o) \/ AutoCompleteOrder(w, o)

Next ==
    \/ \E o \in Orders : PaymentStep(o) \/ ReleaseEscrowById(o) \/ TimePasses(o)
    \/ \E s \in Clients : ClientStep(s)
    \/ \E s \in Freelancers : FreelancerStep(s)
    \/ \E s \in Admins : AdminStep(s)
    \/ \E w \in Workers : Sweep(w)
    \/ SetupPaymentAccount
    \/ \E s \in Sessions : Rollback(s)

Spec == Init /\ [][Next]_vars

(* A started request is carried to its end by its worker; the scheduler    *)
(* loop runs run_all again and again; time passes.  Fairness is strong     *)
(* because PostgreSQL queues the transactions that wait for a row lock:    *)
(* one whose lock is freed again and again gets it.  Nothing obliges a     *)
(* person to act, or a redirect to arrive.                                 *)
Handling(s) ==
    \/ PaymentFailedWrite(s) \/ SubmitRequirements(s) \/ MarkDelivered(s)
    \/ RequestRevision(s) \/ CompleteOrder(s) \/ DisputeFlush(s)
    \/ DisputeCommit(s) \/ AssignAdmin(s) \/ ResolveReadEscrow(s)
    \/ ResolveRelease(s) \/ ResolveRefund(s) \/ CloseDispute(s)

Fairness ==
    /\ \A s \in Sessions : SF_vars(Handling(s))
    /\ \A w \in Workers : SF_vars(Sweep(w))
    /\ \A o \in Orders : WF_vars(TimePasses(o))

LiveSpec == Spec /\ Fairness

---------------------------------------------------------------------------
(* Properties of the money.                                                *)

\* Money held for an order is there: a funded or disputed escrow has a
\* confirmation no release has used and one no refund has used, so no stale
\* write, reopened row or sweep hands out the same booking again
\* (confirm_qi_card_payment, handle_qi_card_payment_failed, the resolvers).
HeldIsConfirmed ==
    \A o \in Orders :
      escrow[o].status \in {"funded", "disputed"} =>
        /\ ledger[o].released < ledger[o].confirmed
        /\ ledger[o].refunded < ledger[o].confirmed

\* Every ledger release is backed by a confirmation of its own, and bumps
\* the optimistic version once, whichever of complete_order, the sweep, the
\* payout page and two racing resolvers get to the row.
ReleasesBacked ==
    \A o \in Orders : /\ ledger[o].released <= ledger[o].confirmed
                      /\ escrow[o].version = ledger[o].released + 1

\* The same for the refund rows written by dispute resolution.
RefundsBacked ==
    \A o \in Orders : ledger[o].refunded <= ledger[o].confirmed

\* A repeated success redirect does not confirm twice: a second confirmation
\* needs a failure redirect that reopened the transaction in between.
ConfirmedOnce ==
    \A o \in Orders : ledger[o].confirmed <= ledger[o].failed + 1

\* An escrow under dispute never carries a release, even when the freeze was
\* decided on a row another transaction released before the commit.
DisputedNotReleased ==
    \A o \in Orders : escrow[o].status = "disputed" => ~escrow[o].releaseTx

\* While an escrow is disputed its money moves only by an admin's resolution
\* of that order, not by complete_order, the sweep or the payout page.
Decided(o) ==
    \E s \in Admins : req[s].op \in Resolving /\ req[s].order = o
                      /\ req[s].stage = "escrow_read"

FrozenUntilResolved ==
    [][\A o \in Orders :
         escrow[o].status = "disputed" /\ ~Decided(o)
           => /\ ledger'[o].released = ledger[o].released
              /\ ledger'[o].refunded = ledger[o].refunded]_vars

\* The detailed system implements the abstract ledger: callbacks, handlers and
\* sweeps only ever book in, reopen, release or refund as it does.
Ledger == INSTANCE EscrowLedger WITH
            Payments <- Orders,
            funded <- [o \in Orders |-> ledger[o].confirmed],
            reopened <- [o \in Orders |-> ledger[o].failed],
            released <- [o \in Orders |-> ledger[o].released],
            refunded <- [o \in Orders |-> ledger[o].refunded]

ImplementsLedger == Ledger!LedgerSpec

(* Properties of the order.                                                *)

Placed(o) == order[o].status # "none"

\* Cancelled by the sweep: a resolver sets cancelled_by, the sweep does not.
Expired(o) == order[o].status = "cancelled" /\ ~order[o].byAdmin

Listed == {o \in Orders : Placed(o) /\ ~Expired(o)}

\* services.orders_count counts exactly the placed orders the sweep did not
\* expire, however sweeps and payment callbacks interleave.
CountMatches == ordersCount = Cardinality(Listed)

\* An order the sweep cancelled is never reopened or completed, not even by
\* a late success callback or a handler that loaded it earlier.
ExpiredStaysCancelled ==
    [][\A o \in Orders : Expired(o) => Expired(o)']_vars

\* A success redirect the program answers leaves the payment confirmed.
CallbackFunds ==
    \A o \in Orders :
      gateway[o].page \in {"success", "error"} => ledger[o].confirmed > 0

\* An order nobody pays does not stay PENDING (expire_stale_pending_orders).
PendingSettles ==
    \A o \in Orders : order[o].status = "pending" ~> order[o].status # "pending"

\* A delivery nobody answers does not wait forever
\* (auto_complete_delivered_orders).
DeliveredSettles ==
    \A o \in Orders :
      order[o].status = "delivered" ~> order[o].status # "delivered"

(* The inductive invariant behind these properties (proofs in              *)
(* OrderEscrow_proofs).                                                    *)

\* What each escrow status implies about the ledger: a funded or disputed row
\* has a confirmation not yet released and one not yet refunded.
EscrowInv ==
    \A o \in Orders :
      /\ escrow[o].version = ledger[o].released + 1
      /\ escrow[o].releaseTx <=> ledger[o].released > 0
      /\ ledger[o].released <= ledger[o].confirmed
      /\ ledger[o].refunded <= ledger[o].confirmed
      /\ escrow[o].status \in {"funded", "disputed"} =>
           /\ ledger[o].released < ledger[o].confirmed
           /\ ledger[o].refunded < ledger[o].confirmed
      /\ escrow[o].status = "released" => ledger[o].released > 0
      /\ escrow[o].status = "disputed" => ~escrow[o].releaseTx

\* What a session remembers is still worth: a version read under dispute
\* leaves room for the release it announces, and a freeze in progress holds
\* the order row, so that no refund can slip under it.
FitSnapshot(s, r) ==
    LET o == r.order IN
    /\ r.op \in Resolving /\ r.stage = "escrow_read" /\ r.seen =>
         o \in Orders /\ r.val <= ledger[o].confirmed
    /\ r.op \in Freezing /\ r.stage = "escrow_read" =>
         /\ o \in Orders
         /\ orderLock[o] = s
         /\ r.seen => ledger[o].refunded < ledger[o].confirmed

SnapshotInv == \A s \in Sessions : FitSnapshot(s, req[s])

\* The transaction says how often its payment was confirmed.
TransactionInv ==
    \A o \in Orders :
      /\ order[o].status = "none" => fundTx[o] = "none"
      /\ ledger[o].confirmed <= ledger[o].failed + 1
      /\ fundTx[o] # "completed" => ledger[o].confirmed <= ledger[o].failed

\* An order some handler has in hand is past PENDING and was not expired.
Alive(o) == order[o].status \notin {"none", "pending"} /\ ~Expired(o)

FitRequest(r) ==
    /\ r.op \in DOMAIN StartsFrom => r.order \in Orders /\ Alive(r.order)
    /\ r.op = "payment_failed" => r.order \in Orders
                                 /\ order[r.order].status # "none"
    /\ r.op = "auto_complete" => r.todo \subseteq {o \in Orders : Alive(o)}

HandlerInv == \A s \in Sessions : FitRequest(req[s])

\* An order keeps the gateway and the transaction of its checkout; who cancels
\* it, an admin or the sweep, is not said before it left PENDING.
OrderInv ==
    /\ CountMatches
    /\ \A o \in Orders :
         /\ Placed(o) => order[o].provider \in Providers /\ fundTx[o] # "none"
         /\ order[o].status \in {"none", "pending"} => ~order[o].byAdmin

\* confirm_qi_card_payment looks for Qi Card's transactions only.
OnlyQiCard == \A p \in Providers : p = "qi_card"

\* A completed transaction was confirmed.
PageInv ==
    /\ \A o \in Orders :
         /\ fundTx[o] = "completed" => ledger[o].confirmed > 0
    /\ OnlyQiCard => CallbackFunds

IInv == /\ TypeOK /\ EscrowInv /\ SnapshotInv /\ TransactionInv /\ HandlerInv
        /\ OrderInv /\ PageInv

(* What the documents say and the code does not keep.                      *)

\* "Qi Card redirects here on successful payment ... The sig is verified before
\* confirming the payment": an escrow is funded only by a captured payment.
FundedIsCaptured ==
    \A o \in Orders : escrow[o].status = "funded" => gateway[o].paid

\* "The SELECT FOR UPDATE inside the release path prevents races": the money
\* of one payment is not both released and refunded.
NotReleasedAndRefunded ==
    \A o \in Orders : ledger[o].released = 0 \/ ledger[o].refunded = 0
============================================================================
