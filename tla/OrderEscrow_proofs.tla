------------------------- MODULE OrderEscrow_proofs -------------------------
(***************************************************************************)
(* Proofs about OrderEscrow for every value of its constants.              *)
(***************************************************************************)
EXTENDS OrderEscrow, FiniteSetTheorems, TLAPS

---------------------------------------------------------------------------
(* Rows: what the updates of the handlers keep.                            *)

\* What checkout, the handlers and the sweeps write into an order.
LEMMA OrderRowEdits ==
  ASSUME NEW r \in OrderRow
  PROVE  /\ \A st \in OrderStatus : [r EXCEPT !.status = st] \in OrderRow
         /\ \A p \in Providers : [r EXCEPT !.provider = p] \in OrderRow
         /\ \A n \in Nat \cup {-1} : [r EXCEPT !.revisions = n] \in OrderRow
         /\ [r EXCEPT !.byAdmin = TRUE] \in OrderRow
         /\ \A b \in BOOLEAN : [r EXCEPT !.stale = b] \in OrderRow
  BY DEF OrderRow

\* A status change, and the UPDATE of a release.
LEMMA EscrowRowEdits ==
  ASSUME NEW r \in EscrowRow
  PROVE  /\ \A st \in EscrowStatus : [r EXCEPT !.status = st] \in EscrowRow
         /\ [status |-> "released", version |-> r.version + 1,
             releaseTx |-> TRUE] \in EscrowRow
  BY DEF EscrowRow, EscrowStatus

\* One more movement of any kind.
LEMMA LedgerRowEdits ==
  ASSUME NEW r \in LedgerRow
  PROVE  /\ [r EXCEPT !.confirmed = r.confirmed + 1] \in LedgerRow
         /\ [r EXCEPT !.failed = r.failed + 1] \in LedgerRow
         /\ [r EXCEPT !.released = r.released + 1] \in LedgerRow
         /\ [r EXCEPT !.refunded = r.refunded + 1] \in LedgerRow
  BY DEF LedgerRow

\* What the payment page and the redirects change.
LEMMA GatewayRowEdits ==
  ASSUME NEW r \in GatewayRow
  PROVE  /\ [r EXCEPT !.paid = TRUE] \in GatewayRow
         /\ \A p \in Pages : [r EXCEPT !.page = p] \in GatewayRow
  BY DEF GatewayRow

\* A free session is well typed.
LEMMA IdleRequest == Idle \in Request
  BY DEF Idle, Request, Ops, Stages

\* A handler may replace any field of its memory.
LEMMA RequestEdits ==
  ASSUME NEW r \in Request
  PROVE  /\ \A op \in Ops : [r EXCEPT !.op = op] \in Request
         /\ \A st \in Stages : [r EXCEPT !.stage = st] \in Request
         /\ \A o \in Orders : [r EXCEPT !.order = o] \in Request
         /\ \A b \in BOOLEAN : [r EXCEPT !.seen = b] \in Request
         /\ \A n \in Nat \cup {-1} : [r EXCEPT !.val = n] \in Request
         /\ \A S \in SUBSET Orders : [r EXCEPT !.todo = S] \in Request
         /\ \A c \in {"release", "refund"} : [r EXCEPT !.outcome = c] \in Request
  BY DEF Request

\* The shared helpers keep the types.
LEMMA SetOrderType ==
  ASSUME TypeOK, NEW o, NEW st \in OrderStatus, SetOrder(o, st)
  PROVE  order' \in [Orders -> OrderRow]
  BY OrderRowEdits DEF TypeOK, SetOrder

\* As SetOrderType, for the escrow.
LEMMA SetEscrowType ==
  ASSUME TypeOK, NEW o, NEW st \in EscrowStatus, SetEscrow(o, st)
  PROVE  escrow' \in [Orders -> EscrowRow]
  BY EscrowRowEdits DEF TypeOK, SetEscrow

\* As SetOrderType, for a release.
LEMMA ReleaseType ==
  ASSUME TypeOK, NEW o, ReleaseLockedEscrow(o)
  PROVE  /\ escrow' \in [Orders -> EscrowRow] /\ ledger' \in [Orders -> LedgerRow]
<1>1. escrow' \in [Orders -> EscrowRow]
  BY EscrowRowEdits DEF TypeOK, ReleaseLockedEscrow
<1>2. ledger' \in [Orders -> LedgerRow]
  BY LedgerRowEdits DEF TypeOK, ReleaseLockedEscrow
<1> QED BY <1>1, <1>2

\* As SetOrderType, for a result page.
LEMMA ShowType ==
  ASSUME TypeOK, NEW o, NEW p \in Pages, Show(o, p)
  PROVE  gateway' \in [Orders -> GatewayRow]
  BY GatewayRowEdits DEF TypeOK, Show

\* As SetOrderType, for a request that starts or goes on.
LEMMA BeginType ==
  ASSUME TypeOK, NEW s, NEW r \in Request, Begin(s, r)
  PROVE  req' \in [Sessions -> Request]
  BY DEF TypeOK, Begin

\* As SetOrderType, for a request that ends.
LEMMA DoneType ==
  ASSUME TypeOK, NEW s, Done(s)
  PROVE  req' \in [Sessions -> Request]
  BY IdleRequest DEF TypeOK, Done

---------------------------------------------------------------------------
(* Type correctness. *)

\* Every step keeps the types.
LEMMA TypeStep == TypeOK /\ HandlerInv /\ [Next]_vars => TypeOK'
<1> SUFFICES ASSUME TypeOK, HandlerInv, [Next]_vars PROVE TypeOK'
  OBVIOUS
<1> USE DEF TypeOK
<1>1. ASSUME NEW o \in Orders, NEW p \in Providers, PlaceOrder(o, p)
       PROVE  TypeOK'
  <2>1. order' \in [Orders -> OrderRow]
    BY <1>1, OrderRowEdits DEF PlaceOrder, OrderStatus
  <2>2. escrow' \in [Orders -> EscrowRow]
    BY <1>1, SetEscrowType DEF PlaceOrder, EscrowStatus
  <2>3. fundTx' \in [Orders -> TransactionStatus \cup {"none"}]
    BY <1>1 DEF PlaceOrder, TransactionStatus
  <2>4. ordersCount' \in Nat
    BY <1>1 DEF PlaceOrder
  <2> QED  BY <1>1, <2>1, <2>2, <2>3, <2>4 DEF PlaceOrder
<1>3. ASSUME NEW o \in Orders, GatewayPay(o) PROVE TypeOK'
  <2>1. gateway' \in [Orders -> GatewayRow]
    BY <1>3, GatewayRowEdits DEF GatewayPay
  <2> QED  BY <1>3, <2>1 DEF GatewayPay
<1>4. ASSUME NEW o \in Orders, ConfirmQiCardPayment(o) PROVE TypeOK'
  <2>1. order' \in [Orders -> OrderRow]
    <3>1. (\E st \in OrderStatus : SetOrder(o, st)) \/ UNCHANGED order
      BY <1>4 DEF ConfirmQiCardPayment, OrderStatus
    <3> QED  BY <3>1, SetOrderType
  <2>2. escrow' \in [Orders -> EscrowRow]
    BY <1>4, SetEscrowType DEF ConfirmQiCardPayment, EscrowStatus
  <2>3. fundTx' \in [Orders -> TransactionStatus \cup {"none"}]
    BY <1>4 DEF ConfirmQiCardPayment, TransactionStatus
  <2>4. ledger' \in [Orders -> LedgerRow]
    BY <1>4, LedgerRowEdits DEF ConfirmQiCardPayment
  <2>5. gateway' \in [Orders -> GatewayRow]
    BY <1>4, ShowType DEF ConfirmQiCardPayment, Pages
  <2> QED  BY <1>4, <2>1, <2>2, <2>3, <2>4, <2>5 DEF ConfirmQiCardPayment
<1>5. ASSUME NEW o \in Orders, ConfirmWithoutEffect(o) PROVE TypeOK'
  <2>1. gateway' \in [Orders -> GatewayRow]
    BY <1>5, ShowType DEF ConfirmWithoutEffect, Pages
  <2> QED  BY <1>5, <2>1 DEF ConfirmWithoutEffect
<1>6. ASSUME NEW s \in Clients, NEW o \in Orders, PaymentFailedLookup(s, o)
       PROVE  TypeOK'
  <2>1. req' \in [Sessions -> Request]
    <3>1. [Idle EXCEPT !.op = "payment_failed", !.stage = "loaded",
                   !.order = o] \in Request
      BY IdleRequest, RequestEdits DEF Ops, Stages, Sessions
    <3> QED  BY <1>6, <3>1, BeginType DEF PaymentFailedLookup, Sessions
  <2>2. gateway' \in [Orders -> GatewayRow]
    BY <1>6, ShowType DEF PaymentFailedLookup, Pages
  <2> QED  BY <1>6, <2>1, <2>2 DEF PaymentFailedLookup
<1>7. ASSUME NEW s \in Clients, PaymentFailedWrite(s) PROVE TypeOK'
  <2>1. fundTx' \in [Orders -> TransactionStatus \cup {"none"}]
    BY <1>7 DEF PaymentFailedWrite, TransactionStatus
  <2>2. escrow' \in [Orders -> EscrowRow]
    BY <1>7, SetEscrowType DEF PaymentFailedWrite, EscrowStatus
  <2>3. ledger' \in [Orders -> LedgerRow]
    BY <1>7, LedgerRowEdits DEF PaymentFailedWrite
  <2>4. gateway' \in [Orders -> GatewayRow]
    BY <1>7, ShowType DEF PaymentFailedWrite, Pages
  <2>5. req' \in [Sessions -> Request]
    BY <1>7, DoneType DEF PaymentFailedWrite, Sessions
  <2> QED  BY <1>7, <2>1, <2>2, <2>3, <2>4, <2>5 DEF PaymentFailedWrite
<1>8. ASSUME NEW s \in Sessions, NEW op \in DOMAIN StartsFrom,
              NEW o \in Orders, LoadOrder(s, op, o)
      
       PROVE  TypeOK'
  <2>1. req' \in [Sessions -> Request]
    <3>1. [Idle EXCEPT !.op = op, !.stage = "loaded",
                   !.order = o, !.val = order[o].revisions] \in Request
      BY IdleRequest, RequestEdits DEF Ops, Stages, OrderRow, Sessions
    <3> QED  BY <1>8, <3>1, BeginType DEF LoadOrder, Sessions
  <2> QED  BY <1>8, <2>1 DEF LoadOrder
<1>9. ASSUME NEW s \in Clients, SubmitRequirements(s) PROVE TypeOK'
  <2>1. order' \in [Orders -> OrderRow]
    BY <1>9, SetOrderType DEF SubmitRequirements, OrderStatus
  <2>2. req' \in [Sessions -> Request]
    BY <1>9, DoneType DEF SubmitRequirements, Sessions
  <2> QED  BY <1>9, <2>1, <2>2 DEF SubmitRequirements
<1>10. ASSUME NEW s \in Freelancers, MarkDelivered(s) PROVE TypeOK'
  <2>1. order' \in [Orders -> OrderRow]
    BY <1>10, OrderRowEdits DEF MarkDelivered, OrderStatus
  <2>2. req' \in [Sessions -> Request]
    BY <1>10, DoneType DEF MarkDelivered, Sessions
  <2> QED  BY <1>10, <2>1, <2>2 DEF MarkDelivered
<1>11. ASSUME NEW s \in Clients, RequestRevision(s) PROVE TypeOK'
  <2>1. order' \in [Orders -> OrderRow]
    <3>1. req[s].val \in Nat \cup {-1}
      BY DEF Request, Sessions
    <3>2. RevisionsAfter(req[s].val) \in Nat \cup {-1}
      BY <3>1 DEF RevisionsAfter
    <3>3. PICK n \in Nat \cup {-1} :
            order' = [order EXCEPT ![req[s].order].status = "revision_requested",
                                   ![req[s].order].revisions =
                                     IF n # req[s].val THEN n ELSE @]
      BY <1>11, <3>2 DEF RequestRevision
    <3>4. \A r \in OrderRow : r.revisions \in Nat \cup {-1}
      BY DEF OrderRow
    <3> QED  BY <3>3, <3>4, OrderRowEdits DEF OrderStatus
  <2>2. req' \in [Sessions -> Request]
    BY <1>11, DoneType DEF RequestRevision, Sessions
  <2> QED  BY <1>11, <2>1, <2>2 DEF RequestRevision
<1>12. ASSUME NEW s \in Clients, CompleteOrder(s) PROVE TypeOK'
  <2>1. order' \in [Orders -> OrderRow]
    BY <1>12, SetOrderType DEF CompleteOrder, OrderStatus
  <2>2. escrow' \in [Orders -> EscrowRow]
    BY <1>12, ReleaseType DEF CompleteOrder, ReleaseIfFunded
  <2>3. ledger' \in [Orders -> LedgerRow]
    BY <1>12, ReleaseType DEF CompleteOrder, ReleaseIfFunded
  <2>4. req' \in [Sessions -> Request]
    BY <1>12, DoneType DEF CompleteOrder, Sessions
  <2> QED  BY <1>12, <2>1, <2>2, <2>3, <2>4 DEF CompleteOrder
<1>13. ASSUME NEW s \in Sessions, DisputeFlush(s) PROVE TypeOK'
  <2>1. orderLock' \in [Orders -> Sessions \cup {NoSession}]
    BY <1>13 DEF DisputeFlush, Sessions
  <2>2. req' \in [Sessions -> Request]
    <3>1. [req[s] EXCEPT !.stage = "escrow_read",
                   !.seen = escrow[req[s].order].status = "funded"] \in Request
      BY IdleRequest, RequestEdits DEF Stages, Sessions
    <3> QED  BY <1>13, <3>1, BeginType, DoneType DEF DisputeFlush, Sessions
  <2> QED  BY <1>13, <2>1, <2>2 DEF DisputeFlush
<1>14. ASSUME NEW s \in Sessions, DisputeCommit(s) PROVE TypeOK'
  <2>1. order' \in [Orders -> OrderRow]
    BY <1>14, SetOrderType DEF DisputeCommit, OrderStatus
  <2>2. escrow' \in [Orders -> EscrowRow]
    BY <1>14, SetEscrowType DEF DisputeCommit, EscrowStatus
  <2>3. dispute' \in [Orders -> DisputeStatus \cup {"none"}]
    BY <1>14 DEF DisputeCommit, DisputeStatus
  <2>4. orderLock' \in [Orders -> Sessions \cup {NoSession}]
    BY <1>14 DEF DisputeCommit, Sessions
  <2>5. req' \in [Sessions -> Request]
    BY <1>14, DoneType DEF DisputeCommit, Sessions
  <2> QED  BY <1>14, <2>1, <2>2, <2>3, <2>4, <2>5 DEF DisputeCommit
<1>15. ASSUME NEW s \in Admins, NEW o \in Orders, AssignAdminLoad(s, o)
       PROVE  TypeOK'
  <2>1. req' \in [Sessions -> Request]
    <3>1. [Idle EXCEPT !.op = "assign_admin", !.stage = "loaded",
                   !.order = o, !.seen = dispute[o] = "open"] \in Request
      BY IdleRequest, RequestEdits DEF Ops, Stages, Sessions
    <3> QED  BY <1>15, <3>1, BeginType DEF AssignAdminLoad, Sessions
  <2> QED  BY <1>15, <2>1 DEF AssignAdminLoad
<1>16. ASSUME NEW s \in Admins, AssignAdmin(s) PROVE TypeOK'
  <2>1. dispute' \in [Orders -> DisputeStatus \cup {"none"}]
    BY <1>16 DEF AssignAdmin, DisputeStatus
  <2>2. req' \in [Sessions -> Request]
    BY <1>16, DoneType DEF AssignAdmin, Sessions
  <2> QED  BY <1>16, <2>1, <2>2 DEF AssignAdmin
<1>17. ASSUME NEW s \in Admins, ResolveReadEscrow(s) PROVE TypeOK'
  <2>1. req' \in [Sessions -> Request]
    <3>0. escrow[req[s].order].version \in Nat
      BY <1>17 DEF ResolveReadEscrow, HandlerInv, FitRequest, Resolving, At,
           StartsFrom, Sessions, EscrowRow
    <3>1. PICK b \in BOOLEAN, n \in Nat :
            Begin(s, [req[s] EXCEPT !.stage = "escrow_read", !.seen = b, !.val = n])
      BY <1>17, <3>0 DEF ResolveReadEscrow
    <3> QED  BY <3>1, BeginType, RequestEdits DEF Stages, Sessions
  <2> QED  BY <1>17, <2>1 DEF ResolveReadEscrow
<1>18. ASSUME NEW s \in Admins, ResolveRelease(s) PROVE TypeOK'
  <2>1. order' \in [Orders -> OrderRow]
    BY <1>18, SetOrderType DEF ResolveRelease, OrderStatus
  <2>2. escrow' \in [Orders -> EscrowRow]
    BY <1>18, ReleaseType DEF ResolveRelease
  <2>3. ledger' \in [Orders -> LedgerRow]
    BY <1>18, ReleaseType DEF ResolveRelease
  <2>4. req' \in [Sessions -> Request]
    <3>1. [req[s] EXCEPT !.stage = "resolved", !.outcome = "release"] \in Request
      BY IdleRequest, RequestEdits DEF Stages, Sessions
    <3> QED  BY <1>18, <3>1, BeginType, DoneType, IdleRequest
            DEF ResolveRelease, OrderResolved, Sessions
  <2> QED  BY <1>18, <2>1, <2>2, <2>3, <2>4 DEF ResolveRelease
<1>19. ASSUME NEW s \in Admins, ResolveRefund(s) PROVE TypeOK'
  <2>1. order' \in [Orders -> OrderRow]
    BY <1>19, OrderRowEdits DEF ResolveRefund, RefundEscrow, OrderStatus
  <2>2. escrow' \in [Orders -> EscrowRow]
    BY <1>19, SetEscrowType DEF ResolveRefund, RefundEscrow, EscrowStatus
  <2>3. ledger' \in [Orders -> LedgerRow]
    <3>0. req[s].order \in Orders
      BY <1>19 DEF ResolveRefund, RefundEscrow, HandlerInv, FitRequest, Resolving, At,
           StartsFrom, Sessions
    <3> DEFINE row == ledger[req[s].order]
    <3>1. UNCHANGED ledger \/ ledger' = [ledger EXCEPT ![req[s].order] =
                                            [row EXCEPT !.refunded = row.refunded + 1]]
      BY <1>19 DEF ResolveRefund, RefundEscrow
    <3>2. [row EXCEPT !.refunded = row.refunded + 1] \in LedgerRow
      BY <3>0, LedgerRowEdits
    <3> QED  BY <3>1, <3>2
  <2>4. req' \in [Sessions -> Request]
    <3>1. [req[s] EXCEPT !.stage = "resolved", !.outcome = "refund"] \in Request
      BY IdleRequest, RequestEdits DEF Stages, Sessions
    <3> QED  BY <1>19, <3>1, BeginType, IdleRequest
            DEF ResolveRefund, RefundEscrow, OrderResolved, Sessions
  <2> QED  BY <1>19, <2>1, <2>2, <2>3, <2>4 DEF ResolveRefund, RefundEscrow
<1>20. ASSUME NEW s \in Admins, CloseDispute(s) PROVE TypeOK'
  <2>1. dispute' \in [Orders -> DisputeStatus \cup {"none"}]
    BY <1>20 DEF CloseDispute, DisputeStatus
  <2>2. req' \in [Sessions -> Request]
    BY <1>20, DoneType DEF CloseDispute, Sessions
  <2> QED  BY <1>20, <2>1, <2>2 DEF CloseDispute
<1>21. ASSUME NEW o \in Orders, ReleaseEscrowById(o) PROVE TypeOK'
  <2>1. escrow' \in [Orders -> EscrowRow]
    BY <1>21, ReleaseType DEF ReleaseEscrowById
  <2>2. ledger' \in [Orders -> LedgerRow]
    BY <1>21, ReleaseType DEF ReleaseEscrowById
  <2> QED  BY <1>21, <2>1, <2>2 DEF ReleaseEscrowById
<1>22. ASSUME SetupPaymentAccount PROVE TypeOK'
  <2>1. payoutReady' \in BOOLEAN
    BY <1>22 DEF SetupPaymentAccount
  <2> QED  BY <1>22, <2>1 DEF SetupPaymentAccount
<1>23. ASSUME NEW w \in Workers, ExpireList(w) PROVE TypeOK'
  <2>1. req' \in [Sessions -> Request]
    <3>1. [Idle EXCEPT !.op = "expire", !.stage = "loaded",
                   !.todo = {o \in StaleIn("pending") : escrow[o].status # "funded"}] \in Request
      BY IdleRequest, RequestEdits DEF Ops, Stages, StaleIn, Sessions
    <3> QED  BY <1>23, <3>1, BeginType DEF ExpireList, Sessions
  <2> QED  BY <1>23, <2>1 DEF ExpireList
<1>24. ASSUME NEW w \in Workers, NEW o \in Orders, ExpireOrder(w, o)
       PROVE  TypeOK'
  <2>1. order' \in [Orders -> OrderRow]
    BY <1>24, SetOrderType DEF ExpireOrder, OrderStatus
  <2>2. ordersCount' \in Nat
    BY <1>24 DEF ExpireOrder
  <2>3. req' \in [Sessions -> Request]
    <3>0. req[w].todo \ {o} \in SUBSET Orders
      BY DEF Request, Sessions
    <3>1. [req[w] EXCEPT !.todo = @ \ {o}] \in Request
      BY <3>0, IdleRequest, RequestEdits DEF Sessions
    <3> QED  BY <1>24, <3>1, BeginType DEF ExpireOrder, Sessions
  <2> QED  BY <1>24, <2>1, <2>2, <2>3 DEF ExpireOrder
<1>25. ASSUME NEW w \in Workers, AutoCompleteList(w) PROVE TypeOK'
  <2>1. req' \in [Sessions -> Request]
    <3>1. [req[w] EXCEPT !.op = "auto_complete",
                   !.todo = StaleIn("delivered")] \in Request
      BY IdleRequest, RequestEdits DEF Ops, StaleIn, Sessions
    <3> QED  BY <1>25, <3>1, BeginType DEF AutoCompleteList, Sessions
  <2> QED  BY <1>25, <2>1 DEF AutoCompleteList
<1>26. ASSUME NEW w \in Workers, NEW o \in Orders, AutoCompleteOrder(w, o)
       PROVE  TypeOK'
  <2>1. order' \in [Orders -> OrderRow]
    BY <1>26, SetOrderType DEF AutoCompleteOrder, OrderStatus
  <2>2. escrow' \in [Orders -> EscrowRow]
    BY <1>26, ReleaseType DEF AutoCompleteOrder, ReleaseIfFunded
  <2>3. ledger' \in [Orders -> LedgerRow]
    BY <1>26, ReleaseType DEF AutoCompleteOrder, ReleaseIfFunded
  <2>4. req' \in [Sessions -> Request]
    <3>0. req[w].todo \ {o} \in SUBSET Orders
      BY DEF Request, Sessions
    <3>1. [req[w] EXCEPT !.todo = @ \ {o}] \in Request
      BY <3>0, IdleRequest, RequestEdits DEF Sessions
    <3> QED  BY <1>26, <3>1, BeginType DEF AutoCompleteOrder, Sessions
  <2> QED  BY <1>26, <2>1, <2>2, <2>3, <2>4 DEF AutoCompleteOrder
<1>27. ASSUME NEW w \in Workers, SweepEnd(w) PROVE TypeOK'
  <2>1. req' \in [Sessions -> Request]
    BY <1>27, DoneType DEF SweepEnd, Sessions
  <2> QED  BY <1>27, <2>1 DEF SweepEnd
<1>28. ASSUME NEW o \in Orders, TimePasses(o) PROVE TypeOK'
  <2>1. order' \in [Orders -> OrderRow]
    BY <1>28, OrderRowEdits DEF TimePasses
  <2> QED  BY <1>28, <2>1 DEF TimePasses
<1>29. ASSUME NEW s \in Sessions, Rollback(s) PROVE TypeOK'
  <2>1. orderLock' \in [Orders -> Sessions \cup {NoSession}]
    BY <1>29 DEF Rollback, Sessions
  <2>2. req' \in [Sessions -> Request]
    BY <1>29, DoneType DEF Rollback, Sessions
  <2>3. crashes' \in Nat
    BY <1>29 DEF Rollback
  <2> QED  BY <1>29, <2>1, <2>2, <2>3 DEF Rollback
<1>30. CASE UNCHANGED vars
  BY <1>30 DEF vars
<1> QED
  BY <1>1, <1>3, <1>4, <1>5, <1>6, <1>7, <1>8, <1>9, <1>10, <1>11,
     <1>12, <1>13, <1>14, <1>15, <1>16, <1>17, <1>18, <1>19, <1>20, <1>21,
     <1>22, <1>23, <1>24, <1>25, <1>26, <1>27, <1>28, <1>29, <1>30
     DEF Next, PaymentStep, ClientStep, FreelancerStep, AdminStep, Sweep,
         Resolving, StartsFrom, Sessions

---------------------------------------------------------------------------
(* What the shared helpers do to each field.                               *)

\* The versions and counts are numbers.
LEMMA LedgerNumbers ==
  ASSUME TypeOK
  PROVE  \A o \in Orders : /\ escrow[o].version \in Nat
                           /\ ledger[o].confirmed \in Nat
                           /\ ledger[o].failed \in Nat
                           /\ ledger[o].released \in Nat
                           /\ ledger[o].refunded \in Nat
  BY DEF TypeOK, EscrowRow, LedgerRow

\* A status change touches one row and one field.
LEMMA SetEscrowFields ==
  ASSUME TypeOK, NEW o \in Orders, NEW st, SetEscrow(o, st)
  PROVE  \A x \in Orders :
           /\ escrow'[x].status = IF x = o THEN st ELSE escrow[x].status
           /\ escrow'[x].version = escrow[x].version
           /\ escrow'[x].releaseTx = escrow[x].releaseTx
  BY DEF TypeOK, EscrowRow, SetEscrow

\* A release moves one row, its version, its flag and one count.
LEMMA ReleaseFields ==
  ASSUME TypeOK, NEW o \in Orders, ReleaseLockedEscrow(o)
  PROVE  \A x \in Orders :
           /\ escrow'[x].status = IF x = o THEN "released"
                                           ELSE escrow[x].status
           /\ escrow'[x].version = IF x = o THEN escrow[x].version + 1
                                            ELSE escrow[x].version
           /\ x = o => escrow'[x].releaseTx
           /\ x # o => (escrow'[x].releaseTx <=> escrow[x].releaseTx)
           /\ ledger'[x].released = IF x = o THEN ledger[x].released + 1
                                             ELSE ledger[x].released
           /\ ledger'[x].confirmed = ledger[x].confirmed
           /\ ledger'[x].failed = ledger[x].failed
           /\ ledger'[x].refunded = ledger[x].refunded
  BY DEF TypeOK, LedgerRow, EscrowRow, ReleaseLockedEscrow

\* A status change leaves cancelled_by and the provider alone.
LEMMA SetOrderFields ==
  ASSUME TypeOK, NEW o \in Orders, NEW st, SetOrder(o, st)
  PROVE  \A x \in Orders :
           /\ order'[x].status = IF x = o THEN st ELSE order[x].status
           /\ order'[x].byAdmin = order[x].byAdmin
           /\ order'[x].provider = order[x].provider
  BY DEF TypeOK, OrderRow, SetOrder

\* Only the session that acts gets a new request.
LEMMA BeginFields ==
  ASSUME TypeOK, NEW s \in Sessions, NEW r, Begin(s, r)
  PROVE  \A x \in Sessions : req'[x] = IF x = s THEN r ELSE req[x]
  BY DEF TypeOK, Begin

\* Only the session that ends becomes free.
LEMMA DoneFields ==
  ASSUME TypeOK, NEW s \in Sessions, Done(s)
  PROVE  \A x \in Sessions : req'[x] = IF x = s THEN Idle ELSE req[x]
  BY DEF TypeOK, Done

\* A handler past its first step names an order.
LEMMA LoadedOrder ==
  ASSUME HandlerInv, NEW s \in Sessions, req[s].op \in DOMAIN StartsFrom
  PROVE  req[s].order \in Orders
  BY DEF HandlerInv, FitRequest

---------------------------------------------------------------------------
(* Where an order can go.                                                  *)

\* No step undoes a checkout or an expiry, or takes an order in hand back.
Forward(o) ==
  /\ Placed(o) => Placed(o)'
  /\ Expired(o) => Expired(o)'
  /\ Alive(o) => Alive(o)'

\* Nothing moves when no order is written.
LEMMA OrderKept ==
  ASSUME UNCHANGED order
  PROVE  \A x \in Orders : Forward(x)
  BY DEF Forward, Placed, Expired, Alive

\* A handler that writes a status moves an unexpired order forward.
LEMMA OrderMoved ==
  ASSUME NEW o \in Orders, NEW st \in OrderStatus \ {"pending"}, ~Expired(o),
         \A x \in Orders :
           /\ order'[x].status = IF x = o THEN st ELSE order[x].status
           /\ x # o => order'[x].byAdmin = order[x].byAdmin,
         st = "cancelled" => order'[o].byAdmin
  PROVE  \A x \in Orders : Forward(x)
  BY DEF Forward, Placed, Expired, Alive, OrderStatus

\* Every step moves every order forward.
LEMMA OrderStep ==
  TypeOK /\ HandlerInv /\ [Next]_vars
    => \A x \in Orders : Forward(x)
<1> SUFFICES ASSUME TypeOK, HandlerInv, [Next]_vars
             PROVE  \A x \in Orders : Forward(x)
  OBVIOUS
<1>1. ASSUME NEW o \in Orders, NEW p \in Providers, PlaceOrder(o, p)
       PROVE  \A x \in Orders : Forward(x)
  <2>1. \A x \in Orders :
          /\ order'[x].status = IF x = o THEN "pending" ELSE order[x].status
          /\ order'[x].byAdmin = order[x].byAdmin
    BY <1>1 DEF PlaceOrder, TypeOK, OrderRow
  <2> QED  BY <1>1, <2>1 DEF PlaceOrder, Forward, Placed, Expired, Alive
<1>3. ASSUME NEW o \in Orders, GatewayPay(o) PROVE \A x \in Orders : Forward(x)
  BY <1>3, OrderKept DEF GatewayPay
<1>4. ASSUME NEW o \in Orders, ConfirmQiCardPayment(o)
       PROVE  \A x \in Orders : Forward(x)
  <2>1. CASE UNCHANGED order
    BY <2>1, OrderKept
  <2>2. ASSUME NEW st \in {"pending_requirements", "in_progress"},
               StillPending(o), SetOrder(o, st)
        PROVE  \A x \in Orders : Forward(x)
    BY <2>2, SetOrderFields, OrderMoved DEF StillPending, Expired, OrderStatus
  <2> QED  BY <1>4, <2>1, <2>2 DEF ConfirmQiCardPayment
<1>5. ASSUME NEW o \in Orders, ConfirmWithoutEffect(o)
       PROVE  \A x \in Orders : Forward(x)
  BY <1>5, OrderKept DEF ConfirmWithoutEffect
<1>6. ASSUME NEW s \in Clients, NEW o \in Orders, PaymentFailedLookup(s, o)
       PROVE  \A x \in Orders : Forward(x)
  BY <1>6, OrderKept DEF PaymentFailedLookup
<1>7. ASSUME NEW s \in Clients, PaymentFailedWrite(s)
       PROVE  \A x \in Orders : Forward(x)
  BY <1>7, OrderKept DEF PaymentFailedWrite
<1>8. ASSUME NEW s \in Sessions, NEW op \in DOMAIN StartsFrom,
              NEW o \in Orders, LoadOrder(s, op, o)
      
       PROVE  \A x \in Orders : Forward(x)
  BY <1>8, OrderKept DEF LoadOrder
<1>9. ASSUME NEW s \in Clients, SubmitRequirements(s)
       PROVE  \A x \in Orders : Forward(x)
  <2>1. req[s].order \in Orders /\ ~Expired(req[s].order)
    BY <1>9 DEF SubmitRequirements, At, StartsFrom, HandlerInv, FitRequest,
         Alive, Sessions
  <2> QED  BY <1>9, <2>1, SetOrderFields, OrderMoved, OrderKept
          DEF SubmitRequirements, OrderStatus
<1>10. ASSUME NEW s \in Freelancers, MarkDelivered(s)
       PROVE  \A x \in Orders : Forward(x)
  <2>1. req[s].order \in Orders /\ ~Expired(req[s].order)
    BY <1>10 DEF MarkDelivered, At, StartsFrom, HandlerInv, FitRequest, Alive,
         Sessions
  <2>2. \A x \in Orders :
          /\ order'[x].status = IF x = req[s].order THEN "delivered"
                                                    ELSE order[x].status
          /\ x # req[s].order => order'[x].byAdmin = order[x].byAdmin
    BY <1>10, <2>1 DEF MarkDelivered, TypeOK, OrderRow
  <2> QED  BY <2>1, <2>2, OrderMoved DEF OrderStatus
<1>11. ASSUME NEW s \in Clients, RequestRevision(s)
       PROVE  \A x \in Orders : Forward(x)
  <2>1. req[s].order \in Orders /\ ~Expired(req[s].order)
    BY <1>11 DEF RequestRevision, At, StartsFrom, HandlerInv, FitRequest,
         Alive, Sessions
  <2>2. \A x \in Orders :
          /\ order'[x].status = IF x = req[s].order THEN "revision_requested"
                                                    ELSE order[x].status
          /\ x # req[s].order => order'[x].byAdmin = order[x].byAdmin
    BY <1>11, <2>1 DEF RequestRevision, TypeOK, OrderRow
  <2> QED  BY <2>1, <2>2, OrderMoved DEF OrderStatus
<1>12. ASSUME NEW s \in Clients, CompleteOrder(s)
       PROVE  \A x \in Orders : Forward(x)
  <2>1. req[s].order \in Orders /\ ~Expired(req[s].order)
    BY <1>12 DEF CompleteOrder, At, StartsFrom, HandlerInv, FitRequest, Alive,
         Sessions
  <2> QED  BY <1>12, <2>1, SetOrderFields, OrderMoved, OrderKept
          DEF CompleteOrder, OrderStatus
<1>13. ASSUME NEW s \in Sessions, DisputeFlush(s)
       PROVE  \A x \in Orders : Forward(x)
  BY <1>13, OrderKept DEF DisputeFlush
<1>14. ASSUME NEW s \in Sessions, DisputeCommit(s)
       PROVE  \A x \in Orders : Forward(x)
  <2>1. req[s].order \in Orders /\ ~Expired(req[s].order)
    BY <1>14 DEF DisputeCommit, At, StartsFrom, HandlerInv, FitRequest, Alive,
         Sessions, Freezing
  <2> QED  BY <1>14, <2>1, SetOrderFields, OrderMoved, OrderKept
          DEF DisputeCommit, OrderStatus
<1>15. ASSUME NEW s \in Admins, NEW o \in Orders, AssignAdminLoad(s, o)
       PROVE  \A x \in Orders : Forward(x)
  BY <1>15, OrderKept DEF AssignAdminLoad
<1>16. ASSUME NEW s \in Admins, AssignAdmin(s)
       PROVE  \A x \in Orders : Forward(x)
  BY <1>16, OrderKept DEF AssignAdmin
<1>17. ASSUME NEW s \in Admins, ResolveReadEscrow(s)
       PROVE  \A x \in Orders : Forward(x)
  BY <1>17, OrderKept DEF ResolveReadEscrow
<1>18. ASSUME NEW s \in Admins, ResolveRelease(s)
       PROVE  \A x \in Orders : Forward(x)
  <2>1. req[s].order \in Orders /\ ~Expired(req[s].order)
    BY <1>18 DEF ResolveRelease, At, StartsFrom, HandlerInv, FitRequest, Alive,
         Sessions, Resolving
  <2> QED  BY <1>18, <2>1, SetOrderFields, OrderMoved, OrderKept
          DEF ResolveRelease, OrderStatus
<1>19. ASSUME NEW s \in Admins, ResolveRefund(s)
       PROVE  \A x \in Orders : Forward(x)
  <2>1. req[s].order \in Orders /\ ~Expired(req[s].order)
    BY <1>19 DEF ResolveRefund, RefundEscrow, At, StartsFrom, HandlerInv, FitRequest, Alive,
         Sessions, Resolving
  <2>2. \A x \in Orders :
          /\ order'[x].status = IF x = req[s].order THEN "cancelled"
                                                    ELSE order[x].status
          /\ x # req[s].order => order'[x].byAdmin = order[x].byAdmin
          /\ x = req[s].order => order'[x].byAdmin
    BY <1>19, <2>1 DEF ResolveRefund, RefundEscrow, TypeOK, OrderRow
  <2> QED  BY <2>1, <2>2, OrderMoved DEF OrderStatus
<1>20. ASSUME NEW s \in Admins, CloseDispute(s)
       PROVE  \A x \in Orders : Forward(x)
  BY <1>20, OrderKept DEF CloseDispute
<1>21. ASSUME NEW o \in Orders, ReleaseEscrowById(o)
       PROVE  \A x \in Orders : Forward(x)
  BY <1>21, OrderKept DEF ReleaseEscrowById
<1>22. ASSUME SetupPaymentAccount PROVE \A x \in Orders : Forward(x)
  BY <1>22, OrderKept DEF SetupPaymentAccount
<1>23. ASSUME NEW w \in Workers, ExpireList(w)
       PROVE  \A x \in Orders : Forward(x)
  BY <1>23, OrderKept DEF ExpireList
<1>24. ASSUME NEW w \in Workers, NEW o \in Orders, ExpireOrder(w, o)
       PROVE  \A x \in Orders : Forward(x)
  <2>1. CASE StillPending(o)
    BY <1>24, <2>1, SetOrderFields
    DEF ExpireOrder, StillPending, Forward, Placed, Expired, Alive
  <2>2. CASE ~StillPending(o)
    BY <1>24, <2>2, OrderKept DEF ExpireOrder
  <2> QED  BY <2>1, <2>2
<1>25. ASSUME NEW w \in Workers, AutoCompleteList(w)
       PROVE  \A x \in Orders : Forward(x)
  BY <1>25, OrderKept DEF AutoCompleteList
<1>26. ASSUME NEW w \in Workers, NEW o \in Orders, AutoCompleteOrder(w, o)
       PROVE  \A x \in Orders : Forward(x)
  <2>1. ~Expired(o)
    BY <1>26 DEF AutoCompleteOrder, At, HandlerInv, FitRequest, Alive, Sessions
  <2> QED  BY <1>26, <2>1, SetOrderFields, OrderMoved
          DEF AutoCompleteOrder, OrderStatus
<1>27. ASSUME NEW w \in Workers, SweepEnd(w) PROVE \A x \in Orders : Forward(x)
  BY <1>27, OrderKept DEF SweepEnd
<1>28. ASSUME NEW o \in Orders, TimePasses(o) PROVE \A x \in Orders : Forward(x)
  <2>1. \A x \in Orders : /\ order'[x].status = order[x].status
                          /\ order'[x].byAdmin = order[x].byAdmin
    BY <1>28 DEF TimePasses, TypeOK, OrderRow
  <2> QED  BY <2>1 DEF Forward, Placed, Expired, Alive
<1>29. ASSUME NEW s \in Sessions, Rollback(s) PROVE \A x \in Orders : Forward(x)
  BY <1>29, OrderKept DEF Rollback
<1>30. CASE UNCHANGED vars
  BY <1>30, OrderKept DEF vars
<1> QED
  BY <1>1, <1>3, <1>4, <1>5, <1>6, <1>7, <1>8, <1>9, <1>10, <1>11,
     <1>12, <1>13, <1>14, <1>15, <1>16, <1>17, <1>18, <1>19, <1>20, <1>21,
     <1>22, <1>23, <1>24, <1>25, <1>26, <1>27, <1>28, <1>29, <1>30
     DEF Next, PaymentStep, ClientStep, FreelancerStep, AdminStep, Sweep,
         Resolving, StartsFrom, Sessions

---------------------------------------------------------------------------
(* The funding transaction.                                                *)

\* Nothing happened to the transaction and its count of outcomes.
LEMMA TransactionKept ==
  ASSUME TransactionInv, \A x \in Orders : Forward(x), UNCHANGED fundTx,
         \A x \in Orders : /\ ledger'[x].confirmed = ledger[x].confirmed
                          /\ ledger'[x].failed = ledger[x].failed
  PROVE  TransactionInv'
  BY DEF TransactionInv, Forward, Placed

\* Every step keeps the count of confirmations in the transaction's status.
LEMMA TransactionStep ==
  TypeOK /\ HandlerInv /\ TransactionInv /\ [Next]_vars
    => TransactionInv'
<1> SUFFICES ASSUME TypeOK, HandlerInv, TransactionInv, [Next]_vars
             PROVE  TransactionInv'
  OBVIOUS
<1>0. \A x \in Orders : Forward(x)
  BY OrderStep
<1> USE <1>0
<1>1. ASSUME NEW o \in Orders, NEW p \in Providers, PlaceOrder(o, p)
       PROVE  TransactionInv'
  <2>1. ~Placed(o) /\ Placed(o)'
    BY <1>1 DEF PlaceOrder, Placed, TypeOK, OrderRow
  <2> QED  BY <1>1, <2>1, LedgerNumbers
          DEF PlaceOrder, TypeOK, TransactionInv, Forward, Placed
<1>3. ASSUME NEW o \in Orders, GatewayPay(o) PROVE TransactionInv'
  BY <1>3, TransactionKept DEF GatewayPay
<1>4. ASSUME NEW o \in Orders, ConfirmQiCardPayment(o) PROVE TransactionInv'
  <2>1. \A x \in Orders :
          /\ ledger'[x].confirmed = IF x = o THEN ledger[x].confirmed + 1
                                             ELSE ledger[x].confirmed
          /\ ledger'[x].failed = ledger[x].failed
    BY <1>4 DEF ConfirmQiCardPayment, TypeOK, LedgerRow
  <2>2. fundTx' = [fundTx EXCEPT ![o] = "completed"] /\ NotYetConfirmed(o)
    BY <1>4 DEF ConfirmQiCardPayment
  <2>3. Placed(o)
    BY <1>4 DEF ConfirmQiCardPayment, FundingTransactionFound, TransactionInv,
         Placed
  <2> QED  BY <2>1, <2>2, <2>3, LedgerNumbers
           DEF TransactionInv, TypeOK, NotYetConfirmed, Forward, Placed
<1>5. ASSUME NEW o \in Orders, ConfirmWithoutEffect(o) PROVE TransactionInv'
  BY <1>5, TransactionKept DEF ConfirmWithoutEffect
<1>6. ASSUME NEW s \in Clients, NEW o \in Orders, PaymentFailedLookup(s, o)
       PROVE  TransactionInv'
  BY <1>6, TransactionKept DEF PaymentFailedLookup
<1>7. ASSUME NEW s \in Clients, PaymentFailedWrite(s) PROVE TransactionInv'
  <2>0. req[s].order \in Orders /\ Placed(req[s].order)
    BY <1>7 DEF PaymentFailedWrite, At, HandlerInv, FitRequest, Placed, Sessions
  <2> DEFINE o == req[s].order
  <2>1. \A x \in Orders :
          /\ ledger'[x].confirmed = ledger[x].confirmed
          /\ ledger'[x].failed = IF x = o THEN ledger[x].failed + 1
                                          ELSE ledger[x].failed
    BY <1>7 DEF PaymentFailedWrite, TypeOK, LedgerRow
  <2>2. fundTx' = [fundTx EXCEPT ![o] = "failed"]
    BY <1>7 DEF PaymentFailedWrite
  <2> QED  BY <2>0, <2>1, <2>2, LedgerNumbers
           DEF TransactionInv, TypeOK, Forward, Placed
<1>8. ASSUME NEW s \in Sessions, NEW op \in DOMAIN StartsFrom,
              NEW o \in Orders, LoadOrder(s, op, o)
      
       PROVE  TransactionInv'
  BY <1>8, TransactionKept DEF LoadOrder
<1>9. ASSUME NEW s \in Clients, SubmitRequirements(s) PROVE TransactionInv'
  BY <1>9, TransactionKept DEF SubmitRequirements
<1>10. ASSUME NEW s \in Freelancers, MarkDelivered(s) PROVE TransactionInv'
  BY <1>10, TransactionKept DEF MarkDelivered
<1>11. ASSUME NEW s \in Clients, RequestRevision(s) PROVE TransactionInv'
  BY <1>11, TransactionKept DEF RequestRevision
<1>12. ASSUME NEW s \in Clients, CompleteOrder(s) PROVE TransactionInv'
  <2>1. req[s].order \in Orders
    BY <1>12, LoadedOrder DEF CompleteOrder, At, StartsFrom, Sessions
  <2> QED  BY <1>12, <2>1, ReleaseFields, TransactionKept
          DEF CompleteOrder, ReleaseIfFunded
<1>13. ASSUME NEW s \in Sessions, DisputeFlush(s) PROVE TransactionInv'
  BY <1>13, TransactionKept DEF DisputeFlush
<1>14. ASSUME NEW s \in Sessions, DisputeCommit(s) PROVE TransactionInv'
  BY <1>14, TransactionKept DEF DisputeCommit
<1>15. ASSUME NEW s \in Admins, NEW o \in Orders, AssignAdminLoad(s, o)
       PROVE  TransactionInv'
  BY <1>15, TransactionKept DEF AssignAdminLoad
<1>16. ASSUME NEW s \in Admins, AssignAdmin(s) PROVE TransactionInv'
  BY <1>16, TransactionKept DEF AssignAdmin
<1>17. ASSUME NEW s \in Admins, ResolveReadEscrow(s) PROVE TransactionInv'
  BY <1>17, TransactionKept DEF ResolveReadEscrow
<1>18. ASSUME NEW s \in Admins, ResolveRelease(s) PROVE TransactionInv'
  <2>1. req[s].order \in Orders
    BY <1>18, LoadedOrder
       DEF ResolveRelease, Resolving, At, StartsFrom, Sessions
  <2> QED  BY <1>18, <2>1, ReleaseFields, TransactionKept DEF ResolveRelease
<1>19. ASSUME NEW s \in Admins, ResolveRefund(s) PROVE TransactionInv'
  <2>1. \A x \in Orders : /\ ledger'[x].confirmed = ledger[x].confirmed
                          /\ ledger'[x].failed = ledger[x].failed
    <3>1. CASE UNCHANGED ledger
      BY <3>1
    <3>2. CASE ledger' = [ledger EXCEPT ![req[s].order].refunded = @ + 1]
      BY <3>2 DEF TypeOK, LedgerRow
    <3> QED  BY <1>19, <3>1, <3>2 DEF ResolveRefund, RefundEscrow
  <2> QED  BY <1>19, <2>1, TransactionKept DEF ResolveRefund, RefundEscrow
<1>20. ASSUME NEW s \in Admins, CloseDispute(s) PROVE TransactionInv'
  BY <1>20, TransactionKept DEF CloseDispute
<1>21. ASSUME NEW o \in Orders, ReleaseEscrowById(o) PROVE TransactionInv'
  BY <1>21, ReleaseFields, TransactionKept DEF ReleaseEscrowById
<1>22. ASSUME SetupPaymentAccount PROVE TransactionInv'
  BY <1>22, TransactionKept DEF SetupPaymentAccount
<1>23. ASSUME NEW w \in Workers, ExpireList(w) PROVE TransactionInv'
  BY <1>23, TransactionKept DEF ExpireList
<1>24. ASSUME NEW w \in Workers, NEW o \in Orders, ExpireOrder(w, o)
       PROVE  TransactionInv'
  BY <1>24, TransactionKept DEF ExpireOrder
<1>25. ASSUME NEW w \in Workers, AutoCompleteList(w) PROVE TransactionInv'
  BY <1>25, TransactionKept DEF AutoCompleteList
<1>26. ASSUME NEW w \in Workers, NEW o \in Orders, AutoCompleteOrder(w, o)
       PROVE  TransactionInv'
  BY <1>26, ReleaseFields, TransactionKept
     DEF AutoCompleteOrder, ReleaseIfFunded
<1>27. ASSUME NEW w \in Workers, SweepEnd(w) PROVE TransactionInv'
  BY <1>27, TransactionKept DEF SweepEnd
<1>28. ASSUME NEW o \in Orders, TimePasses(o) PROVE TransactionInv'
  BY <1>28, TransactionKept DEF TimePasses
<1>29. ASSUME NEW s \in Sessions, Rollback(s) PROVE TransactionInv'
  BY <1>29, TransactionKept DEF Rollback
<1>30. CASE UNCHANGED vars
  BY <1>30, TransactionKept DEF vars
<1> QED
  BY <1>1, <1>3, <1>4, <1>5, <1>6, <1>7, <1>8, <1>9, <1>10, <1>11,
     <1>12, <1>13, <1>14, <1>15, <1>16, <1>17, <1>18, <1>19, <1>20, <1>21,
     <1>22, <1>23, <1>24, <1>25, <1>26, <1>27, <1>28, <1>29, <1>30
     DEF Next, PaymentStep, ClientStep, FreelancerStep, AdminStep, Sweep,
         Resolving, StartsFrom, Sessions

---------------------------------------------------------------------------
(* What handlers have in hand.                                             *)

\* Only session s got a new request, r, and r is still worth something.
LEMMA HandlerKept ==
  ASSUME HandlerInv, \A x \in Orders : Forward(x), NEW s \in Sessions, NEW r,
         \A t \in Sessions : req'[t] = IF t = s THEN r ELSE req[t],
         r = req[s] \/ FitRequest(r)'
  PROVE  HandlerInv'
  BY DEF HandlerInv, FitRequest, Forward, Placed, Alive

\* As HandlerKept, when no session gets a new request.
LEMMA HandlersKept ==
  ASSUME HandlerInv, \A x \in Orders : Forward(x), UNCHANGED req
  PROVE  HandlerInv'
  BY DEF HandlerInv, FitRequest, Forward, Placed, Alive

\* As HandlerKept, when session s ends its request.
LEMMA HandlerDone ==
  ASSUME TypeOK, HandlerInv, \A x \in Orders : Forward(x),
         NEW s \in Sessions, Done(s)
  PROVE  HandlerInv'
<1>1. FitRequest(Idle)'
  BY DEF FitRequest, Idle, StartsFrom
<1> QED  BY <1>1, DoneFields, HandlerKept

\* Resolving the order ends the request or leaves it to close the dispute.
LEMMA HandlerResolved ==
  ASSUME TypeOK, HandlerInv, \A x \in Orders : Forward(x),
         NEW s \in Sessions, NEW out, OrderResolved(s, out),
         req[s].op \in DOMAIN StartsFrom
  PROVE  HandlerInv'
<1>1. CASE Begin(s, Idle)
  BY <1>1, HandlerDone DEF Begin, Done
<1>0. PICK r : r = [req[s] EXCEPT !.stage = "resolved", !.outcome = out]
  OBVIOUS
<1>2. CASE Begin(s, r)
  <2>1. r.op = req[s].op /\ r.order = req[s].order
    BY <1>0 DEF TypeOK, Request
  <2>2. FitRequest(r)'
    BY <1>0, <2>1 DEF HandlerInv, FitRequest, Forward, StartsFrom
  <2> QED  BY <1>0, <1>2, <2>2, BeginFields, HandlerKept
<1> QED  BY <1>0, <1>1, <1>2 DEF OrderResolved

\* A transaction row belongs to a placed order.
LEMMA TransactionOrder ==
  ASSUME TransactionInv, NEW o \in Orders, fundTx[o] # "none"
  PROVE  order[o].status # "none"
  BY DEF TransactionInv

\* Every step keeps what the sessions hold fit for use.
LEMMA HandlerStep ==
  TypeOK /\ TransactionInv /\ HandlerInv /\ [Next]_vars
    => HandlerInv'
<1> SUFFICES ASSUME TypeOK, TransactionInv, HandlerInv, [Next]_vars
             PROVE  HandlerInv'
  OBVIOUS
<1>0. \A x \in Orders : Forward(x)
  BY OrderStep
<1> USE <1>0
<1>1. ASSUME NEW o \in Orders, NEW p \in Providers, PlaceOrder(o, p)
       PROVE  HandlerInv'
  BY <1>1, HandlersKept DEF PlaceOrder
<1>3. ASSUME NEW o \in Orders, GatewayPay(o) PROVE HandlerInv'
  BY <1>3, HandlersKept DEF GatewayPay
<1>4. ASSUME NEW o \in Orders, ConfirmQiCardPayment(o) PROVE HandlerInv'
  BY <1>4, HandlersKept DEF ConfirmQiCardPayment
<1>5. ASSUME NEW o \in Orders, ConfirmWithoutEffect(o) PROVE HandlerInv'
  BY <1>5, HandlersKept DEF ConfirmWithoutEffect
<1>6. ASSUME NEW s \in Clients, NEW o \in Orders, PaymentFailedLookup(s, o)
       PROVE  HandlerInv'
  <2>0. PICK r : r = [Idle EXCEPT !.op = "payment_failed", !.stage = "loaded",
                               !.order = o]
    OBVIOUS
  <2>1. CASE Begin(s, r) /\ FundingTransactionFound(o)
    <3>1. r.op = "payment_failed" /\ r.order = o
      BY <2>0 DEF Idle
    <3>2. Placed(o)'
      BY <2>0, <2>1, TransactionOrder
         DEF Forward, FundingTransactionFound, Placed
    <3>3. FitRequest(r)'
      BY <2>0, <3>1, <3>2 DEF FitRequest, StartsFrom, Placed
    <3> QED  BY <2>0, <2>1, <3>3, BeginFields, HandlerKept DEF Sessions
  <2>2. CASE UNCHANGED req
    BY <2>0, <2>2, HandlersKept
  <2> QED  BY <2>0, <1>6, <2>1, <2>2 DEF PaymentFailedLookup
<1>7. ASSUME NEW s \in Clients, PaymentFailedWrite(s) PROVE HandlerInv'
  BY <1>7, HandlerDone DEF PaymentFailedWrite, Sessions
<1>8. ASSUME NEW s \in Sessions, NEW op \in DOMAIN StartsFrom,
              NEW o \in Orders, LoadOrder(s, op, o)
      
       PROVE  HandlerInv'
  <2>0. PICK r : r = [Idle EXCEPT !.op = op, !.stage = "loaded", !.order = o,
                             !.val = order[o].revisions]
    OBVIOUS
  <2>1. FitRequest(r)'
    <3>1. r.op = op /\ r.order = o
      BY <2>0 DEF Idle
    <3>2. Alive(o)
      BY <2>0, <1>8 DEF LoadOrder, StartsFrom, Disputable, Alive, Expired
    <3> QED  BY <2>0, <3>1, <3>2 DEF FitRequest, Forward, StartsFrom
  <2> QED  BY <2>0, <1>8, <2>1, BeginFields, HandlerKept DEF LoadOrder, Sessions
<1>9. ASSUME NEW s \in Clients, SubmitRequirements(s) PROVE HandlerInv'
  BY <1>9, HandlerDone DEF SubmitRequirements, Sessions
<1>10. ASSUME NEW s \in Freelancers, MarkDelivered(s) PROVE HandlerInv'
  BY <1>10, HandlerDone DEF MarkDelivered, Sessions
<1>11. ASSUME NEW s \in Clients, RequestRevision(s) PROVE HandlerInv'
  BY <1>11, HandlerDone DEF RequestRevision, Sessions
<1>12. ASSUME NEW s \in Clients, CompleteOrder(s) PROVE HandlerInv'
  BY <1>12, HandlerDone DEF CompleteOrder, Sessions
<1>13. ASSUME NEW s \in Sessions, DisputeFlush(s) PROVE HandlerInv'
  <2>1. CASE Done(s)
    BY <2>1, HandlerDone
  <2>0. PICK r : r = [req[s] EXCEPT !.stage = "escrow_read",
                               !.seen = escrow[req[s].order].status = "funded"]
    OBVIOUS
  <2>2. CASE Begin(s, r)
    <3>1. r.op = req[s].op /\ r.order = req[s].order
      BY <2>0 DEF TypeOK, Request
    <3>2. FitRequest(r)'
      BY <2>0, <1>13, <3>1
         DEF DisputeFlush, Freezing, At, HandlerInv, FitRequest, Forward,
             StartsFrom
    <3> QED  BY <2>0, <2>2, <3>2, BeginFields, HandlerKept
  <2> QED  BY <2>0, <1>13, <2>1, <2>2 DEF DisputeFlush
<1>14. ASSUME NEW s \in Sessions, DisputeCommit(s) PROVE HandlerInv'
  BY <1>14, HandlerDone DEF DisputeCommit
<1>15. ASSUME NEW s \in Admins, NEW o \in Orders, AssignAdminLoad(s, o)
       PROVE  HandlerInv'
  <2>0. PICK r : r = [Idle EXCEPT !.op = "assign_admin", !.stage = "loaded", !.order = o,
                             !.seen = dispute[o] = "open"]
    OBVIOUS
  <2>1. FitRequest(r)'
    BY <2>0 DEF FitRequest, StartsFrom, Idle
  <2> QED  BY <2>0, <1>15, <2>1, BeginFields, HandlerKept
          DEF AssignAdminLoad, Sessions
<1>16. ASSUME NEW s \in Admins, AssignAdmin(s) PROVE HandlerInv'
  BY <1>16, HandlerDone DEF AssignAdmin, Sessions
<1>17. ASSUME NEW s \in Admins, ResolveReadEscrow(s) PROVE HandlerInv'
  <2>0. PICK r : r = [req[s] EXCEPT !.stage = "escrow_read",
                               !.seen = escrow[req[s].order].status = "disputed",
                               !.val = escrow[req[s].order].version]
    OBVIOUS
  <2>1. FitRequest(r)'
    <3>1. r.op = req[s].op /\ r.order = req[s].order
      BY <2>0 DEF TypeOK, Request, Sessions
    <3> QED  BY <2>0, <1>17, <3>1
            DEF ResolveReadEscrow, At, HandlerInv, FitRequest, Forward,
                StartsFrom, Sessions, Resolving
  <2> QED  BY <2>0, <1>17, <2>1, BeginFields, HandlerKept
          DEF ResolveReadEscrow, Sessions
<1>18. ASSUME NEW s \in Admins, ResolveRelease(s) PROVE HandlerInv'
  <2>1. req[s].op \in DOMAIN StartsFrom
    BY <1>18 DEF ResolveRelease, Resolving, At, StartsFrom
  <2> QED  BY <1>18, <2>1, HandlerResolved, HandlerDone
          DEF ResolveRelease, Sessions
<1>19. ASSUME NEW s \in Admins, ResolveRefund(s) PROVE HandlerInv'
  <2>1. req[s].op \in DOMAIN StartsFrom
    BY <1>19 DEF ResolveRefund, RefundEscrow, Resolving, At, StartsFrom
  <2> QED  BY <1>19, <2>1, HandlerResolved, HandlerDone
          DEF ResolveRefund, RefundEscrow, Sessions
<1>20. ASSUME NEW s \in Admins, CloseDispute(s) PROVE HandlerInv'
  BY <1>20, HandlerDone DEF CloseDispute, Sessions
<1>21. ASSUME NEW o \in Orders, ReleaseEscrowById(o) PROVE HandlerInv'
  BY <1>21, HandlersKept DEF ReleaseEscrowById
<1>22. ASSUME SetupPaymentAccount PROVE HandlerInv'
  BY <1>22, HandlersKept DEF SetupPaymentAccount
<1>23. ASSUME NEW w \in Workers, ExpireList(w) PROVE HandlerInv'
  <2>0. PICK r : r = [Idle EXCEPT !.op = "expire", !.stage = "loaded",
                   !.todo = {o \in StaleIn("pending") :
                               escrow[o].status # "funded"}]
    OBVIOUS
  <2>1. FitRequest(r)'
    BY <2>0 DEF FitRequest, StartsFrom, Idle
  <2> QED  BY <2>0, <1>23, <2>1, BeginFields, HandlerKept
          DEF ExpireList, Sessions
<1>24. ASSUME NEW w \in Workers, NEW o \in Orders, ExpireOrder(w, o)
       PROVE  HandlerInv'
  <2>0. PICK r : r = [req[w] EXCEPT !.todo = @ \ {o}]
    OBVIOUS
  <2>1. r.op = req[w].op /\ r.todo = req[w].todo \ {o}
    BY <2>0 DEF TypeOK, Request, Sessions
  <2>2. FitRequest(r)'
    BY <2>0, <1>24, <2>1 DEF ExpireOrder, At, FitRequest, StartsFrom
  <2> QED  BY <2>0, <1>24, <2>2, BeginFields, HandlerKept
          DEF ExpireOrder, Sessions
<1>25. ASSUME NEW w \in Workers, AutoCompleteList(w) PROVE HandlerInv'
  <2>0. PICK r : r = [req[w] EXCEPT !.op = "auto_complete",
                               !.todo = StaleIn("delivered")]
    OBVIOUS
  <2>1. r.op = "auto_complete" /\ r.todo = StaleIn("delivered")
    BY <2>0 DEF TypeOK, Request, Sessions
  <2>2. \A o \in r.todo : o \in Orders /\ Alive(o)
    BY <2>0, <2>1 DEF StaleIn, Alive, Expired
  <2>3. FitRequest(r)'
    BY <2>0, <2>1, <2>2 DEF FitRequest, Forward, StartsFrom
  <2> QED  BY <2>0, <1>25, <2>3, BeginFields, HandlerKept
          DEF AutoCompleteList, Sessions
<1>26. ASSUME NEW w \in Workers, NEW o \in Orders, AutoCompleteOrder(w, o)
       PROVE  HandlerInv'
  <2>0. PICK r : r = [req[w] EXCEPT !.todo = @ \ {o}]
    OBVIOUS
  <2>1. r.op = req[w].op /\ r.todo = req[w].todo \ {o}
    BY <2>0 DEF TypeOK, Request, Sessions
  <2>2. FitRequest(r)'
    BY <2>0, <1>26, <2>1
       DEF AutoCompleteOrder, At, HandlerInv, FitRequest, Forward, StartsFrom,
           Sessions
  <2> QED  BY <2>0, <1>26, <2>2, BeginFields, HandlerKept
          DEF AutoCompleteOrder, Sessions
<1>27. ASSUME NEW w \in Workers, SweepEnd(w) PROVE HandlerInv'
  BY <1>27, HandlerDone DEF SweepEnd, Sessions
<1>28. ASSUME NEW o \in Orders, TimePasses(o) PROVE HandlerInv'
  BY <1>28, HandlersKept DEF TimePasses
<1>29. ASSUME NEW s \in Sessions, Rollback(s) PROVE HandlerInv'
  BY <1>29, HandlerDone DEF Rollback
<1>30. CASE UNCHANGED vars
  BY <1>30, HandlersKept DEF vars
<1> QED
  BY <1>1, <1>3, <1>4, <1>5, <1>6, <1>7, <1>8, <1>9, <1>10, <1>11,
     <1>12, <1>13, <1>14, <1>15, <1>16, <1>17, <1>18, <1>19, <1>20, <1>21,
     <1>22, <1>23, <1>24, <1>25, <1>26, <1>27, <1>28, <1>29, <1>30
     DEF Next, PaymentStep, ClientStep, FreelancerStep, AdminStep, Sweep,
         Resolving, StartsFrom, Sessions

---------------------------------------------------------------------------
(* The escrow invariant. *)

\* Every step keeps the escrow in agreement with the ledger.
LEMMA EscrowStep ==
  TypeOK /\ HandlerInv /\ SnapshotInv /\ EscrowInv /\ [Next]_vars => EscrowInv'
<1> SUFFICES ASSUME TypeOK, HandlerInv, SnapshotInv, EscrowInv, [Next]_vars PROVE EscrowInv'
  OBVIOUS
<1> USE DEF EscrowInv
<1>1. ASSUME NEW o \in Orders, NEW p \in Providers, PlaceOrder(o, p)
       PROVE  EscrowInv'
  BY <1>1, SetEscrowFields DEF PlaceOrder
<1>3. ASSUME NEW o \in Orders, GatewayPay(o) PROVE EscrowInv'
  BY <1>3 DEF GatewayPay, TypeOK, GatewayRow
<1>4. ASSUME NEW o \in Orders, ConfirmQiCardPayment(o) PROVE EscrowInv'
  <2>1. \A x \in Orders :
          /\ ledger'[x].confirmed = IF x = o THEN ledger[x].confirmed + 1
                                             ELSE ledger[x].confirmed
          /\ ledger'[x].released = ledger[x].released
          /\ ledger'[x].refunded = ledger[x].refunded
    BY <1>4 DEF ConfirmQiCardPayment, TypeOK, LedgerRow
  <2> QED
    BY <1>4, <2>1, SetEscrowFields, LedgerNumbers DEF ConfirmQiCardPayment
<1>5. ASSUME NEW o \in Orders, ConfirmWithoutEffect(o) PROVE EscrowInv'
  BY <1>5 DEF ConfirmWithoutEffect
<1>6. ASSUME NEW s \in Clients, NEW o \in Orders, PaymentFailedLookup(s, o)
       PROVE  EscrowInv'
  BY <1>6 DEF PaymentFailedLookup
<1>7. ASSUME NEW s \in Clients, PaymentFailedWrite(s) PROVE EscrowInv'
  <2>0. req[s].order \in Orders
    BY <1>7 DEF PaymentFailedWrite, At, HandlerInv, FitRequest, Sessions
  <2>1. \A x \in Orders : /\ ledger'[x].confirmed = ledger[x].confirmed
                          /\ ledger'[x].released = ledger[x].released
                          /\ ledger'[x].refunded = ledger[x].refunded
    BY <1>7 DEF PaymentFailedWrite, TypeOK, LedgerRow
  <2> QED
    BY <1>7, <2>0, <2>1, SetEscrowFields, LedgerNumbers
       DEF PaymentFailedWrite
<1>8. ASSUME NEW s \in Sessions, NEW op \in DOMAIN StartsFrom,
              NEW o \in Orders, LoadOrder(s, op, o)
      
       PROVE  EscrowInv'
  BY <1>8 DEF LoadOrder
<1>9. ASSUME NEW s \in Clients, SubmitRequirements(s) PROVE EscrowInv'
  BY <1>9 DEF SubmitRequirements
<1>10. ASSUME NEW s \in Freelancers, MarkDelivered(s) PROVE EscrowInv'
  BY <1>10 DEF MarkDelivered
<1>11. ASSUME NEW s \in Clients, RequestRevision(s) PROVE EscrowInv'
  BY <1>11 DEF RequestRevision
<1>12. ASSUME NEW s \in Clients, CompleteOrder(s) PROVE EscrowInv'
  <2>0. req[s].order \in Orders
    BY <1>12, LoadedOrder DEF CompleteOrder, At, StartsFrom, Sessions
  <2>1. CASE Releasable(req[s].order)
    BY <1>12, <2>0, <2>1, ReleaseFields, LedgerNumbers
    DEF CompleteOrder, ReleaseIfFunded, Releasable
  <2>2. CASE ~Releasable(req[s].order)
    BY <1>12, <2>2 DEF CompleteOrder, ReleaseIfFunded
  <2> QED  BY <2>1, <2>2
<1>13. ASSUME NEW s \in Sessions, DisputeFlush(s) PROVE EscrowInv'
  BY <1>13 DEF DisputeFlush
<1>14. ASSUME NEW s \in Sessions, DisputeCommit(s) PROVE EscrowInv'
  <2>0. req[s].order \in Orders
    BY <1>14, LoadedOrder DEF DisputeCommit, Freezing, At, StartsFrom
  <2>1. CASE req[s].seen /\ ~CheckViolated(req[s].order)
    <3>1. ledger[req[s].order].refunded < ledger[req[s].order].confirmed
      BY <1>14, <2>1 DEF DisputeCommit, SnapshotInv, FitSnapshot, Freezing, At
    <3>2. SetEscrow(req[s].order, "disputed")
      BY <1>14, <2>1 DEF DisputeCommit
    <3> QED  BY <1>14, <2>0, <2>1, <3>1, <3>2, SetEscrowFields, LedgerNumbers
             DEF DisputeCommit, CheckViolated
  <2>2. CASE ~(req[s].seen /\ ~CheckViolated(req[s].order))
    BY <1>14, <2>2 DEF DisputeCommit
  <2> QED  BY <2>1, <2>2
<1>15. ASSUME NEW s \in Admins, NEW o \in Orders, AssignAdminLoad(s, o)
       PROVE  EscrowInv'
  BY <1>15 DEF AssignAdminLoad
<1>16. ASSUME NEW s \in Admins, AssignAdmin(s) PROVE EscrowInv'
  BY <1>16 DEF AssignAdmin
<1>17. ASSUME NEW s \in Admins, ResolveReadEscrow(s) PROVE EscrowInv'
  BY <1>17 DEF ResolveReadEscrow
<1>18. ASSUME NEW s \in Admins, ResolveRelease(s) PROVE EscrowInv'
  <2>0. req[s].order \in Orders
    BY <1>18, LoadedOrder
       DEF ResolveRelease, Resolving, At, StartsFrom, Sessions
  <2>1. CASE ReleaseLockedEscrow(req[s].order) /\ VersionUnchanged(s) /\ req[s].seen
    <3>1. req[s].val <= ledger[req[s].order].confirmed
      BY <1>18, <2>1 DEF ResolveRelease, SnapshotInv, FitSnapshot, At, Sessions
    <3> QED  BY <1>18, <2>0, <2>1, <3>1, ReleaseFields, LedgerNumbers
             DEF ResolveRelease, VersionUnchanged
  <2>2. CASE UNCHANGED <<escrow, ledger>>
    BY <1>18, <2>2 DEF ResolveRelease
  <2> QED  BY <1>18, <2>1, <2>2 DEF ResolveRelease
<1>19. ASSUME NEW s \in Admins, ResolveRefund(s) PROVE EscrowInv'
  <2>0. req[s].order \in Orders
    BY <1>19, LoadedOrder DEF ResolveRefund, RefundEscrow, Resolving, At, StartsFrom, Sessions
  <2> DEFINE o == req[s].order
  <2>1. CASE req[s].seen /\ RefundableNow(o)
    <3>1. \A x \in Orders :
            /\ ledger'[x].refunded = IF x = o THEN ledger[x].refunded + 1
                                              ELSE ledger[x].refunded
            /\ ledger'[x].confirmed = ledger[x].confirmed
            /\ ledger'[x].released = ledger[x].released
      BY <1>19, <2>1 DEF ResolveRefund, RefundEscrow, TypeOK, LedgerRow
    <3>2. SetEscrow(o, "refunded")
      BY <1>19, <2>1 DEF ResolveRefund, RefundEscrow
    <3> QED  BY <1>19, <2>0, <2>1, <3>1, <3>2, SetEscrowFields, LedgerNumbers
             DEF ResolveRefund, RefundEscrow, RefundableNow
  <2>2. CASE ~(req[s].seen /\ RefundableNow(o))
    BY <1>19, <2>2 DEF ResolveRefund, RefundEscrow
  <2> QED  BY <2>1, <2>2
<1>20. ASSUME NEW s \in Admins, CloseDispute(s) PROVE EscrowInv'
  BY <1>20 DEF CloseDispute
<1>21. ASSUME NEW o \in Orders, ReleaseEscrowById(o) PROVE EscrowInv'
  BY <1>21, ReleaseFields, LedgerNumbers DEF ReleaseEscrowById, Releasable
<1>22. ASSUME SetupPaymentAccount PROVE EscrowInv'
  BY <1>22 DEF SetupPaymentAccount
<1>23. ASSUME NEW w \in Workers, ExpireList(w) PROVE EscrowInv'
  BY <1>23 DEF ExpireList
<1>24. ASSUME NEW w \in Workers, NEW o \in Orders, ExpireOrder(w, o)
       PROVE  EscrowInv'
  BY <1>24 DEF ExpireOrder
<1>25. ASSUME NEW w \in Workers, AutoCompleteList(w) PROVE EscrowInv'
  BY <1>25 DEF AutoCompleteList
<1>26. ASSUME NEW w \in Workers, NEW o \in Orders, AutoCompleteOrder(w, o)
       PROVE  EscrowInv'
  <2>1. CASE Releasable(o)
    BY <1>26, <2>1, ReleaseFields, LedgerNumbers
    DEF AutoCompleteOrder, ReleaseIfFunded, Releasable
  <2>2. CASE ~Releasable(o)
    BY <1>26, <2>2 DEF AutoCompleteOrder, ReleaseIfFunded
  <2> QED  BY <2>1, <2>2
<1>27. ASSUME NEW w \in Workers, SweepEnd(w) PROVE EscrowInv'
  BY <1>27 DEF SweepEnd
<1>28. ASSUME NEW o \in Orders, TimePasses(o) PROVE EscrowInv'
  BY <1>28 DEF TimePasses
<1>29. ASSUME NEW s \in Sessions, Rollback(s) PROVE EscrowInv'
  BY <1>29 DEF Rollback
<1>30. CASE UNCHANGED vars
  BY <1>30 DEF vars
<1> QED
  BY <1>1, <1>3, <1>4, <1>5, <1>6, <1>7, <1>8, <1>9, <1>10, <1>11,
     <1>12, <1>13, <1>14, <1>15, <1>16, <1>17, <1>18, <1>19, <1>20, <1>21,
     <1>22, <1>23, <1>24, <1>25, <1>26, <1>27, <1>28, <1>29, <1>30
     DEF Next, PaymentStep, ClientStep, FreelancerStep, AdminStep, Sweep,
         Resolving, StartsFrom, Sessions

---------------------------------------------------------------------------
(* What sessions remember.                                                 *)

\* A confirmation is never taken back, and a refund needs the order row.
Steady(o) ==
  /\ ledger'[o].confirmed \in {ledger[o].confirmed, ledger[o].confirmed + 1}
  /\ ledger'[o].refunded # ledger[o].refunded => Unlocked(o)

\* A step that books nothing of the kind is steady.
LEMMA LedgerKept ==
  ASSUME TypeOK,
         \A x \in Orders : /\ ledger'[x].confirmed = ledger[x].confirmed
                          /\ ledger'[x].refunded = ledger[x].refunded
  PROVE  \A x \in Orders : Steady(x)
  BY LedgerNumbers DEF Steady

\* Every step is steady.
LEMMA LedgerStep ==
  TypeOK /\ HandlerInv /\ [Next]_vars
    => \A x \in Orders : Steady(x)
<1> SUFFICES ASSUME TypeOK, HandlerInv, [Next]_vars
             PROVE  \A x \in Orders : Steady(x)
  OBVIOUS
<1>1. ASSUME NEW o \in Orders, NEW p \in Providers, PlaceOrder(o, p)
       PROVE  \A x \in Orders : Steady(x)
  BY <1>1, LedgerKept DEF PlaceOrder
<1>3. ASSUME NEW o \in Orders, GatewayPay(o) PROVE \A x \in Orders : Steady(x)
  BY <1>3, LedgerKept DEF GatewayPay
<1>4. ASSUME NEW o \in Orders, ConfirmQiCardPayment(o)
       PROVE  \A x \in Orders : Steady(x)
  BY <1>4, LedgerNumbers DEF ConfirmQiCardPayment, Steady, TypeOK, LedgerRow
<1>5. ASSUME NEW o \in Orders, ConfirmWithoutEffect(o)
       PROVE  \A x \in Orders : Steady(x)
  BY <1>5, LedgerKept DEF ConfirmWithoutEffect
<1>6. ASSUME NEW s \in Clients, NEW o \in Orders, PaymentFailedLookup(s, o)
       PROVE  \A x \in Orders : Steady(x)
  BY <1>6, LedgerKept DEF PaymentFailedLookup
<1>7. ASSUME NEW s \in Clients, PaymentFailedWrite(s)
       PROVE  \A x \in Orders : Steady(x)
  BY <1>7, LedgerNumbers DEF PaymentFailedWrite, Steady, TypeOK, LedgerRow
<1>8. ASSUME NEW s \in Sessions, NEW op \in DOMAIN StartsFrom,
              NEW o \in Orders, LoadOrder(s, op, o)
      
       PROVE  \A x \in Orders : Steady(x)
  BY <1>8, LedgerKept DEF LoadOrder
<1>9. ASSUME NEW s \in Clients, SubmitRequirements(s)
       PROVE  \A x \in Orders : Steady(x)
  BY <1>9, LedgerKept DEF SubmitRequirements
<1>10. ASSUME NEW s \in Freelancers, MarkDelivered(s)
       PROVE  \A x \in Orders : Steady(x)
  BY <1>10, LedgerKept DEF MarkDelivered
<1>11. ASSUME NEW s \in Clients, RequestRevision(s)
       PROVE  \A x \in Orders : Steady(x)
  BY <1>11, LedgerKept DEF RequestRevision
<1>12. ASSUME NEW s \in Clients, CompleteOrder(s)
       PROVE  \A x \in Orders : Steady(x)
  <2>1. req[s].order \in Orders
    BY <1>12, LoadedOrder DEF CompleteOrder, At, StartsFrom, Sessions
  <2> QED  BY <1>12, <2>1, ReleaseFields, LedgerKept
          DEF CompleteOrder, ReleaseIfFunded
<1>13. ASSUME NEW s \in Sessions, DisputeFlush(s)
       PROVE  \A x \in Orders : Steady(x)
  BY <1>13, LedgerKept DEF DisputeFlush
<1>14. ASSUME NEW s \in Sessions, DisputeCommit(s)
       PROVE  \A x \in Orders : Steady(x)
  BY <1>14, LedgerKept DEF DisputeCommit
<1>15. ASSUME NEW s \in Admins, NEW o \in Orders, AssignAdminLoad(s, o)
       PROVE  \A x \in Orders : Steady(x)
  BY <1>15, LedgerKept DEF AssignAdminLoad
<1>16. ASSUME NEW s \in Admins, AssignAdmin(s) PROVE \A x \in Orders : Steady(x)
  BY <1>16, LedgerKept DEF AssignAdmin
<1>17. ASSUME NEW s \in Admins, ResolveReadEscrow(s)
       PROVE  \A x \in Orders : Steady(x)
  BY <1>17, LedgerKept DEF ResolveReadEscrow
<1>18. ASSUME NEW s \in Admins, ResolveRelease(s)
       PROVE  \A x \in Orders : Steady(x)
  <2>1. req[s].order \in Orders
    BY <1>18, LoadedOrder
       DEF ResolveRelease, Resolving, At, StartsFrom, Sessions
  <2> QED  BY <1>18, <2>1, ReleaseFields, LedgerKept DEF ResolveRelease
<1>19. ASSUME NEW s \in Admins, ResolveRefund(s)
       PROVE  \A x \in Orders : Steady(x)
  <2>1. CASE UNCHANGED ledger
    BY <2>1, LedgerKept
  <2>2. CASE ledger' = [ledger EXCEPT ![req[s].order].refunded = @ + 1]
    BY <1>19, <2>2, LedgerNumbers DEF ResolveRefund, RefundEscrow, Steady, TypeOK, LedgerRow
  <2> QED  BY <1>19, <2>1, <2>2 DEF ResolveRefund, RefundEscrow
<1>20. ASSUME NEW s \in Admins, CloseDispute(s)
       PROVE  \A x \in Orders : Steady(x)
  BY <1>20, LedgerKept DEF CloseDispute
<1>21. ASSUME NEW o \in Orders, ReleaseEscrowById(o)
       PROVE  \A x \in Orders : Steady(x)
  BY <1>21, ReleaseFields, LedgerKept DEF ReleaseEscrowById
<1>22. ASSUME SetupPaymentAccount PROVE \A x \in Orders : Steady(x)
  BY <1>22, LedgerKept DEF SetupPaymentAccount
<1>23. ASSUME NEW w \in Workers, ExpireList(w) PROVE \A x \in Orders : Steady(x)
  BY <1>23, LedgerKept DEF ExpireList
<1>24. ASSUME NEW w \in Workers, NEW o \in Orders, ExpireOrder(w, o)
       PROVE  \A x \in Orders : Steady(x)
  BY <1>24, LedgerKept DEF ExpireOrder
<1>25. ASSUME NEW w \in Workers, AutoCompleteList(w)
       PROVE  \A x \in Orders : Steady(x)
  BY <1>25, LedgerKept DEF AutoCompleteList
<1>26. ASSUME NEW w \in Workers, NEW o \in Orders, AutoCompleteOrder(w, o)
       PROVE  \A x \in Orders : Steady(x)
  BY <1>26, ReleaseFields, LedgerKept DEF AutoCompleteOrder, ReleaseIfFunded
<1>27. ASSUME NEW w \in Workers, SweepEnd(w) PROVE \A x \in Orders : Steady(x)
  BY <1>27, LedgerKept DEF SweepEnd
<1>28. ASSUME NEW o \in Orders, TimePasses(o) PROVE \A x \in Orders : Steady(x)
  BY <1>28, LedgerKept DEF TimePasses
<1>29. ASSUME NEW s \in Sessions, Rollback(s) PROVE \A x \in Orders : Steady(x)
  BY <1>29, LedgerKept DEF Rollback
<1>30. CASE UNCHANGED vars
  BY <1>30, LedgerKept DEF vars
<1> QED
  BY <1>1, <1>3, <1>4, <1>5, <1>6, <1>7, <1>8, <1>9, <1>10, <1>11,
     <1>12, <1>13, <1>14, <1>15, <1>16, <1>17, <1>18, <1>19, <1>20, <1>21,
     <1>22, <1>23, <1>24, <1>25, <1>26, <1>27, <1>28, <1>29, <1>30
     DEF Next, PaymentStep, ClientStep, FreelancerStep, AdminStep, Sweep,
         Resolving, StartsFrom, Sessions

\* Only session s got a new request, r, which remembers nothing or the truth.
LEMMA SnapshotKept ==
  ASSUME TypeOK, SnapshotInv, \A x \in Orders : Steady(x), UNCHANGED orderLock,
         NEW s \in Sessions, NEW r,
         \A t \in Sessions : req'[t] = IF t = s THEN r ELSE req[t],
         r = req[s] \/ r.stage # "escrow_read" \/ FitSnapshot(s, r)'
  PROVE  SnapshotInv'
<1> SUFFICES ASSUME NEW t \in Sessions PROVE FitSnapshot(t, req[t])'
  BY DEF SnapshotInv
<1>1. CASE req'[t] = req[t]
  <2>1. FitSnapshot(t, req[t]) /\ t # NoSession
    BY SessionAssumption DEF SnapshotInv
  <2>2. req[t].val \in Int
    BY DEF TypeOK, Request
  <2>3. CASE req[t].order \in Orders
    <3> DEFINE o == req[t].order
    <3>1. Steady(o) /\ ledger[o].confirmed \in Nat /\ ledger[o].refunded \in Nat
      BY <2>3, LedgerNumbers
    <3> QED  BY <1>1, <2>1, <2>2, <3>1 DEF FitSnapshot, Steady, Unlocked
  <2>4. CASE req[t].order \notin Orders
    BY <1>1, <2>1, <2>4 DEF FitSnapshot
  <2> QED  BY <2>3, <2>4
<1>2. CASE t = s /\ r # req[s]
  BY <1>2 DEF FitSnapshot
<1> QED  BY <1>1, <1>2

\* As SnapshotKept, when no session gets a new request.
LEMMA SnapshotsKept ==
  ASSUME TypeOK, SnapshotInv, \A x \in Orders : Steady(x),
         UNCHANGED <<orderLock, req>>
  PROVE  SnapshotInv'
<1> SUFFICES ASSUME NEW t \in Sessions PROVE FitSnapshot(t, req[t])'
  BY DEF SnapshotInv
<1> QED  BY SnapshotKept DEF SnapshotInv

\* As SnapshotKept, when session s ends its request.
LEMMA SnapshotDone ==
  ASSUME TypeOK, SnapshotInv, \A x \in Orders : Steady(x), UNCHANGED orderLock,
         NEW s \in Sessions, Done(s)
  PROVE  SnapshotInv'
<1>1. Idle.stage # "escrow_read"
  BY DEF Idle
<1> QED  BY <1>1, DoneFields, SnapshotKept

\* Resolving the order leaves nothing to remember.
LEMMA SnapshotResolved ==
  ASSUME TypeOK, SnapshotInv, \A x \in Orders : Steady(x), UNCHANGED orderLock,
         NEW s \in Sessions, NEW out, OrderResolved(s, out)
  PROVE  SnapshotInv'
<1>0. PICK r : r = IF req[s].op = "resolve_dispute"
                   THEN [req[s] EXCEPT !.stage = "resolved", !.outcome = out]
                   ELSE Idle
  OBVIOUS
<1>1. r.stage # "escrow_read"
  BY <1>0 DEF TypeOK, Request, Idle
<1> QED  BY <1>0, <1>1, BeginFields, SnapshotKept DEF OrderResolved

\* Every step keeps what the sessions remember true enough.
LEMMA SnapshotStep ==
  TypeOK /\ HandlerInv /\ EscrowInv /\ SnapshotInv /\ [Next]_vars
    => SnapshotInv'
<1> SUFFICES ASSUME TypeOK, HandlerInv, EscrowInv, SnapshotInv, [Next]_vars
             PROVE  SnapshotInv'
  OBVIOUS
<1>0. \A x \in Orders : Steady(x)
  BY LedgerStep
<1> USE <1>0
<1>1. ASSUME NEW o \in Orders, NEW p \in Providers, PlaceOrder(o, p)
       PROVE  SnapshotInv'
  BY <1>1, SnapshotsKept DEF PlaceOrder
<1>3. ASSUME NEW o \in Orders, GatewayPay(o) PROVE SnapshotInv'
  BY <1>3, SnapshotsKept DEF GatewayPay
<1>4. ASSUME NEW o \in Orders, ConfirmQiCardPayment(o) PROVE SnapshotInv'
  BY <1>4, SnapshotsKept DEF ConfirmQiCardPayment
<1>5. ASSUME NEW o \in Orders, ConfirmWithoutEffect(o) PROVE SnapshotInv'
  BY <1>5, SnapshotsKept DEF ConfirmWithoutEffect
<1>6. ASSUME NEW s \in Clients, NEW o \in Orders, PaymentFailedLookup(s, o)
       PROVE  SnapshotInv'
  <2>0. PICK r : r = [Idle EXCEPT !.op = "payment_failed", !.stage = "loaded",
                               !.order = o]
    OBVIOUS
  <2>1. r.stage # "escrow_read"
    BY <1>6, <2>0 DEF Idle
  <2>2. CASE Begin(s, r)
    <3>1. UNCHANGED orderLock
      BY <1>6 DEF PaymentFailedLookup
    <3> QED  BY <2>1, <2>2, <3>1, BeginFields, SnapshotKept DEF Sessions
  <2> QED  BY <1>6, <2>0, <2>2, SnapshotsKept DEF PaymentFailedLookup
<1>7. ASSUME NEW s \in Clients, PaymentFailedWrite(s) PROVE SnapshotInv'
  BY <1>7, SnapshotDone DEF PaymentFailedWrite, Sessions
<1>8. ASSUME NEW s \in Sessions, NEW op \in DOMAIN StartsFrom,
              NEW o \in Orders, LoadOrder(s, op, o)
      
       PROVE  SnapshotInv'
  <2>0. PICK r : r = [Idle EXCEPT !.op = op, !.stage = "loaded", !.order = o,
                             !.val = order[o].revisions]
    OBVIOUS
  <2>1. r.stage # "escrow_read"
    BY <1>8, <2>0 DEF Idle
  <2>2. CASE Begin(s, r)
    <3>1. UNCHANGED orderLock
      BY <1>8 DEF LoadOrder
    <3> QED  BY <2>1, <2>2, <3>1, BeginFields, SnapshotKept DEF Sessions
  <2> QED  BY <1>8, <2>0, <2>2 DEF LoadOrder
<1>9. ASSUME NEW s \in Clients, SubmitRequirements(s) PROVE SnapshotInv'
  BY <1>9, SnapshotDone DEF SubmitRequirements, Sessions
<1>10. ASSUME NEW s \in Freelancers, MarkDelivered(s) PROVE SnapshotInv'
  BY <1>10, SnapshotDone DEF MarkDelivered, Sessions
<1>11. ASSUME NEW s \in Clients, RequestRevision(s) PROVE SnapshotInv'
  BY <1>11, SnapshotDone DEF RequestRevision, Sessions
<1>12. ASSUME NEW s \in Clients, CompleteOrder(s) PROVE SnapshotInv'
  BY <1>12, SnapshotDone DEF CompleteOrder, Sessions
<1>13. ASSUME NEW s \in Sessions, DisputeFlush(s) PROVE SnapshotInv'
  <2>1. CASE Done(s) /\ UNCHANGED orderLock
    BY <2>1, SnapshotDone
  <2>2. CASE ~(Done(s) /\ UNCHANGED orderLock)
    <3> DEFINE o == req[s].order
    <3>0. PICK r : r = [req[s] EXCEPT !.stage = "escrow_read",
                                 !.seen = escrow[o].status = "funded"]
      OBVIOUS
    <3>1. /\ r.op = req[s].op /\ r.op \in Freezing /\ r.op \notin Resolving
          /\ r.order = o /\ o \in Orders
          /\ r.seen = (escrow[o].status = "funded")
      BY <1>13, <3>0, LoadedOrder
      DEF DisputeFlush, At, Resolving, Freezing, StartsFrom, TypeOK, Request
    <3>2. /\ Unlocked(o) /\ orderLock' = [orderLock EXCEPT ![o] = s]
          /\ Begin(s, r) /\ UNCHANGED <<escrow, ledger>>
      BY <1>13, <2>2, <3>0 DEF DisputeFlush
    <3>3. orderLock'[o] = s
      BY <3>1, <3>2 DEF TypeOK
    <3>4. FitSnapshot(s, r)'
      BY <3>1, <3>2, <3>3 DEF FitSnapshot, EscrowInv
    <3>5. ASSUME NEW t \in Sessions, t # s PROVE FitSnapshot(t, req[t])'
      BY <3>1, <3>2, <3>5, BeginFields, SessionAssumption
      DEF SnapshotInv, FitSnapshot, Unlocked, TypeOK
    <3>6. req'[s] = r
      BY <3>2, BeginFields
    <3> QED  BY <3>4, <3>5, <3>6 DEF SnapshotInv, FitSnapshot
  <2> QED  BY <2>1, <2>2
<1>14. ASSUME NEW s \in Sessions, DisputeCommit(s) PROVE SnapshotInv'
  <2>1. /\ req[s].order \in Orders /\ orderLock[req[s].order] = s
        /\ orderLock' = [orderLock EXCEPT ![req[s].order] = NoSession]
        /\ UNCHANGED ledger /\ Done(s)
    BY <1>14 DEF DisputeCommit, At, Freezing, SnapshotInv, FitSnapshot
  <2> SUFFICES ASSUME NEW t \in Sessions PROVE FitSnapshot(t, req[t])'
    BY DEF SnapshotInv
  <2>2. CASE t = s
    BY <2>1, <2>2, DoneFields DEF FitSnapshot, Idle
  <2>3. CASE t # s
    BY <2>1, <2>3, DoneFields DEF SnapshotInv, FitSnapshot, TypeOK
  <2> QED  BY <2>2, <2>3
<1>15. ASSUME NEW s \in Admins, NEW o \in Orders, AssignAdminLoad(s, o)
       PROVE  SnapshotInv'
  <2>0. PICK r : r = [Idle EXCEPT !.op = "assign_admin", !.stage = "loaded", !.order = o,
                             !.seen = dispute[o] = "open"]
    OBVIOUS
  <2>1. r.stage # "escrow_read"
    BY <1>15, <2>0 DEF Idle
  <2>2. CASE Begin(s, r)
    <3>1. UNCHANGED orderLock
      BY <1>15 DEF AssignAdminLoad
    <3> QED  BY <2>1, <2>2, <3>1, BeginFields, SnapshotKept DEF Sessions
  <2> QED  BY <1>15, <2>0, <2>2 DEF AssignAdminLoad
<1>16. ASSUME NEW s \in Admins, AssignAdmin(s) PROVE SnapshotInv'
  BY <1>16, SnapshotDone DEF AssignAdmin, Sessions
<1>17. ASSUME NEW s \in Admins, ResolveReadEscrow(s) PROVE SnapshotInv'
  <2>0. PICK r : r = [req[s] EXCEPT !.stage = "escrow_read",
                               !.seen = escrow[req[s].order].status = "disputed",
                               !.val = escrow[req[s].order].version]
    OBVIOUS
  <2>1. /\ r.op = req[s].op /\ r.op \notin Freezing
        /\ r.order = req[s].order /\ r.order \in Orders
        /\ r.seen => escrow[r.order].status = "disputed"
        /\ r.val = escrow[r.order].version
    BY <1>17, <2>0, LoadedOrder
    DEF ResolveReadEscrow, At, Resolving, Freezing, StartsFrom, TypeOK,
        Request, Sessions
  <2>2. r.seen => r.val <= ledger[r.order].confirmed
    BY <2>1, LedgerNumbers DEF EscrowInv
  <2>3. FitSnapshot(s, r)'
    BY <1>17, <2>1, <2>2 DEF ResolveReadEscrow, FitSnapshot
  <2> QED  BY <1>17, <2>0, <2>3, BeginFields, SnapshotKept
          DEF ResolveReadEscrow, Sessions
<1>18. ASSUME NEW s \in Admins, ResolveRelease(s) PROVE SnapshotInv'
  BY <1>18, SnapshotResolved, SnapshotDone DEF ResolveRelease, Sessions
<1>19. ASSUME NEW s \in Admins, ResolveRefund(s) PROVE SnapshotInv'
  BY <1>19, SnapshotResolved, SnapshotDone DEF ResolveRefund, RefundEscrow, Sessions
<1>20. ASSUME NEW s \in Admins, CloseDispute(s) PROVE SnapshotInv'
  BY <1>20, SnapshotDone DEF CloseDispute, Sessions
<1>21. ASSUME NEW o \in Orders, ReleaseEscrowById(o) PROVE SnapshotInv'
  BY <1>21, SnapshotsKept DEF ReleaseEscrowById
<1>22. ASSUME SetupPaymentAccount PROVE SnapshotInv'
  BY <1>22, SnapshotsKept DEF SetupPaymentAccount
<1>23. ASSUME NEW w \in Workers, ExpireList(w) PROVE SnapshotInv'
  <2>0. PICK r : r = [Idle EXCEPT !.op = "expire", !.stage = "loaded",
                   !.todo = {o \in StaleIn("pending") :
                               escrow[o].status # "funded"}]
    OBVIOUS
  <2>1. r.stage # "escrow_read"
    BY <1>23, <2>0 DEF Idle
  <2>2. CASE Begin(w, r)
    <3>1. UNCHANGED orderLock
      BY <1>23 DEF ExpireList
    <3> QED  BY <2>1, <2>2, <3>1, BeginFields, SnapshotKept DEF Sessions
  <2> QED  BY <1>23, <2>0, <2>2 DEF ExpireList
<1>24. ASSUME NEW w \in Workers, NEW o \in Orders, ExpireOrder(w, o)
       PROVE  SnapshotInv'
  <2>0. PICK r : r = [req[w] EXCEPT !.todo = @ \ {o}]
    OBVIOUS
  <2>1. r.stage # "escrow_read"
    BY <1>24, <2>0 DEF ExpireOrder, At, TypeOK, Request, Sessions
  <2>2. CASE Begin(w, r)
    <3>1. UNCHANGED orderLock
      BY <1>24 DEF ExpireOrder
    <3> QED  BY <2>1, <2>2, <3>1, BeginFields, SnapshotKept DEF Sessions
  <2> QED  BY <1>24, <2>0, <2>2 DEF ExpireOrder
<1>25. ASSUME NEW w \in Workers, AutoCompleteList(w) PROVE SnapshotInv'
  <2>0. PICK r : r = [req[w] EXCEPT !.op = "auto_complete",
                               !.todo = StaleIn("delivered")]
    OBVIOUS
  <2>1. r.stage # "escrow_read"
    BY <1>25, <2>0 DEF AutoCompleteList, At, TypeOK, Request, Sessions
  <2>2. CASE Begin(w, r)
    <3>1. UNCHANGED orderLock
      BY <1>25 DEF AutoCompleteList
    <3> QED  BY <2>1, <2>2, <3>1, BeginFields, SnapshotKept DEF Sessions
  <2> QED  BY <1>25, <2>0, <2>2 DEF AutoCompleteList
<1>26. ASSUME NEW w \in Workers, NEW o \in Orders, AutoCompleteOrder(w, o)
       PROVE  SnapshotInv'
  <2>0. PICK r : r = [req[w] EXCEPT !.todo = @ \ {o}]
    OBVIOUS
  <2>1. r.stage # "escrow_read"
    BY <1>26, <2>0 DEF AutoCompleteOrder, At, TypeOK, Request, Sessions
  <2>2. CASE Begin(w, r)
    <3>1. UNCHANGED orderLock
      BY <1>26 DEF AutoCompleteOrder
    <3> QED  BY <2>1, <2>2, <3>1, BeginFields, SnapshotKept DEF Sessions
  <2> QED  BY <1>26, <2>0, <2>2 DEF AutoCompleteOrder
<1>27. ASSUME NEW w \in Workers, SweepEnd(w) PROVE SnapshotInv'
  BY <1>27, SnapshotDone DEF SweepEnd, Sessions
<1>28. ASSUME NEW o \in Orders, TimePasses(o) PROVE SnapshotInv'
  BY <1>28, SnapshotsKept DEF TimePasses
<1>29. ASSUME NEW s \in Sessions, Rollback(s) PROVE SnapshotInv'
  <2>1. /\ \A x \in Orders : orderLock[x] # s => orderLock'[x] = orderLock[x]
        /\ UNCHANGED ledger /\ Done(s)
    BY <1>29 DEF Rollback
  <2> SUFFICES ASSUME NEW t \in Sessions PROVE FitSnapshot(t, req[t])'
    BY DEF SnapshotInv
  <2>2. CASE t = s
    BY <2>1, <2>2, DoneFields DEF FitSnapshot, Idle
  <2>3. CASE t # s
    BY <2>1, <2>3, DoneFields DEF SnapshotInv, FitSnapshot, TypeOK
  <2> QED  BY <2>2, <2>3
<1>30. CASE UNCHANGED vars
  BY <1>30, SnapshotsKept DEF vars
<1> QED
  BY <1>1, <1>3, <1>4, <1>5, <1>6, <1>7, <1>8, <1>9, <1>10, <1>11,
     <1>12, <1>13, <1>14, <1>15, <1>16, <1>17, <1>18, <1>19, <1>20, <1>21,
     <1>22, <1>23, <1>24, <1>25, <1>26, <1>27, <1>28, <1>29, <1>30
     DEF Next, PaymentStep, ClientStep, FreelancerStep, AdminStep, Sweep,
         Resolving, StartsFrom, Sessions

---------------------------------------------------------------------------
(* services.orders_count.                                                  *)

LEMMA ListedFinite == IsFiniteSet(Listed)
  BY OrderAssumption, FS_Subset DEF Listed

\* Counted, and past the point where the sweep could take it back.
Listing(o) == Placed(o) /\ ~Expired(o)

\* A transaction is written, never removed.
TransactionStays ==
  \A x \in Orders : fundTx'[x] \in {fundTx[x], "completed", "failed"}

\* Nothing moves when no order is written.
LEMMA CountKept ==
  ASSUME OrderInv, UNCHANGED <<order, ordersCount>>, TransactionStays
  PROVE  OrderInv'
<1>1. Listed' = Listed
  BY DEF Listed, Placed, Expired
<1> QED  BY <1>1 DEF OrderInv, CountMatches, Placed, TransactionStays

\* A handler that writes a status neither lists nor expires an order.
LEMMA CountMoved ==
  ASSUME OrderInv, UNCHANGED ordersCount, TransactionStays,
         NEW o \in Orders, NEW st \in OrderStatus \ {"pending"}, Listing(o),
         \A x \in Orders :
           /\ order'[x].status = IF x = o THEN st ELSE order[x].status
           /\ x # o => order'[x].byAdmin = order[x].byAdmin
           /\ order'[x].provider = order[x].provider,
         st = "cancelled" => order'[o].byAdmin
  PROVE  OrderInv'
<1>1. Listed' = Listed
  BY DEF Listed, Listing, Placed, Expired, OrderStatus
<1>2. st \notin {"none", "pending"}
  BY DEF OrderStatus
<1> QED  BY <1>1, <1>2 DEF OrderInv, CountMatches, Listing, Placed, TransactionStays

\* Every step keeps the counter.
LEMMA CountStep ==
  TypeOK /\ HandlerInv /\ OrderInv /\ [Next]_vars => OrderInv'
<1> SUFFICES ASSUME TypeOK, HandlerInv, OrderInv, [Next]_vars PROVE OrderInv'
  OBVIOUS
<1> USE DEF TransactionStays
<1>1. ASSUME NEW o \in Orders, NEW p \in Providers, PlaceOrder(o, p)
       PROVE  OrderInv'
  <2>1. \A x \in Orders :
          /\ order'[x].status = IF x = o THEN "pending" ELSE order[x].status
          /\ order'[x].byAdmin = order[x].byAdmin
          /\ order'[x].provider = IF x = o THEN p ELSE order[x].provider
    BY <1>1 DEF PlaceOrder, TypeOK, OrderRow
  <2>2. o \notin Listed /\ Listed' = Listed \cup {o}
    <3>1. \A x \in Orders \ {o} : (Placed(x)' <=> Placed(x)) /\ (Expired(x)' <=> Expired(x))
      BY <2>1 DEF Placed, Expired
    <3>2. ~Placed(o) /\ Placed(o)' /\ ~Expired(o)'
      <4>1. order[o].status = "none"
        BY <1>1 DEF PlaceOrder
      <4>2. order'[o].status = "pending"
        BY <2>1
      <4> QED  BY <4>1, <4>2 DEF Placed, Expired
    <3> QED  BY <3>1, <3>2 DEF Listed
  <2>3. Cardinality(Listed') = Cardinality(Listed) + 1
    BY <2>2, ListedFinite, FS_AddElement
  <2>4. \A x \in Orders : fundTx'[x] \in {fundTx[x], "pending"} /\ fundTx'[o] = "pending"
    BY <1>1 DEF PlaceOrder, TypeOK
  <2> QED  BY <1>1, <2>1, <2>3, <2>4 DEF PlaceOrder, OrderInv, CountMatches, Placed
<1>3. ASSUME NEW o \in Orders, GatewayPay(o) PROVE OrderInv'
  BY <1>3, CountKept DEF GatewayPay
<1>4. ASSUME NEW o \in Orders, ConfirmQiCardPayment(o)
       PROVE  OrderInv'
  <2>1. CASE UNCHANGED order
    BY <1>4, <2>1, CountKept DEF ConfirmQiCardPayment
  <2>2. ASSUME NEW st \in {"pending_requirements", "in_progress"},
               StillPending(o), SetOrder(o, st)
        PROVE  OrderInv'
    BY <1>4, <2>2, SetOrderFields, CountMoved
       DEF StillPending, Listing, Placed, Expired, OrderStatus, ConfirmQiCardPayment
  <2> QED  BY <1>4, <2>1, <2>2 DEF ConfirmQiCardPayment
<1>5. ASSUME NEW o \in Orders, ConfirmWithoutEffect(o)
       PROVE  OrderInv'
  BY <1>5, CountKept DEF ConfirmWithoutEffect
<1>6. ASSUME NEW s \in Clients, NEW o \in Orders, PaymentFailedLookup(s, o)
       PROVE  OrderInv'
  BY <1>6, CountKept DEF PaymentFailedLookup
<1>7. ASSUME NEW s \in Clients, PaymentFailedWrite(s)
       PROVE  OrderInv'
  BY <1>7, CountKept DEF PaymentFailedWrite
<1>8. ASSUME NEW s \in Sessions, NEW op \in DOMAIN StartsFrom,
              NEW o \in Orders, LoadOrder(s, op, o)
      
       PROVE  OrderInv'
  BY <1>8, CountKept DEF LoadOrder
<1>9. ASSUME NEW s \in Clients, SubmitRequirements(s)
       PROVE  OrderInv'
  <2>1. req[s].order \in Orders /\ Listing(req[s].order)
    BY <1>9 DEF SubmitRequirements, At, StartsFrom, HandlerInv, FitRequest,
         Alive, Listing, Placed, Sessions
  <2> QED  BY <1>9, <2>1, SetOrderFields, CountMoved, CountKept
          DEF SubmitRequirements, OrderStatus
<1>10. ASSUME NEW s \in Freelancers, MarkDelivered(s)
       PROVE  OrderInv'
  <2>1. req[s].order \in Orders /\ Listing(req[s].order)
    BY <1>10 DEF MarkDelivered, At, StartsFrom, HandlerInv, FitRequest, Alive, Listing, Placed,
         Sessions
  <2>2. \A x \in Orders :
          /\ order'[x].status = IF x = req[s].order THEN "delivered"
                                                    ELSE order[x].status
          /\ x # req[s].order => order'[x].byAdmin = order[x].byAdmin
          /\ order'[x].provider = order[x].provider
    BY <1>10, <2>1 DEF MarkDelivered, TypeOK, OrderRow
  <2>3. UNCHANGED <<ordersCount, fundTx>>
    BY <1>10 DEF MarkDelivered
  <2> QED  BY <2>1, <2>2, <2>3, CountMoved DEF OrderStatus
<1>11. ASSUME NEW s \in Clients, RequestRevision(s)
       PROVE  OrderInv'
  <2>1. req[s].order \in Orders /\ Listing(req[s].order)
    BY <1>11 DEF RequestRevision, At, StartsFrom, HandlerInv, FitRequest,
         Alive, Listing, Placed, Sessions
  <2>2. \A x \in Orders :
          /\ order'[x].status = IF x = req[s].order THEN "revision_requested"
                                                    ELSE order[x].status
          /\ x # req[s].order => order'[x].byAdmin = order[x].byAdmin
          /\ order'[x].provider = order[x].provider
    BY <1>11, <2>1 DEF RequestRevision, TypeOK, OrderRow
  <2>3. UNCHANGED <<ordersCount, fundTx>>
    BY <1>11 DEF RequestRevision
  <2> QED  BY <2>1, <2>2, <2>3, CountMoved DEF OrderStatus
<1>12. ASSUME NEW s \in Clients, CompleteOrder(s)
       PROVE  OrderInv'
  <2>1. req[s].order \in Orders /\ Listing(req[s].order)
    BY <1>12 DEF CompleteOrder, At, StartsFrom, HandlerInv, FitRequest, Alive, Listing, Placed,
         Sessions
  <2> QED  BY <1>12, <2>1, SetOrderFields, CountMoved, CountKept
          DEF CompleteOrder, OrderStatus
<1>13. ASSUME NEW s \in Sessions, DisputeFlush(s)
       PROVE  OrderInv'
  BY <1>13, CountKept DEF DisputeFlush
<1>14. ASSUME NEW s \in Sessions, DisputeCommit(s)
       PROVE  OrderInv'
  <2>1. req[s].order \in Orders /\ Listing(req[s].order)
    BY <1>14 DEF DisputeCommit, At, StartsFrom, HandlerInv, FitRequest, Alive, Listing, Placed,
         Sessions, Freezing
  <2> QED  BY <1>14, <2>1, SetOrderFields, CountMoved, CountKept
          DEF DisputeCommit, OrderStatus
<1>15. ASSUME NEW s \in Admins, NEW o \in Orders, AssignAdminLoad(s, o)
       PROVE  OrderInv'
  BY <1>15, CountKept DEF AssignAdminLoad
<1>16. ASSUME NEW s \in Admins, AssignAdmin(s)
       PROVE  OrderInv'
  BY <1>16, CountKept DEF AssignAdmin
<1>17. ASSUME NEW s \in Admins, ResolveReadEscrow(s)
       PROVE  OrderInv'
  BY <1>17, CountKept DEF ResolveReadEscrow
<1>18. ASSUME NEW s \in Admins, ResolveRelease(s)
       PROVE  OrderInv'
  <2>1. req[s].order \in Orders /\ Listing(req[s].order)
    BY <1>18 DEF ResolveRelease, At, StartsFrom, HandlerInv, FitRequest, Alive, Listing, Placed,
         Sessions, Resolving
  <2> QED  BY <1>18, <2>1, SetOrderFields, CountMoved, CountKept
          DEF ResolveRelease, OrderStatus
<1>19. ASSUME NEW s \in Admins, ResolveRefund(s)
       PROVE  OrderInv'
  <2>1. req[s].order \in Orders /\ Listing(req[s].order)
    BY <1>19 DEF ResolveRefund, RefundEscrow, At, StartsFrom, HandlerInv,
       FitRequest, Alive, Listing, Placed,
         Sessions, Resolving
  <2>2. \A x \in Orders :
          /\ order'[x].status = IF x = req[s].order THEN "cancelled"
                                                    ELSE order[x].status
          /\ x # req[s].order => order'[x].byAdmin = order[x].byAdmin
          /\ order'[x].provider = order[x].provider
          /\ x = req[s].order => order'[x].byAdmin
    BY <1>19, <2>1 DEF ResolveRefund, RefundEscrow, TypeOK, OrderRow
  <2>3. UNCHANGED <<ordersCount, fundTx>>
    BY <1>19 DEF ResolveRefund, RefundEscrow
  <2> QED  BY <2>1, <2>2, <2>3, CountMoved DEF OrderStatus
<1>20. ASSUME NEW s \in Admins, CloseDispute(s)
       PROVE  OrderInv'
  BY <1>20, CountKept DEF CloseDispute
<1>21. ASSUME NEW o \in Orders, ReleaseEscrowById(o)
       PROVE  OrderInv'
  BY <1>21, CountKept DEF ReleaseEscrowById
<1>22. ASSUME SetupPaymentAccount PROVE OrderInv'
  BY <1>22, CountKept DEF SetupPaymentAccount
<1>23. ASSUME NEW w \in Workers, ExpireList(w)
       PROVE  OrderInv'
  BY <1>23, CountKept DEF ExpireList
<1>24. ASSUME NEW w \in Workers, NEW o \in Orders, ExpireOrder(w, o)
       PROVE  OrderInv'
  <2>1. CASE StillPending(o)
    <3>1. \A x \in Orders :
            /\ order'[x].status = IF x = o THEN "cancelled" ELSE order[x].status
            /\ order'[x].byAdmin = order[x].byAdmin
            /\ order'[x].provider = order[x].provider
      BY <1>24, <2>1, SetOrderFields DEF ExpireOrder
    <3>2. o \in Listed /\ Listed' = Listed \ {o}
      BY <2>1, <3>1 DEF StillPending, OrderInv, Listed, Placed, Expired
    <3>3. /\ Cardinality(Listed) \in Nat
          /\ Cardinality(Listed') = Cardinality(Listed) - 1
          /\ Cardinality(Listed') \in Nat
      BY <3>2, ListedFinite, FS_RemoveElement, FS_CardinalityType, FS_Subset
    <3>4. ordersCount' = ordersCount - 1
      BY <1>24, <2>1, <3>3 DEF ExpireOrder, OrderInv, CountMatches
    <3> QED  BY <1>24, <2>1, <3>1, <3>3, <3>4
            DEF ExpireOrder, StillPending, OrderInv, CountMatches, Placed
  <2>2. CASE ~StillPending(o)
    BY <1>24, <2>2, CountKept DEF ExpireOrder
  <2> QED  BY <2>1, <2>2
<1>25. ASSUME NEW w \in Workers, AutoCompleteList(w)
       PROVE  OrderInv'
  BY <1>25, CountKept DEF AutoCompleteList
<1>26. ASSUME NEW w \in Workers, NEW o \in Orders, AutoCompleteOrder(w, o)
       PROVE  OrderInv'
  <2>1. Listing(o)
    BY <1>26 DEF AutoCompleteOrder, At, HandlerInv, FitRequest, Alive, Listing, Placed, Sessions
  <2> QED  BY <1>26, <2>1, SetOrderFields, CountMoved
          DEF AutoCompleteOrder, OrderStatus
<1>27. ASSUME NEW w \in Workers, SweepEnd(w) PROVE OrderInv'
  BY <1>27, CountKept DEF SweepEnd
<1>28. ASSUME NEW o \in Orders, TimePasses(o) PROVE OrderInv'
  <2>1. \A x \in Orders : /\ order'[x].status = order[x].status
                          /\ order'[x].byAdmin = order[x].byAdmin
                          /\ order'[x].provider = order[x].provider
    BY <1>28 DEF TimePasses, TypeOK, OrderRow
  <2>2. Listed' = Listed
    BY <2>1 DEF Listed, Placed, Expired
  <2> QED  BY <1>28, <2>1, <2>2 DEF TimePasses, OrderInv, CountMatches, Placed
<1>29. ASSUME NEW s \in Sessions, Rollback(s) PROVE OrderInv'
  BY <1>29, CountKept DEF Rollback
<1>30. CASE UNCHANGED vars
  BY <1>30, CountKept DEF vars
<1> QED
  BY <1>1, <1>3, <1>4, <1>5, <1>6, <1>7, <1>8, <1>9, <1>10, <1>11,
     <1>12, <1>13, <1>14, <1>15, <1>16, <1>17, <1>18, <1>19, <1>20, <1>21,
     <1>22, <1>23, <1>24, <1>25, <1>26, <1>27, <1>28, <1>29, <1>30
     DEF Next, PaymentStep, ClientStep, FreelancerStep, AdminStep, Sweep,
         Resolving, StartsFrom, Sessions

---------------------------------------------------------------------------
(* What the buyer is shown.                                                *)

\* A failure page confirms nothing.
LEMMA ShowFailed ==
  ASSUME TypeOK, NEW o, Show(o, "failed")
  PROVE  \A x \in Orders : gateway'[x].page \in {gateway[x].page, "failed"}
  BY DEF TypeOK, GatewayRow, Show

\* Transactions, confirmations and pages as they were, or a failure page more.
LEMMA PageKept ==
  ASSUME PageInv, \A x \in Orders : Forward(x), UNCHANGED fundTx,
         \A x \in Orders : /\ ledger'[x].confirmed = ledger[x].confirmed
                          /\ gateway'[x].page \in {gateway[x].page, "failed"}
  PROVE  PageInv'
<1>1. OnlyQiCard' <=> OnlyQiCard
  BY DEF OnlyQiCard
<1> QED  BY <1>1 DEF PageInv, CallbackFunds, Forward

\* Every step keeps what the result pages say.
LEMMA PageStep ==
  TypeOK /\ HandlerInv /\ TransactionInv /\ OrderInv /\ PageInv /\ [Next]_vars
    => PageInv'
<1> SUFFICES ASSUME TypeOK, HandlerInv, TransactionInv, OrderInv, PageInv,
                    [Next]_vars
             PROVE  PageInv'
  OBVIOUS
<1>0. \A x \in Orders : Forward(x)
  BY OrderStep
<1> USE <1>0
<1>1. ASSUME NEW o \in Orders, NEW p \in Providers, PlaceOrder(o, p)
       PROVE  PageInv'
  <2>1. /\ \A x \in Orders : x # o => (Placed(x)' <=> Placed(x))
        /\ fundTx' = [fundTx EXCEPT ![o] = "pending"]
        /\ UNCHANGED <<gateway, ledger>>
    BY <1>1 DEF PlaceOrder, Placed, TypeOK
  <2>2. Placed(o)'
    BY <1>1 DEF PlaceOrder, Placed, TypeOK, OrderRow
  <2> QED  BY <2>1, <2>2 DEF PageInv, CallbackFunds, TypeOK
<1>3. ASSUME NEW o \in Orders, GatewayPay(o) PROVE PageInv'
  <2>1. \A x \in Orders : gateway'[x].page = gateway[x].page
    BY <1>3 DEF GatewayPay, TypeOK, GatewayRow
  <2> QED  BY <1>3, <2>1 DEF GatewayPay, PageInv, CallbackFunds, Placed
<1>4. ASSUME NEW o \in Orders, ConfirmQiCardPayment(o) PROVE PageInv'
  <2>1. \A x \in Orders :
          ledger'[x].confirmed = IF x = o THEN ledger[x].confirmed + 1
                                          ELSE ledger[x].confirmed
    BY <1>4 DEF ConfirmQiCardPayment, TypeOK, LedgerRow
  <2>2. \A x \in Orders \ {o} : gateway'[x].page = gateway[x].page
    BY <1>4 DEF ConfirmQiCardPayment, Show, TypeOK, GatewayRow
  <2>3. /\ \A x \in Orders \ {o} : fundTx'[x] = fundTx[x]
        /\ fundTx'[o] = "completed" /\ ledger'[o].confirmed > 0
    BY <1>4, <2>1, LedgerNumbers DEF ConfirmQiCardPayment, TypeOK
  <2>4. \A x \in Orders \ {o} : Placed(x)' <=> Placed(x)
    BY <1>4 DEF ConfirmQiCardPayment, SetOrder, Placed, TypeOK
  <2>5. Placed(o)'
    BY <1>4 DEF ConfirmQiCardPayment, FundingTransactionFound, TransactionInv,
         Forward, Placed
  <2> QED  BY <2>1, <2>2, <2>3, <2>4, <2>5 DEF PageInv, CallbackFunds
<1>5. ASSUME NEW o \in Orders, ConfirmWithoutEffect(o) PROVE PageInv'
  <2>2. ASSUME OnlyQiCard PROVE CallbackFunds'
    <3>1. FundingTransactionFound(o)
      BY <1>5, <2>2 DEF ConfirmWithoutEffect, SignatureValid, Placed, OrderInv,
           OnlyQiCard, FundingTransactionFound
    <3>2. ledger[o].confirmed > 0 /\ \A x \in Orders \ {o} : gateway'[x] = gateway[x]
      BY <1>5, <3>1 DEF ConfirmWithoutEffect, NotYetConfirmed, Show, PageInv, TypeOK
    <3> QED  BY <1>5, <2>2, <3>2 DEF ConfirmWithoutEffect, PageInv, CallbackFunds
  <2>3. OnlyQiCard' <=> OnlyQiCard
    BY DEF OnlyQiCard
  <2> QED  BY <1>5, <2>2, <2>3 DEF ConfirmWithoutEffect, PageInv
<1>6. ASSUME NEW s \in Clients, NEW o \in Orders, PaymentFailedLookup(s, o)
       PROVE  PageInv'
  <2>1. CASE UNCHANGED gateway
    BY <1>6, <2>1, PageKept DEF PaymentFailedLookup
  <2>2. CASE Show(o, "failed")
    BY <1>6, <2>2, ShowFailed, PageKept DEF PaymentFailedLookup
  <2> QED  BY <1>6, <2>1, <2>2 DEF PaymentFailedLookup
<1>7. ASSUME NEW s \in Clients, PaymentFailedWrite(s) PROVE PageInv'
  <2> DEFINE o == req[s].order
  <2>1. /\ fundTx' = [fundTx EXCEPT ![o] = "failed"] /\ UNCHANGED order
        /\ Show(o, "failed")
    BY <1>7 DEF PaymentFailedWrite
  <2>2. \A x \in Orders : ledger'[x].confirmed = ledger[x].confirmed
    BY <1>7 DEF PaymentFailedWrite, TypeOK, LedgerRow
  <2> HIDE DEF o
  <2>3. \A x \in Orders : gateway'[x].page \in {gateway[x].page, "failed"}
    BY <2>1, ShowFailed
  <2>4. \A x \in Orders : fundTx'[x] \in {fundTx[x], "failed"}
    BY <2>1 DEF TypeOK
  <2> QED  BY <2>1, <2>2, <2>3, <2>4 DEF PageInv, CallbackFunds, Placed
<1>8. ASSUME NEW s \in Sessions, NEW op \in DOMAIN StartsFrom,
              NEW o \in Orders, LoadOrder(s, op, o)
      
       PROVE  PageInv'
  BY <1>8, PageKept DEF LoadOrder
<1>9. ASSUME NEW s \in Clients, SubmitRequirements(s) PROVE PageInv'
  BY <1>9, PageKept DEF SubmitRequirements
<1>10. ASSUME NEW s \in Freelancers, MarkDelivered(s) PROVE PageInv'
  BY <1>10, PageKept DEF MarkDelivered
<1>11. ASSUME NEW s \in Clients, RequestRevision(s) PROVE PageInv'
  BY <1>11, PageKept DEF RequestRevision
<1>12. ASSUME NEW s \in Clients, CompleteOrder(s) PROVE PageInv'
  <2>1. req[s].order \in Orders
    BY <1>12, LoadedOrder DEF CompleteOrder, At, StartsFrom, Sessions
  <2> QED  BY <1>12, <2>1, ReleaseFields, PageKept
          DEF CompleteOrder, ReleaseIfFunded
<1>13. ASSUME NEW s \in Sessions, DisputeFlush(s) PROVE PageInv'
  BY <1>13, PageKept DEF DisputeFlush
<1>14. ASSUME NEW s \in Sessions, DisputeCommit(s) PROVE PageInv'
  BY <1>14, PageKept DEF DisputeCommit
<1>15. ASSUME NEW s \in Admins, NEW o \in Orders, AssignAdminLoad(s, o)
       PROVE  PageInv'
  BY <1>15, PageKept DEF AssignAdminLoad
<1>16. ASSUME NEW s \in Admins, AssignAdmin(s) PROVE PageInv'
  BY <1>16, PageKept DEF AssignAdmin
<1>17. ASSUME NEW s \in Admins, ResolveReadEscrow(s) PROVE PageInv'
  BY <1>17, PageKept DEF ResolveReadEscrow
<1>18. ASSUME NEW s \in Admins, ResolveRelease(s) PROVE PageInv'
  <2>1. req[s].order \in Orders
    BY <1>18, LoadedOrder
       DEF ResolveRelease, Resolving, At, StartsFrom, Sessions
  <2> QED  BY <1>18, <2>1, ReleaseFields, PageKept DEF ResolveRelease
<1>19. ASSUME NEW s \in Admins, ResolveRefund(s) PROVE PageInv'
  <2>1. \A x \in Orders : /\ ledger'[x].confirmed = ledger[x].confirmed
                          /\ ledger'[x].failed = ledger[x].failed
    <3>1. CASE UNCHANGED ledger
      BY <3>1
    <3>2. CASE ledger' = [ledger EXCEPT ![req[s].order].refunded = @ + 1]
      BY <3>2 DEF TypeOK, LedgerRow
    <3> QED  BY <1>19, <3>1, <3>2 DEF ResolveRefund, RefundEscrow
  <2> QED  BY <1>19, <2>1, PageKept DEF ResolveRefund, RefundEscrow
<1>20. ASSUME NEW s \in Admins, CloseDispute(s) PROVE PageInv'
  BY <1>20, PageKept DEF CloseDispute
<1>21. ASSUME NEW o \in Orders, ReleaseEscrowById(o) PROVE PageInv'
  BY <1>21, ReleaseFields, PageKept DEF ReleaseEscrowById
<1>22. ASSUME SetupPaymentAccount PROVE PageInv'
  BY <1>22, PageKept DEF SetupPaymentAccount
<1>23. ASSUME NEW w \in Workers, ExpireList(w) PROVE PageInv'
  BY <1>23, PageKept DEF ExpireList
<1>24. ASSUME NEW w \in Workers, NEW o \in Orders, ExpireOrder(w, o)
       PROVE  PageInv'
  BY <1>24, PageKept DEF ExpireOrder
<1>25. ASSUME NEW w \in Workers, AutoCompleteList(w) PROVE PageInv'
  BY <1>25, PageKept DEF AutoCompleteList
<1>26. ASSUME NEW w \in Workers, NEW o \in Orders, AutoCompleteOrder(w, o)
       PROVE  PageInv'
  BY <1>26, ReleaseFields, PageKept
     DEF AutoCompleteOrder, ReleaseIfFunded
<1>27. ASSUME NEW w \in Workers, SweepEnd(w) PROVE PageInv'
  BY <1>27, PageKept DEF SweepEnd
<1>28. ASSUME NEW o \in Orders, TimePasses(o) PROVE PageInv'
  BY <1>28, PageKept DEF TimePasses
<1>29. ASSUME NEW s \in Sessions, Rollback(s) PROVE PageInv'
  BY <1>29, PageKept DEF Rollback
<1>30. CASE UNCHANGED vars
  BY <1>30, PageKept DEF vars
<1> QED
  BY <1>1, <1>3, <1>4, <1>5, <1>6, <1>7, <1>8, <1>9, <1>10, <1>11,
     <1>12, <1>13, <1>14, <1>15, <1>16, <1>17, <1>18, <1>19, <1>20, <1>21,
     <1>22, <1>23, <1>24, <1>25, <1>26, <1>27, <1>28, <1>29, <1>30
     DEF Next, PaymentStep, ClientStep, FreelancerStep, AdminStep, Sweep,
         Resolving, StartsFrom, Sessions

---------------------------------------------------------------------------
(* Money under dispute.                                                    *)

Frozen(o) ==
  escrow[o].status = "disputed" /\ ~Decided(o)
    => /\ ledger'[o].released = ledger[o].released
       /\ ledger'[o].refunded = ledger[o].refunded

\* A step that books nothing of the kind moves nothing.
LEMMA FrozenKept ==
  ASSUME \A x \in Orders : /\ ledger'[x].released = ledger[x].released
                           /\ ledger'[x].refunded = ledger[x].refunded
  PROVE  \A x \in Orders : Frozen(x)
  BY DEF Frozen

\* Every step leaves disputed money alone, or was decided by an admin.
LEMMA FrozenStep ==
  TypeOK /\ HandlerInv /\ [Next]_vars => \A x \in Orders : Frozen(x)
<1> SUFFICES ASSUME TypeOK, HandlerInv, [Next]_vars
             PROVE  \A x \in Orders : Frozen(x)
  OBVIOUS
<1>1. ASSUME NEW o \in Orders, NEW p \in Providers, PlaceOrder(o, p)
       PROVE  \A x \in Orders : Frozen(x)
  BY <1>1, FrozenKept DEF PlaceOrder
<1>3. ASSUME NEW o \in Orders, GatewayPay(o) PROVE \A x \in Orders : Frozen(x)
  BY <1>3, FrozenKept DEF GatewayPay
<1>4. ASSUME NEW o \in Orders, ConfirmQiCardPayment(o)
       PROVE  \A x \in Orders : Frozen(x)
  BY <1>4, LedgerNumbers DEF ConfirmQiCardPayment, Frozen, TypeOK, LedgerRow
<1>5. ASSUME NEW o \in Orders, ConfirmWithoutEffect(o)
       PROVE  \A x \in Orders : Frozen(x)
  BY <1>5, FrozenKept DEF ConfirmWithoutEffect
<1>6. ASSUME NEW s \in Clients, NEW o \in Orders, PaymentFailedLookup(s, o)
       PROVE  \A x \in Orders : Frozen(x)
  BY <1>6, FrozenKept DEF PaymentFailedLookup
<1>7. ASSUME NEW s \in Clients, PaymentFailedWrite(s)
       PROVE  \A x \in Orders : Frozen(x)
  BY <1>7, LedgerNumbers DEF PaymentFailedWrite, Frozen, TypeOK, LedgerRow
<1>8. ASSUME NEW s \in Sessions, NEW op \in DOMAIN StartsFrom,
              NEW o \in Orders, LoadOrder(s, op, o)
      
       PROVE  \A x \in Orders : Frozen(x)
  BY <1>8, FrozenKept DEF LoadOrder
<1>9. ASSUME NEW s \in Clients, SubmitRequirements(s)
       PROVE  \A x \in Orders : Frozen(x)
  BY <1>9, FrozenKept DEF SubmitRequirements
<1>10. ASSUME NEW s \in Freelancers, MarkDelivered(s)
       PROVE  \A x \in Orders : Frozen(x)
  BY <1>10, FrozenKept DEF MarkDelivered
<1>11. ASSUME NEW s \in Clients, RequestRevision(s)
       PROVE  \A x \in Orders : Frozen(x)
  BY <1>11, FrozenKept DEF RequestRevision
<1>12. ASSUME NEW s \in Clients, CompleteOrder(s)
       PROVE  \A x \in Orders : Frozen(x)
  <2>1. req[s].order \in Orders
    BY <1>12, LoadedOrder DEF CompleteOrder, At, StartsFrom, Sessions
  <2> QED  BY <1>12, <2>1, ReleaseFields, FrozenKept
          DEF CompleteOrder, ReleaseIfFunded, Releasable, Frozen
<1>13. ASSUME NEW s \in Sessions, DisputeFlush(s)
       PROVE  \A x \in Orders : Frozen(x)
  BY <1>13, FrozenKept DEF DisputeFlush
<1>14. ASSUME NEW s \in Sessions, DisputeCommit(s)
       PROVE  \A x \in Orders : Frozen(x)
  BY <1>14, FrozenKept DEF DisputeCommit
<1>15. ASSUME NEW s \in Admins, NEW o \in Orders, AssignAdminLoad(s, o)
       PROVE  \A x \in Orders : Frozen(x)
  BY <1>15, FrozenKept DEF AssignAdminLoad
<1>16. ASSUME NEW s \in Admins, AssignAdmin(s) PROVE \A x \in Orders : Frozen(x)
  BY <1>16, FrozenKept DEF AssignAdmin
<1>17. ASSUME NEW s \in Admins, ResolveReadEscrow(s)
       PROVE  \A x \in Orders : Frozen(x)
  BY <1>17, FrozenKept DEF ResolveReadEscrow
<1>18. ASSUME NEW s \in Admins, ResolveRelease(s)
       PROVE  \A x \in Orders : Frozen(x)
  <2>1. req[s].order \in Orders
    BY <1>18, LoadedOrder
       DEF ResolveRelease, Resolving, At, StartsFrom, Sessions
  <2> QED  BY <1>18, <2>1, ReleaseFields, FrozenKept
           DEF ResolveRelease, Frozen, Decided, At, Resolving
<1>19. ASSUME NEW s \in Admins, ResolveRefund(s)
       PROVE  \A x \in Orders : Frozen(x)
  <2>1. CASE UNCHANGED ledger
    BY <2>1, FrozenKept
  <2>2. CASE ledger' = [ledger EXCEPT ![req[s].order].refunded = @ + 1]
    BY <1>19, <2>2, LedgerNumbers
       DEF ResolveRefund, RefundEscrow, Frozen, Decided, At, Resolving, TypeOK, LedgerRow
  <2> QED  BY <1>19, <2>1, <2>2 DEF ResolveRefund, RefundEscrow
<1>20. ASSUME NEW s \in Admins, CloseDispute(s)
       PROVE  \A x \in Orders : Frozen(x)
  BY <1>20, FrozenKept DEF CloseDispute
<1>21. ASSUME NEW o \in Orders, ReleaseEscrowById(o)
       PROVE  \A x \in Orders : Frozen(x)
  BY <1>21, ReleaseFields, FrozenKept DEF ReleaseEscrowById, Releasable, Frozen
<1>22. ASSUME SetupPaymentAccount PROVE \A x \in Orders : Frozen(x)
  BY <1>22, FrozenKept DEF SetupPaymentAccount
<1>23. ASSUME NEW w \in Workers, ExpireList(w) PROVE \A x \in Orders : Frozen(x)
  BY <1>23, FrozenKept DEF ExpireList
<1>24. ASSUME NEW w \in Workers, NEW o \in Orders, ExpireOrder(w, o)
       PROVE  \A x \in Orders : Frozen(x)
  BY <1>24, FrozenKept DEF ExpireOrder
<1>25. ASSUME NEW w \in Workers, AutoCompleteList(w)
       PROVE  \A x \in Orders : Frozen(x)
  BY <1>25, FrozenKept DEF AutoCompleteList
<1>26. ASSUME NEW w \in Workers, NEW o \in Orders, AutoCompleteOrder(w, o)
       PROVE  \A x \in Orders : Frozen(x)
  BY <1>26, ReleaseFields, FrozenKept DEF AutoCompleteOrder, ReleaseIfFunded, Releasable, Frozen
<1>27. ASSUME NEW w \in Workers, SweepEnd(w) PROVE \A x \in Orders : Frozen(x)
  BY <1>27, FrozenKept DEF SweepEnd
<1>28. ASSUME NEW o \in Orders, TimePasses(o) PROVE \A x \in Orders : Frozen(x)
  BY <1>28, FrozenKept DEF TimePasses
<1>29. ASSUME NEW s \in Sessions, Rollback(s) PROVE \A x \in Orders : Frozen(x)
  BY <1>29, FrozenKept DEF Rollback
<1>30. CASE UNCHANGED vars
  BY <1>30, FrozenKept DEF vars
<1> QED
  BY <1>1, <1>3, <1>4, <1>5, <1>6, <1>7, <1>8, <1>9, <1>10, <1>11,
     <1>12, <1>13, <1>14, <1>15, <1>16, <1>17, <1>18, <1>19, <1>20, <1>21,
     <1>22, <1>23, <1>24, <1>25, <1>26, <1>27, <1>28, <1>29, <1>30
     DEF Next, PaymentStep, ClientStep, FreelancerStep, AdminStep, Sweep,
         Resolving, StartsFrom, Sessions

---------------------------------------------------------------------------
(* The inductive invariant and what follows from it.                       *)

\* The invariant holds before the first checkout.
LEMMA Initially == Init => IInv
<1> SUFFICES ASSUME Init PROVE IInv
  OBVIOUS
<1>1. TypeOK
  <2>1. \A o \in Orders : /\ order[o] \in OrderRow /\ escrow[o] \in EscrowRow
                         /\ ledger[o] \in LedgerRow /\ gateway[o] \in GatewayRow
    BY RevisionAssumption
       DEF Init, OrderRow, EscrowRow, LedgerRow, GatewayRow, Pages
  <2> QED  BY <2>1, IdleRequest DEF Init, TypeOK
<1>2. EscrowInv
  BY DEF Init, EscrowInv
<1>3. SnapshotInv
  BY DEF Init, SnapshotInv, FitSnapshot, Idle, Resolving, Freezing
<1>4. TransactionInv
  BY DEF Init, TransactionInv
<1>5. HandlerInv
  BY DEF Init, HandlerInv, FitRequest, Idle, StartsFrom
<1>6. OrderInv
  <2>1. Listed = {}
    BY DEF Init, Listed, Placed
  <2> QED  BY <2>1, FS_EmptySet DEF Init, OrderInv, CountMatches, Placed
<1>7. PageInv
  BY DEF Init, PageInv, CallbackFunds
<1> QED  BY <1>1, <1>2, <1>3, <1>4, <1>5, <1>6, <1>7 DEF IInv

\* The parts of the invariant keep each other up.
LEMMA Inductive == IInv /\ [Next]_vars => IInv'
<1> SUFFICES ASSUME IInv, [Next]_vars PROVE IInv'
  OBVIOUS
<1> USE DEF IInv
<1>1. TypeOK'
  BY TypeStep
<1>2. EscrowInv'
  BY EscrowStep
<1>3. SnapshotInv'
  BY SnapshotStep
<1>4. TransactionInv'
  BY TransactionStep
<1>5. HandlerInv'
  BY HandlerStep
<1>6. OrderInv'
  BY CountStep
<1>7. PageInv'
  BY PageStep
<1> QED  BY <1>1, <1>2, <1>3, <1>4, <1>5, <1>6, <1>7

\* Every reachable state satisfies the inductive invariant, for any number of
\* orders, sessions, workers, revisions and crashes.
THEOREM Invariance == Spec => []IInv
<1> QED  BY Initially, Inductive, PTL DEF Spec

\* The rows, the sessions' memory and the locks keep their types.
THEOREM TypeCorrect == Spec => []TypeOK
<1>1. IInv => TypeOK
  BY DEF IInv
<1> QED  BY <1>1, Invariance, PTL

\* A stale write, a reopened row, a sweep or a resolution never makes a booking
\* available again that a release or a refund has already used.
THEOREM HeldMoneyIsConfirmed == Spec => []HeldIsConfirmed
<1>1. IInv => HeldIsConfirmed
  BY DEF IInv, EscrowInv, HeldIsConfirmed
<1> QED  BY <1>1, Invariance, PTL

\* Each release from escrow uses up a confirmation of its own and one version.
THEOREM ReleasesAreBacked == Spec => []ReleasesBacked
<1>1. IInv => ReleasesBacked
  BY DEF IInv, EscrowInv, ReleasesBacked
<1> QED  BY <1>1, Invariance, PTL

\* Each refund uses up a confirmation of its own.
THEOREM RefundsAreBacked == Spec => []RefundsBacked
<1>1. IInv => RefundsBacked
  BY DEF IInv, EscrowInv, RefundsBacked
<1> QED  BY <1>1, Invariance, PTL

\* Repeated success redirects confirm once between two recorded failures.
THEOREM ConfirmsOnce == Spec => []ConfirmedOnce
<1>1. IInv => ConfirmedOnce
  BY DEF IInv, TransactionInv, ConfirmedOnce
<1> QED  BY <1>1, Invariance, PTL

\* Disputed escrows carry no release.
THEOREM DisputedIsNotReleased == Spec => []DisputedNotReleased
<1>1. IInv => DisputedNotReleased
  BY DEF IInv, EscrowInv, DisputedNotReleased
<1> QED  BY <1>1, Invariance, PTL

\* However sweeps, callbacks and handlers interleave, the service counts its
\* orders exactly, for any number of orders.
THEOREM OrdersAreCounted == Spec => []CountMatches
<1>1. IInv => CountMatches
  BY DEF IInv, OrderInv
<1> QED  BY <1>1, Invariance, PTL

\* When all orders are paid through Qi Card, the page a success redirect shows
\* means that the payment is confirmed.
THEOREM CallbacksFund ==
  ASSUME OnlyQiCard PROVE Spec => []CallbackFunds
<1>1. IInv => CallbackFunds
  BY DEF IInv, PageInv
<1> QED  BY <1>1, Invariance, PTL

\* Money under dispute moves only by the resolution of an admin who read the
\* disputed escrow.
THEOREM DisputedMoneyIsFrozen == Spec => FrozenUntilResolved
<1>1. IInv /\ [Next]_vars
        => [\A o \in Orders :
              escrow[o].status = "disputed" /\ ~Decided(o)
                => /\ ledger'[o].released = ledger[o].released
                   /\ ledger'[o].refunded = ledger[o].refunded]_vars
  BY FrozenStep DEF IInv, Frozen
<1> QED  BY <1>1, Invariance, PTL DEF Spec, FrozenUntilResolved

\* An order the sweep expired is out of every handler's and callback's reach.
THEOREM ExpiryIsFinal == Spec => ExpiredStaysCancelled
<1>1. IInv /\ [Next]_vars => [\A o \in Orders : Expired(o) => Expired(o)']_vars
  BY OrderStep DEF IInv, Forward
<1> QED  BY <1>1, Invariance, PTL DEF Spec, ExpiredStaysCancelled

---------------------------------------------------------------------------
(* The detailed system implements the abstract ledger.                     *)

\* A step that moves no money is a stutter of the abstract ledger.
LEMMA LedgerStutters ==
  ASSUME \A x \in Orders : /\ ledger'[x].confirmed = ledger[x].confirmed
                          /\ ledger'[x].failed = ledger[x].failed
                          /\ ledger'[x].released = ledger[x].released
                          /\ ledger'[x].refunded = ledger[x].refunded
  PROVE  UNCHANGED Ledger!ledgerVars
  BY DEF Ledger!ledgerVars

\* The release of a covered escrow is a release of the ledger.
LEMMA LedgerReleases ==
  ASSUME TypeOK, NEW o \in Orders, ReleaseLockedEscrow(o),
         ledger[o].released < ledger[o].confirmed
  PROVE  Ledger!LedgerNext
<1>1. Ledger!Release(o)
  BY ReleaseFields DEF Ledger!Release
<1> QED  BY <1>1 DEF Ledger!LedgerNext

\* The refund of a covered escrow is a refund of the ledger.
LEMMA LedgerRefunds ==
  ASSUME NEW o \in Orders, ledger[o].refunded < ledger[o].confirmed,
         \A x \in Orders :
           /\ ledger'[x].refunded = IF x = o THEN ledger[x].refunded + 1
                                             ELSE ledger[x].refunded
           /\ ledger'[x].confirmed = ledger[x].confirmed
           /\ ledger'[x].failed = ledger[x].failed
           /\ ledger'[x].released = ledger[x].released
  PROVE  Ledger!LedgerNext
<1>1. Ledger!Refund(o)
  BY DEF Ledger!Refund
<1> QED  BY <1>1 DEF Ledger!LedgerNext

\* A failure redirect that writes reopens the payment.
LEMMA LedgerReopens ==
  ASSUME NEW o \in Orders,
         \A x \in Orders :
           /\ ledger'[x].failed = IF x = o THEN ledger[x].failed + 1
                                           ELSE ledger[x].failed
           /\ ledger'[x].confirmed = ledger[x].confirmed
           /\ ledger'[x].released = ledger[x].released
           /\ ledger'[x].refunded = ledger[x].refunded
  PROVE  Ledger!LedgerNext
<1>1. Ledger!Reopen(o)
  BY DEF Ledger!Reopen
<1> QED  BY <1>1 DEF Ledger!LedgerNext

\* Every step is a step or a stutter of the abstract ledger.
LEMMA LedgerRefines ==
  IInv /\ [Next]_vars => [Ledger!LedgerNext]_Ledger!ledgerVars
<1> SUFFICES ASSUME IInv, [Next]_vars
             PROVE  Ledger!LedgerNext \/ UNCHANGED Ledger!ledgerVars
  OBVIOUS
<1> USE DEF IInv
<1>1. ASSUME NEW o \in Orders, NEW p \in Providers, PlaceOrder(o, p)
       PROVE  Ledger!LedgerNext \/ UNCHANGED Ledger!ledgerVars
  BY <1>1, LedgerStutters DEF PlaceOrder
<1>3. ASSUME NEW o \in Orders, GatewayPay(o)
       PROVE  Ledger!LedgerNext \/ UNCHANGED Ledger!ledgerVars
  BY <1>3, LedgerStutters DEF GatewayPay
<1>4. ASSUME NEW o \in Orders, ConfirmQiCardPayment(o)
       PROVE  Ledger!LedgerNext \/ UNCHANGED Ledger!ledgerVars
  <2>1. \A x \in Orders :
          /\ ledger'[x].confirmed = IF x = o THEN ledger[x].confirmed + 1
                                             ELSE ledger[x].confirmed
          /\ ledger'[x].failed = ledger[x].failed
          /\ ledger'[x].released = ledger[x].released
          /\ ledger'[x].refunded = ledger[x].refunded
    BY <1>4 DEF ConfirmQiCardPayment, TypeOK, LedgerRow
  <2>2. ledger[o].confirmed <= ledger[o].failed
    BY <1>4 DEF ConfirmQiCardPayment, NotYetConfirmed, TransactionInv
  <2>3. Ledger!Fund(o)
    BY <2>1, <2>2 DEF Ledger!Fund
  <2> QED  BY <2>3 DEF Ledger!LedgerNext
<1>5. ASSUME NEW o \in Orders, ConfirmWithoutEffect(o)
       PROVE  Ledger!LedgerNext \/ UNCHANGED Ledger!ledgerVars
  BY <1>5, LedgerStutters DEF ConfirmWithoutEffect
<1>6. ASSUME NEW s \in Clients, NEW o \in Orders, PaymentFailedLookup(s, o)
       PROVE  Ledger!LedgerNext \/ UNCHANGED Ledger!ledgerVars
  BY <1>6, LedgerStutters DEF PaymentFailedLookup
<1>7. ASSUME NEW s \in Clients, PaymentFailedWrite(s)
       PROVE  Ledger!LedgerNext \/ UNCHANGED Ledger!ledgerVars
  <2> DEFINE o == req[s].order
  <2>0. o \in Orders
    BY <1>7 DEF PaymentFailedWrite, At, HandlerInv, FitRequest, Sessions
  <2>1. \A x \in Orders :
          /\ ledger'[x].failed = IF x = o THEN ledger[x].failed + 1
                                          ELSE ledger[x].failed
          /\ ledger'[x].confirmed = ledger[x].confirmed
          /\ ledger'[x].released = ledger[x].released
          /\ ledger'[x].refunded = ledger[x].refunded
    BY <1>7 DEF PaymentFailedWrite, TypeOK, LedgerRow
  <2> QED  BY <2>0, <2>1, LedgerReopens
<1>8. ASSUME NEW s \in Sessions, NEW op \in DOMAIN StartsFrom,
              NEW o \in Orders, LoadOrder(s, op, o)
      
       PROVE  Ledger!LedgerNext \/ UNCHANGED Ledger!ledgerVars
  BY <1>8, LedgerStutters DEF LoadOrder
<1>9. ASSUME NEW s \in Clients, SubmitRequirements(s)
       PROVE  Ledger!LedgerNext \/ UNCHANGED Ledger!ledgerVars
  BY <1>9, LedgerStutters DEF SubmitRequirements
<1>10. ASSUME NEW s \in Freelancers, MarkDelivered(s)
       PROVE  Ledger!LedgerNext \/ UNCHANGED Ledger!ledgerVars
  BY <1>10, LedgerStutters DEF MarkDelivered
<1>11. ASSUME NEW s \in Clients, RequestRevision(s)
       PROVE  Ledger!LedgerNext \/ UNCHANGED Ledger!ledgerVars
  BY <1>11, LedgerStutters DEF RequestRevision
<1>12. ASSUME NEW s \in Clients, CompleteOrder(s)
       PROVE  Ledger!LedgerNext \/ UNCHANGED Ledger!ledgerVars
  <2>1. CASE Releasable(req[s].order)
    <3>1. req[s].order \in Orders
      BY <1>12, LoadedOrder DEF CompleteOrder, At, StartsFrom, Sessions
    <3> QED  BY <1>12, <2>1, <3>1, LedgerReleases
             DEF CompleteOrder, ReleaseIfFunded, Releasable, EscrowInv
  <2>2. CASE ~Releasable(req[s].order)
    BY <1>12, <2>2, LedgerStutters DEF CompleteOrder, ReleaseIfFunded
  <2> QED  BY <2>1, <2>2
<1>13. ASSUME NEW s \in Sessions, DisputeFlush(s)
       PROVE  Ledger!LedgerNext \/ UNCHANGED Ledger!ledgerVars
  BY <1>13, LedgerStutters DEF DisputeFlush
<1>14. ASSUME NEW s \in Sessions, DisputeCommit(s)
       PROVE  Ledger!LedgerNext \/ UNCHANGED Ledger!ledgerVars
  BY <1>14, LedgerStutters DEF DisputeCommit
<1>15. ASSUME NEW s \in Admins, NEW o \in Orders, AssignAdminLoad(s, o)
       PROVE  Ledger!LedgerNext \/ UNCHANGED Ledger!ledgerVars
  BY <1>15, LedgerStutters DEF AssignAdminLoad
<1>16. ASSUME NEW s \in Admins, AssignAdmin(s)
       PROVE  Ledger!LedgerNext \/ UNCHANGED Ledger!ledgerVars
  BY <1>16, LedgerStutters DEF AssignAdmin
<1>17. ASSUME NEW s \in Admins, ResolveReadEscrow(s)
       PROVE  Ledger!LedgerNext \/ UNCHANGED Ledger!ledgerVars
  BY <1>17, LedgerStutters DEF ResolveReadEscrow
<1>18. ASSUME NEW s \in Admins, ResolveRelease(s)
       PROVE  Ledger!LedgerNext \/ UNCHANGED Ledger!ledgerVars
  <2>0. req[s].order \in Orders
    BY <1>18, LoadedOrder
       DEF ResolveRelease, Resolving, At, StartsFrom, Sessions
  <2>1. CASE ReleaseLockedEscrow(req[s].order) /\ VersionUnchanged(s) /\ req[s].seen
    <3>1. req[s].val <= ledger[req[s].order].confirmed
      BY <1>18, <2>1 DEF ResolveRelease, SnapshotInv, FitSnapshot, At, Sessions
    <3>2. ledger[req[s].order].released < ledger[req[s].order].confirmed
      BY <2>0, <2>1, <3>1, LedgerNumbers DEF VersionUnchanged, EscrowInv
    <3> QED  BY <1>18, <2>0, <2>1, <3>2, LedgerReleases DEF ResolveRelease
  <2>2. CASE UNCHANGED ledger
    BY <1>18, <2>2, LedgerStutters DEF ResolveRelease
  <2> QED  BY <1>18, <2>1, <2>2 DEF ResolveRelease
<1>19. ASSUME NEW s \in Admins, ResolveRefund(s)
       PROVE  Ledger!LedgerNext \/ UNCHANGED Ledger!ledgerVars
  <2> DEFINE o == req[s].order
  <2>0. o \in Orders
    BY <1>19, LoadedOrder DEF ResolveRefund, RefundEscrow, Resolving, At, StartsFrom, Sessions
  <2>1. CASE req[s].seen /\ RefundableNow(o)
    <3>1. \A x \in Orders :
            /\ ledger'[x].refunded = IF x = o THEN ledger[x].refunded + 1
                                              ELSE ledger[x].refunded
            /\ ledger'[x].confirmed = ledger[x].confirmed
            /\ ledger'[x].failed = ledger[x].failed
            /\ ledger'[x].released = ledger[x].released
      BY <1>19, <2>1 DEF ResolveRefund, RefundEscrow, TypeOK, LedgerRow
    <3>2. ledger[o].refunded < ledger[o].confirmed
      BY <2>0, <2>1 DEF RefundableNow, EscrowInv
    <3> QED  BY <2>0, <3>1, <3>2, LedgerRefunds
  <2>2. CASE ~(req[s].seen /\ RefundableNow(o))
    BY <1>19, <2>2, LedgerStutters DEF ResolveRefund, RefundEscrow
  <2> QED  BY <2>1, <2>2
<1>20. ASSUME NEW s \in Admins, CloseDispute(s)
       PROVE  Ledger!LedgerNext \/ UNCHANGED Ledger!ledgerVars
  BY <1>20, LedgerStutters DEF CloseDispute
<1>21. ASSUME NEW o \in Orders, ReleaseEscrowById(o)
       PROVE  Ledger!LedgerNext \/ UNCHANGED Ledger!ledgerVars
  BY <1>21, LedgerReleases DEF ReleaseEscrowById, Releasable, EscrowInv
<1>22. ASSUME SetupPaymentAccount
       PROVE  Ledger!LedgerNext \/ UNCHANGED Ledger!ledgerVars
  BY <1>22, LedgerStutters DEF SetupPaymentAccount
<1>23. ASSUME NEW w \in Workers, ExpireList(w)
       PROVE  Ledger!LedgerNext \/ UNCHANGED Ledger!ledgerVars
  BY <1>23, LedgerStutters DEF ExpireList
<1>24. ASSUME NEW w \in Workers, NEW o \in Orders, ExpireOrder(w, o)
       PROVE  Ledger!LedgerNext \/ UNCHANGED Ledger!ledgerVars
  BY <1>24, LedgerStutters DEF ExpireOrder
<1>25. ASSUME NEW w \in Workers, AutoCompleteList(w)
       PROVE  Ledger!LedgerNext \/ UNCHANGED Ledger!ledgerVars
  BY <1>25, LedgerStutters DEF AutoCompleteList
<1>26. ASSUME NEW w \in Workers, NEW o \in Orders, AutoCompleteOrder(w, o)
       PROVE  Ledger!LedgerNext \/ UNCHANGED Ledger!ledgerVars
  <2>1. CASE Releasable(o)
    <3> QED  BY <1>26, <2>1, LedgerReleases
             DEF AutoCompleteOrder, ReleaseIfFunded, Releasable, EscrowInv
  <2>2. CASE ~Releasable(o)
    BY <1>26, <2>2, LedgerStutters DEF AutoCompleteOrder, ReleaseIfFunded
  <2> QED  BY <2>1, <2>2
<1>27. ASSUME NEW w \in Workers, SweepEnd(w)
       PROVE  Ledger!LedgerNext \/ UNCHANGED Ledger!ledgerVars
  BY <1>27, LedgerStutters DEF SweepEnd
<1>28. ASSUME NEW o \in Orders, TimePasses(o)
       PROVE  Ledger!LedgerNext \/ UNCHANGED Ledger!ledgerVars
  BY <1>28, LedgerStutters DEF TimePasses
<1>29. ASSUME NEW s \in Sessions, Rollback(s)
       PROVE  Ledger!LedgerNext \/ UNCHANGED Ledger!ledgerVars
  BY <1>29, LedgerStutters DEF Rollback
<1>30. CASE UNCHANGED vars
  BY <1>30, LedgerStutters DEF vars
<1> QED
  BY <1>1, <1>3, <1>4, <1>5, <1>6, <1>7, <1>8, <1>9, <1>10, <1>11,
     <1>12, <1>13, <1>14, <1>15, <1>16, <1>17, <1>18, <1>19, <1>20, <1>21,
     <1>22, <1>23, <1>24, <1>25, <1>26, <1>27, <1>28, <1>29, <1>30
     DEF Next, PaymentStep, ClientStep, FreelancerStep, AdminStep, Sweep,
         Resolving, StartsFrom, Sessions

\* Callbacks, handlers, resolutions and sweeps together only do what the
\* abstract ledger allows: book in once, and again only after a failure
\* redirect reopened the payment, and book out no more often than in.
THEOREM LedgerImplemented == Spec => ImplementsLedger
<1>1. Init => Ledger!LedgerInit
  BY DEF Init, Ledger!LedgerInit
<1> QED  BY <1>1, LedgerRefines, Invariance, PTL
         DEF Spec, ImplementsLedger, Ledger!LedgerSpec
============================================================================
