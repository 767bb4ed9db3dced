---------------------------- MODULE BuyerRequests ----------------------------
(***************************************************************************)
(* A client's buyer requests and the offers freelancers send for them.     *)
(*                                                                         *)
(* Nothing here takes an explicit lock: a handler loads rows, tests them   *)
(* and at its commit writes, by primary key, the columns it changed.  Only *)
(* the rejection of the other offers and the nightly expiry are UPDATEs    *)
(* with a condition.  Each freelancer and the client has a request in      *)
(* flight; an UPDATE waits for the row until the other request commits,    *)
(* which is why a flush and its commit are one step here.                  *)
(***************************************************************************)
EXTENDS Naturals, FiniteSets

CONSTANTS
    BuyerReqs,          \* buyer_requests rows the client may create
    Bidders,            \* freelancers
    Offers,             \* buyer_request_offers rows that may be inserted
    ClientCalls,        \* requests of the client in flight
    BidderCalls,        \* requests of freelancers in flight
    NoBid,
    MaxOpen,            \* MAX_ACTIVE_REQUESTS_PER_CLIENT
    MaxOffers           \* MAX_OFFERS_PER_REQUEST

ASSUME BuyerRequestsAssumption ==
    /\ IsFiniteSet(BuyerReqs) /\ IsFiniteSet(Offers)
    /\ IsFiniteSet(ClientCalls) /\ IsFiniteSet(BidderCalls)
    /\ MaxOpen \in Nat \ {0} /\ MaxOffers \in Nat \ {0}
    /\ NoBid \notin BuyerReqs \cup Offers \cup Bidders

VARIABLES
    buyerReq,       \* status of each buyer request; "none": no row
    overdue,        \* expires_at is in the past
    offer,          \* offers
    clientCall,     \* what each request of the client has in hand
    sending             \* what each request of a freelancer has in hand

requestVars == <<buyerReq, overdue, offer, clientCall, sending>>

BuyerRequestStatus == {"open", "filled", "expired", "cancelled"}

OfferStatus == {"pending", "accepted", "rejected"}

Offer == [status : OfferStatus \cup {"none"}, of : BuyerReqs \cup {NoBid},
          from : Bidders \cup {NoBid}]

NoOffer == [status |-> "none", of |-> NoBid, from |-> NoBid]

ClientCall == [op : {"idle", "create", "cancel", "accept", "reject"},
               req : BuyerReqs \cup {NoBid}, offer : Offers \cup {NoBid}]

NoClientCall == [op |-> "idle", req |-> NoBid, offer |-> NoBid]

Sending == [from : Bidders \cup {NoBid}, req : BuyerReqs \cup {NoBid}]

NotSending == [from |-> NoBid, req |-> NoBid]

RequestsTypeOK ==
    /\ buyerReq \in [BuyerReqs -> BuyerRequestStatus \cup {"none"}]
    /\ overdue \in [BuyerReqs -> BOOLEAN]
    /\ offer \in [Offers -> Offer]
    /\ clientCall \in [ClientCalls -> ClientCall]
    /\ sending \in [BidderCalls -> Sending]

RequestsInit ==
    /\ buyerReq = [q \in BuyerReqs |-> "none"]
    /\ overdue = [q \in BuyerReqs |-> FALSE]
    /\ offer = [o \in Offers |-> NoOffer]
    /\ clientCall = [c \in ClientCalls |-> NoClientCall]
    /\ sending = [b \in BidderCalls |-> NotSending]

---------------------------------------------------------------------------
(* The client.                                                             *)

OpenRequests == {q \in BuyerReqs : buyerReq[q] = "open"}

ClientLoads(c, op, q, o) ==
    /\ clientCall[c] = NoClientCall
    /\ clientCall' = [clientCall EXCEPT ![c] = [op |-> op, req |-> q, offer |-> o]]
    /\ UNCHANGED <<buyerReq, overdue, offer, sending>>

ClientEnds(c) == clientCall' = [clientCall EXCEPT ![c] = NoClientCall]

\* The limit is tested on a count; the row is inserted later.
LoadCreate(c) ==
    /\ Cardinality(OpenRequests) < MaxOpen
    /\ ClientLoads(c, "create", NoBid, NoBid)

CreateRequest(c, q) ==
    /\ clientCall[c].op = "create"
    /\ buyerReq[q] = "none"
    /\ buyerReq' = [buyerReq EXCEPT ![q] = "open"]
    /\ ClientEnds(c)
    /\ UNCHANGED <<overdue, offer, sending>>

LoadCancel(c, q) ==
    /\ buyerReq[q] = "open"
    /\ ClientLoads(c, "cancel", q, NoBid)

CancelRequest(c) ==
    /\ clientCall[c].op = "cancel"
    /\ buyerReq' = [buyerReq EXCEPT ![clientCall[c].req] = "cancelled"]
    /\ ClientEnds(c)
    /\ UNCHANGED <<overdue, offer, sending>>

\* expires_at is not tested.
LoadAccept(c, q, o) ==
    /\ buyerReq[q] = "open"
    /\ offer[o].of = q /\ offer[o].status = "pending"
    /\ ClientLoads(c, "accept", q, o)

OtherOffers(q, o) ==
    {x \in Offers \ {o} : offer[x].of = q /\ offer[x].status = "pending"}

AcceptOffer(c) ==
    LET q == clientCall[c].req
        o == clientCall[c].offer
    IN  /\ clientCall[c].op = "accept"
        /\ buyerReq' = [buyerReq EXCEPT ![q] = "filled"]
        /\ offer' = [x \in Offers |->
                        IF x = o THEN [offer[x] EXCEPT !.status = "accepted"]
                        ELSE IF x \in OtherOffers(q, o)
                             THEN [offer[x] EXCEPT !.status = "rejected"]
                        ELSE offer[x]]
        /\ ClientEnds(c)
        /\ UNCHANGED <<overdue, sending>>

\* In whatever status the request is.
LoadReject(c, o) ==
    /\ offer[o].status = "pending"
    /\ ClientLoads(c, "reject", offer[o].of, o)

RejectOffer(c) ==
    /\ clientCall[c].op = "reject"
    /\ offer' = [offer EXCEPT ![clientCall[c].offer].status = "rejected"]
    /\ ClientEnds(c)
    /\ UNCHANGED <<buyerReq, overdue, sending>>

ClientRollback(c) ==
    /\ clientCall[c] # NoClientCall
    /\ ClientEnds(c)
    /\ UNCHANGED <<buyerReq, overdue, offer, sending>>

---------------------------------------------------------------------------
(* Freelancers.                                                            *)

Standing(q) == {o \in Offers : offer[o].of = q /\ offer[o].status # "rejected"}

SentBy(q, f) == {o \in Offers : offer[o].of = q /\ offer[o].from = f}

LoadOffer(b, f, q) ==
    /\ sending[b] = NotSending
    /\ buyerReq[q] = "open" /\ ~overdue[q]
    /\ Cardinality(Standing(q)) < MaxOffers
    /\ SentBy(q, f) = {}
    /\ sending' = [sending EXCEPT ![b] = [from |-> f, req |-> q]]
    /\ UNCHANGED <<buyerReq, overdue, offer, clientCall>>

\* No unique index: two requests of a freelancer insert two offers.
SendOffer(b, o) ==
    /\ sending[b] # NotSending
    /\ offer[o] = NoOffer
    /\ offer' = [offer EXCEPT ![o] = [status |-> "pending", of |-> sending[b].req,
                                      from |-> sending[b].from]]
    /\ sending' = [sending EXCEPT ![b] = NotSending]
    /\ UNCHANGED <<buyerReq, overdue, clientCall>>

SendingRollback(b) ==
    /\ sending[b] # NotSending
    /\ sending' = [sending EXCEPT ![b] = NotSending]
    /\ UNCHANGED <<buyerReq, overdue, offer, clientCall>>

---------------------------------------------------------------------------
(* Seven days, and the nightly task.                                       *)

SevenDaysPass(q) ==
    /\ buyerReq[q] # "none" /\ ~overdue[q]
    /\ overdue' = [overdue EXCEPT ![q] = TRUE]
    /\ UNCHANGED <<buyerReq, offer, clientCall, sending>>

\* Mutant: whatever the request's status.
MayExpire_Any(q) == buyerReq[q] # "none" /\ overdue[q]

MayExpire(q) == buyerReq[q] = "open" /\ overdue[q]

ExpireOldRequests ==
    /\ \E q \in BuyerReqs : MayExpire(q)
    /\ buyerReq' = [q \in BuyerReqs |->
                       IF MayExpire(q) THEN "expired" ELSE buyerReq[q]]
    /\ UNCHANGED <<overdue, offer, clientCall, sending>>

RequestsNext ==
    \/ \E c \in ClientCalls :
          \/ LoadCreate(c) \/ CancelRequest(c) \/ AcceptOffer(c)
          \/ RejectOffer(c) \/ ClientRollback(c)
          \/ \E q \in BuyerReqs : CreateRequest(c, q) \/ LoadCancel(c, q)
          \/ \E q \in BuyerReqs, o \in Offers : LoadAccept(c, q, o)
          \/ \E o \in Offers : LoadReject(c, o)
    \/ \E b \in BidderCalls :
          \/ \E f \in Bidders, q \in BuyerReqs : LoadOffer(b, f, q)
          \/ \E o \in Offers : SendOffer(b, o)
          \/ SendingRollback(b)
    \/ \E q \in BuyerReqs : SevenDaysPass(q)
    \/ ExpireOldRequests

RequestsSpec == RequestsInit /\ [][RequestsNext]_requestVars

---------------------------------------------------------------------------

Accepted(q) == {o \in Offers : offer[o].of = q /\ offer[o].status = "accepted"}

\* A deal is a deal, if the client has one request in flight at a time: a
\* request is filled exactly when one of its offers is accepted, and then by
\* that one alone, although freelancers send offers and the nightly task
\* expires the request while the acceptance is under way.
OneDeal ==
    Cardinality(ClientCalls) <= 1 =>
        \A q \in BuyerReqs :
            IF buyerReq[q] = "filled" THEN Cardinality(Accepted(q)) = 1
            ELSE Accepted(q) = {}

\* What a request in hand has read is still so, but for an expiry.
CallsHold ==
    Cardinality(ClientCalls) <= 1 =>
        \A c \in ClientCalls :
            LET k == clientCall[c] IN
            /\ k.op \in {"cancel", "accept"} => buyerReq[k.req] \in {"open", "expired"}
            /\ k.op \in {"accept", "reject"} =>
                  offer[k.offer].status = "pending" /\ offer[k.offer].of = k.req

\* The limits are tested before they are used up: they are exceeded by the
\* other requests in flight at most.
LimitsNearlyHold ==
    /\ Cardinality(OpenRequests)
         + Cardinality({c \in ClientCalls : clientCall[c].op = "create"})
           < MaxOpen + Cardinality(ClientCalls)
    /\ \A q \in BuyerReqs :
          Cardinality(Standing(q)) + Cardinality({b \in BidderCalls : sending[b].req = q})
            < MaxOffers + Cardinality(BidderCalls)

RequestsInv == RequestsTypeOK /\ OneDeal /\ CallsHold /\ LimitsNearlyHold
============================================================================
