----------------------------- MODULE RateLimiter -----------------------------
(***************************************************************************)
(* The rate limiter as one client and one tier of requests see it: a       *)
(* counter in Redis with a fixed window, and in every worker a list of     *)
(* recent requests that stands in when Redis does not answer.              *)
(*                                                                         *)
(* Time goes in steps; a window is a number of them.  Requests are         *)
(* recorded by their age.                                                  *)
(***************************************************************************)
EXTENDS Naturals, FiniteSets, Functions

CONSTANTS
    Servers,            \* workers
    Limit,              \* requests per window
    Window,             \* its length
    MaxFaults           \* bound on losses of the key, lists and replies

ASSUME RateAssumption ==
    /\ IsFiniteSet(Servers) /\ Limit \in Nat \ {0}
    /\ Window \in Nat \ {0} /\ MaxFaults \in Nat

VARIABLES
    counter,        \* the value of the key, up to one above the limit
    ttl,            \* what is left of its time; 0: no key
    answering,      \* Redis answers
    recent,         \* _fallback: requests of each age in each worker's list
    admitted,       \* history: requests of each age admitted by the counter
    admittedLocally,\* history: and by the lists
    keysLost,       \* history: how often Redis lost the key
    listsLost       \* history: how often a list was evicted

rateVars == <<counter, ttl, answering, recent, admitted, admittedLocally,
              keysLost, listsLost>>

Ages == 0 .. Window - 1

RateTypeOK ==
    /\ counter \in 0 .. Limit + 1
    /\ ttl \in 0 .. Window
    /\ answering \in BOOLEAN
    /\ recent \in [Servers -> [Ages -> 0 .. Limit]]
    /\ admitted \in [Ages -> Nat] /\ admittedLocally \in [Ages -> Nat]
    /\ keysLost \in Nat /\ listsLost \in Nat

Never == [a \in Ages |-> 0]

RateInit ==
    /\ counter = 0
    /\ ttl = 0
    /\ answering = TRUE
    /\ recent = [w \in Servers |-> Never]
    /\ admitted = Never
    /\ admittedLocally = Never
    /\ keysLost = 0
    /\ listsLost = 0

---------------------------------------------------------------------------

Total(byAge) == SumFunctionOnSet(byAge, Ages)

Faults == keysLost + listsLost

\* Mutant: EXPIRE without NX.
TimeLeft_Renewed == Window

\* EXPIRE NX: only the first request of a window sets the time.
TimeLeft == IF ttl = 0 THEN Window ELSE ttl

\* INCR and EXPIRE, in one transaction.
Count ==
    /\ counter' = IF counter > Limit THEN counter ELSE counter + 1
    /\ ttl' = TimeLeft

\* count <= limit, of the count after the increment.
Within == counter + 1 <= Limit

IsAllowed(w) ==
    /\ answering
    /\ Count
    /\ admitted' = IF Within THEN [admitted EXCEPT ![0] = @ + 1] ELSE admitted
    /\ UNCHANGED <<answering, recent, admittedLocally, keysLost, listsLost>>

\* The list has aged already: only its length counts.
Fallback(w) ==
    IF Total(recent[w]) < Limit
    THEN /\ recent' = [recent EXCEPT ![w][0] = @ + 1]
         /\ admittedLocally' = [admittedLocally EXCEPT ![0] = @ + 1]
    ELSE UNCHANGED <<recent, admittedLocally>>

IsAllowedLocally(w) ==
    /\ ~answering
    /\ Fallback(w)
    /\ UNCHANGED <<counter, ttl, answering, admitted, keysLost, listsLost>>

\* The transaction is executed, and its reply is lost.
IsAllowedReplyLost(w) ==
    /\ answering
    /\ Count
    /\ Fallback(w)
    /\ answering' = FALSE
    /\ UNCHANGED <<admitted, keysLost, listsLost>>

RedisAnswers == answering' = ~answering /\ UNCHANGED <<counter, ttl, recent,
                    admitted, admittedLocally, keysLost, listsLost>>

\* Redis restarts without the key.
KeyLost ==
    /\ Faults < MaxFaults
    /\ ttl > 0
    /\ counter' = 0 /\ ttl' = 0
    /\ keysLost' = keysLost + 1
    /\ UNCHANGED <<answering, recent, admitted, admittedLocally, listsLost>>

\* Above _MAX_FALLBACK_KEYS clients the oldest lists go, still in use or not; and
\* a worker that restarts loses them all.
CleanupFallback(w) ==
    /\ Faults < MaxFaults
    /\ Total(recent[w]) > 0
    /\ recent' = [recent EXCEPT ![w] = Never]
    /\ listsLost' = listsLost + 1
    /\ UNCHANGED <<counter, ttl, answering, admitted, admittedLocally, keysLost>>

Older(byAge) == [a \in Ages |-> IF a = 0 THEN 0 ELSE byAge[a - 1]]

TimeStep ==
    /\ ttl' = IF ttl = 0 THEN 0 ELSE ttl - 1
    /\ counter' = IF ttl <= 1 THEN 0 ELSE counter
    /\ recent' = [w \in Servers |-> Older(recent[w])]
    /\ admitted' = Older(admitted)
    /\ admittedLocally' = Older(admittedLocally)
    /\ UNCHANGED <<answering, keysLost, listsLost>>

RateNext ==
    \/ \E w \in Servers :
          \/ IsAllowed(w) \/ IsAllowedLocally(w) \/ IsAllowedReplyLost(w)
          \/ CleanupFallback(w)
    \/ RedisAnswers \/ KeyLost \/ TimeStep

RateSpec == RateInit /\ [][RateNext]_rateVars

RateLiveSpec == RateSpec /\ WF_rateVars(TimeStep)

---------------------------------------------------------------------------

\* In any stretch of time as long as a window, wherever it begins and however
\* Redis comes and goes, the counter admits at most two limits, and one more
\* for every time Redis lost it; the lists admit a limit for each worker, and
\* one more for every list that was evicted.
WindowBounded ==
    /\ Total(admitted) <= Limit * (2 + keysLost)
    /\ Total(admittedLocally) <= Limit * (Cardinality(Servers) + listsLost)

\* The key has a time to live, and the lists never hold more than the limit.
RateInv ==
    /\ RateTypeOK
    /\ counter > 0 <=> ttl > 0
    /\ \A w \in Servers : Total(recent[w]) <= Limit
    /\ WindowBounded

\* A client that was refused is admitted again, although it does not stop asking.
BlockedEnds == counter > Limit ~> counter <= Limit
============================================================================
