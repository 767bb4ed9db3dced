--------------------------- MODULE PaymentGateway ---------------------------
(***************************************************************************)
(* The circuit breaker that the requests of one worker share when they ask *)
(* the payment gateway for a link (QiCardClient._circuit, and the one of   *)
(* ZainCashClient).  Its state is tested and changed under an asyncio      *)
(* lock, and the HTTP request runs outside it: a result may be recorded in *)
(* another state than the one that admitted the request.                   *)
(*                                                                         *)
(* Left out: the retry decorator, which retries no error that create_      *)
(* payment raises, and the cache of links, which no caller can hit because *)
(* each of them uses a new order id.                                       *)
(***************************************************************************)
EXTENDS Naturals, FiniteSets

CONSTANTS
    PayCalls,           \* requests of the worker that may be in flight
    FailureThreshold,
    SuccessThreshold

ASSUME GatewayAssumption ==
    /\ IsFiniteSet(PayCalls)
    /\ FailureThreshold \in Nat \ {0} /\ SuccessThreshold \in Nat \ {0}

VARIABLES
    circuit,        \* _state
    failureCount,   \* _failure_count, up to the threshold
    successCount,   \* _success_count
    recovered,      \* recovery_timeout has passed since _opened_at
    payCall,        \* whether each request waits for the gateway
    reachable,      \* the gateway answers
    wasted          \* history: failures since a success or an attempted reset

gatewayVars == <<circuit, failureCount, successCount, recovered, payCall,
                 reachable, wasted>>

MaxWasted == FailureThreshold + Cardinality(PayCalls)

GatewayTypeOK ==
    /\ circuit \in {"closed", "open", "half_open"}
    /\ failureCount \in 0 .. FailureThreshold
    /\ successCount \in 0 .. SuccessThreshold
    /\ recovered \in BOOLEAN
    /\ payCall \in [PayCalls -> {"idle", "running"}]
    /\ reachable \in BOOLEAN
    /\ wasted \in 0 .. MaxWasted

GatewayInit ==
    /\ circuit = "closed"
    /\ failureCount = 0
    /\ successCount = 0
    /\ recovered = FALSE
    /\ payCall = [c \in PayCalls |-> "idle"]
    /\ reachable = TRUE
    /\ wasted = 0

---------------------------------------------------------------------------

Capped(n, top) == IF n > top THEN top ELSE n

\* Mutant: a call in HALF_OPEN starts the count of successes again.
AttemptsReset_HalfOpen == circuit # "closed" /\ recovered

\* _maybe_attempt_reset
AttemptsReset == circuit = "open" /\ recovered

\* An open circuit refuses the call, which changes nothing.
BeginCall(c) ==
    /\ payCall[c] = "idle"
    /\ circuit = "open" => recovered
    /\ IF AttemptsReset
       THEN circuit' = "half_open" /\ successCount' = 0 /\ wasted' = 0
       ELSE UNCHANGED <<circuit, successCount, wasted>>
    /\ payCall' = [payCall EXCEPT ![c] = "running"]
    /\ UNCHANGED <<failureCount, recovered, reachable>>

\* The failure that is being recorded is the one that opens the circuit.
Trips ==
    \/ circuit = "half_open"
    \/ circuit = "closed" /\ failureCount + 1 >= FailureThreshold

\* httpx.RequestError: _on_failure, _trip.
CallFails(c) ==
    /\ payCall[c] = "running"
    /\ ~reachable
    /\ payCall' = [payCall EXCEPT ![c] = "idle"]
    /\ failureCount' = Capped(failureCount + 1, FailureThreshold)
    /\ successCount' = 0
    /\ wasted' = Capped(wasted + 1, MaxWasted)
    /\ IF Trips THEN circuit' = "open" /\ recovered' = FALSE
       ELSE UNCHANGED <<circuit, recovered>>
    /\ UNCHANGED reachable

\* Any answer, whatever its HTTP status: _on_success.
CallSucceeds(c) ==
    /\ payCall[c] = "running"
    /\ reachable
    /\ payCall' = [payCall EXCEPT ![c] = "idle"]
    /\ wasted' = 0
    /\ CASE circuit = "half_open" ->
               /\ successCount' = successCount + 1
               /\ IF successCount + 1 >= SuccessThreshold
                  THEN circuit' = "closed" /\ failureCount' = 0
                  ELSE UNCHANGED <<circuit, failureCount>>
         [] circuit = "closed" ->
               /\ failureCount' = 0
               /\ UNCHANGED <<circuit, successCount>>
         [] circuit = "open" -> UNCHANGED <<circuit, failureCount, successCount>>
    /\ UNCHANGED <<recovered, reachable>>

\* The buyer's connection closes: nothing is recorded.
CallCancelled(c) ==
    /\ payCall[c] = "running"
    /\ payCall' = [payCall EXCEPT ![c] = "idle"]
    /\ UNCHANGED <<circuit, failureCount, successCount, recovered, reachable, wasted>>

RecoveryTimePasses ==
    /\ circuit = "open" /\ ~recovered
    /\ recovered' = TRUE
    /\ UNCHANGED <<circuit, failureCount, successCount, payCall, reachable, wasted>>

GatewayFailsOrReturns ==
    /\ reachable' = ~reachable
    /\ UNCHANGED <<circuit, failureCount, successCount, recovered, payCall, wasted>>

GatewayNext ==
    \/ \E c \in PayCalls :
          BeginCall(c) \/ CallFails(c) \/ CallSucceeds(c) \/ CallCancelled(c)
    \/ RecoveryTimePasses
    \/ GatewayFailsOrReturns

GatewaySpec == GatewayInit /\ [][GatewayNext]_gatewayVars

\* Buyers keep asking for links, waiting for the gateway's answer often enough,
\* and time passes.
GatewayFairness ==
    /\ \A c \in PayCalls :
          WF_gatewayVars(BeginCall(c)) /\ SF_gatewayVars(CallSucceeds(c))
    /\ WF_gatewayVars(RecoveryTimePasses)

GatewayLiveSpec == GatewaySpec /\ GatewayFairness

---------------------------------------------------------------------------

\* What the breaker is for: an outage, or a probe into one, costs at most a
\* threshold of failures and the calls that were under way when it opened.
OutageBounded == wasted < MaxWasted

\* A closed circuit is below its threshold, and an open one has reached it
\* or has failed a probe.
GatewayInv ==
    /\ GatewayTypeOK
    /\ circuit = "closed" => failureCount < FailureThreshold
    /\ circuit # "closed" => failureCount = FailureThreshold
    /\ circuit = "half_open" => successCount < SuccessThreshold /\ recovered
    /\ OutageBounded

\* Once the gateway stays reachable, the circuit closes and stays closed, if
\* buyers keep asking for links and some of them wait for the answer.
Recovers == <>[]reachable => <>[](circuit = "closed")
============================================================================
