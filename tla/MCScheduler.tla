---------------------------- MODULE MCScheduler ----------------------------
(***************************************************************************)
(* Small instances of what the rest of the program rests on: Scheduler,    *)
(* RateLimiter, PaymentGateway and ClientSession.  They share no state: a  *)
(* behaviour runs one of them, chosen at the start, and the others stand   *)
(* still.  A scheduler that stands still is one with nothing due.          *)
(***************************************************************************)
EXTENDS Scheduler, RateLimiter, PaymentGateway, ClientSession

VARIABLE part

otherVars == <<rateVars, gatewayVars, clientVars>>

allVars == <<vars, otherVars, part>>

Parts == {"scheduler", "rates", "gateway", "client"}

NothingDue ==
    /\ lock = NoWorker /\ lastRun = "fresh"
    /\ pc = [w \in Workers |-> "waiting"] /\ current = [w \in Workers |-> FALSE]
    /\ overran = FALSE /\ crashes = 0

AllInit ==
    /\ part \in Parts
    /\ IF part = "scheduler" THEN Init ELSE NothingDue
    /\ RateInit /\ GatewayInit /\ ClientInit

SchedulerOnly == part = "scheduler" /\ UNCHANGED <<otherVars, part>>

RatesOnly ==
    part = "rates" /\ UNCHANGED <<vars, gatewayVars, clientVars, part>>

GatewayOnly ==
    part = "gateway" /\ UNCHANGED <<vars, rateVars, clientVars, part>>

ClientOnly ==
    part = "client" /\ UNCHANGED <<vars, rateVars, gatewayVars, part>>

AllNext ==
    \/ SchedulerOnly /\ Next
    \/ RatesOnly /\ RateNext
    \/ GatewayOnly /\ GatewayNext
    \/ ClientOnly /\ ClientNext

\* The fairness of each, while it is the one that runs.
AllFairness ==
    /\ \A w \in Workers : WF_vars(SchedulerOnly /\ Tick(w))
    /\ WF_vars(SchedulerOnly /\ LockExpires)
    /\ WF_vars(SchedulerOnly /\ IntervalPasses)
    /\ WF_rateVars(RatesOnly /\ TimeStep)
    /\ \A c \in PayCalls :
          /\ WF_gatewayVars(GatewayOnly /\ BeginCall(c))
          /\ SF_gatewayVars(GatewayOnly /\ CallSucceeds(c))
    /\ WF_gatewayVars(GatewayOnly /\ RecoveryTimePasses)
    /\ \A q \in Pages \X Asks :
          /\ WF_clientVars(ClientOnly /\ (Answered(q) \/ Unauthorized(q)))
          /\ WF_clientVars(ClientOnly /\ ClearSession(q))
    /\ \A p \in Posts :
          WF_clientVars(ClientOnly /\ (Arrive(p) \/ Refused(p) \/ RefreshLost(p)))

AllSpec == AllInit /\ [][AllNext]_allVars /\ AllFairness

\* The types and the auxiliary invariants of the smaller modules.
InfraInv == RateInv /\ GatewayInv /\ ClientInv
============================================================================
