------------------------- MODULE Scheduler_proofs -------------------------
(* Mutual exclusion of the scheduled job for any number of workers and      *)
(* crashes, while no job has outlived the lock's TTL; and what the circuit  *)
(* breaker, the browser's session and the rate limiter promise, for every   *)
(* value of their constants.                                                *)
EXTENDS MCScheduler, Sums_proofs

\* A worker that holds the lock is the only one that does.
LEMMA OneHolder ==
  ASSUME LockOwned, ~overran, NEW v \in Workers, NEW w \in Workers, Holds(v), Holds(w)
  PROVE  v = w
  BY DEF LockOwned

\* While the lock is free nobody is between SET NX and DELETE.
LEMMA FreeMeansNobodyHolds ==
  ASSUME LockOwned, ~overran, lock = NoWorker, NEW w \in Workers
  PROVE  ~Holds(w)
  BY WorkerAssumption DEF LockOwned

\* Every step keeps the lock with its holder or lets a job outlive the TTL.
LEMMA Step == IInv /\ [Next]_vars => IInv'
<1> SUFFICES ASSUME IInv, [Next]_vars PROVE IInv'
  OBVIOUS
<1> USE DEF IInv, TypeOK, Locations
<1>1. ASSUME NEW w \in Workers, GetLastRun(w) PROVE IInv'
  BY <1>1 DEF GetLastRun, At, Go, LockOwned, Holds
<1>2. ASSUME NEW w \in Workers, SetLock(w) PROVE IInv'
  <2>1. CASE LockFree
    BY <1>2, <2>1, FreeMeansNobodyHolds
       DEF SetLock, LockFree, At, Go, LockOwned, Holds
  <2>2. CASE ~LockFree
    BY <1>2, <2>2 DEF SetLock, At, Go, LockOwned, Holds
  <2> QED
    BY <2>1, <2>2
<1>3. ASSUME NEW w \in Workers, RunnerReturns(w) PROVE IInv'
  BY <1>3 DEF RunnerReturns, At, Go, LockOwned, Holds
<1>4. ASSUME NEW w \in Workers, SetLastRun(w) PROVE IInv'
  BY <1>4 DEF SetLastRun, At, Go, LockOwned, Holds
<1>5. ASSUME NEW w \in Workers, DeleteLock(w) PROVE IInv'
  <2>1. ~overran => \A v \in Workers : Holds(v) => v = w
    BY <1>5, OneHolder DEF DeleteLock, At, Holds
  <2> QED
    BY <1>5, <2>1 DEF DeleteLock, Go, LockOwned, Holds
<1>6. ASSUME NEW w \in Workers, Crash(w) PROVE IInv'
  BY <1>6 DEF Crash, Go, LockOwned, Holds
<1>7. CASE LockExpires
  <2>1. ~overran' => ~overran /\ \A w \in Workers : ~Holds(w)
    BY <1>7 DEF LockExpires, Expires, LockOwned
  <2> QED
    BY <1>7, <2>1 DEF LockExpires, LockOwned, Holds
<1>8. CASE IntervalPasses
  BY <1>8 DEF IntervalPasses, LockOwned, Holds
<1>9. CASE UNCHANGED vars
  BY <1>9 DEF vars, LockOwned, Holds
<1> QED
  BY <1>1, <1>2, <1>3, <1>4, <1>5, <1>6, <1>7, <1>8, <1>9 DEF Next, Tick

LEMMA StartsOwned == Init => IInv
<1> SUFFICES ASSUME Init PROVE IInv
  OBVIOUS
<1>1. TypeOK
  BY DEF Init, TypeOK, Locations
<1>2. LockOwned
  BY DEF Init, LockOwned, Holds
<1> QED
  BY <1>1, <1>2 DEF IInv

\* The lock belongs to the worker that is using it, for any number of workers
\* and crashes, until a job outlives the TTL (the comment on _LOCK_TTL_SECONDS).
THEOREM Invariance == Spec => []IInv
  BY StartsOwned, Step, PTL DEF Spec

\* Until then two workers never run the job at once.
THEOREM NeverTwice == Spec => []MutualExclusion
<1>1. IInv => MutualExclusion
  BY OneHolder DEF IInv, MutualExclusion, Running, At, Holds
<1> QED
  BY <1>1, Invariance, PTL

---------------------------------------------------------------------------
(* The circuit breaker: what an outage costs.                              *)

UnderWay == {c \in PayCalls : payCall[c] = "running"}

\* Failures so far and those that the calls under way may still add; while the
\* circuit is closed, every one of them counts towards the threshold.
Costs ==
  /\ wasted + Cardinality(UnderWay) < MaxWasted
  /\ circuit = "closed" => wasted <= failureCount
  /\ circuit = "half_open" => wasted = 0

Breaker == GatewayInv /\ Costs

LEMMA UnderWayMoves ==
  ASSUME NEW c \in PayCalls, payCall \in [PayCalls -> {"idle", "running"}]
  PROVE  /\ Cardinality(UnderWay) \in Nat /\ Cardinality(UnderWay) <= Cardinality(PayCalls)
         /\ Cardinality(PayCalls) \in Nat
         /\ payCall[c] = "running" /\ payCall' = [payCall EXCEPT ![c] = "idle"] =>
               /\ Cardinality(UnderWay') = Cardinality(UnderWay) - 1
               /\ payCall' \in [PayCalls -> {"idle", "running"}]
         /\ payCall[c] = "idle" /\ payCall' = [payCall EXCEPT ![c] = "running"] =>
               /\ Cardinality(UnderWay') = Cardinality(UnderWay) + 1
               /\ Cardinality(UnderWay') <= Cardinality(PayCalls)
               /\ payCall' \in [PayCalls -> {"idle", "running"}]
<1>1. IsFiniteSet(PayCalls) /\ IsFiniteSet(UnderWay) /\ IsFiniteSet(UnderWay')
  BY GatewayAssumption, FS_Subset DEF UnderWay
<1>2. /\ UnderWay \subseteq PayCalls /\ UnderWay' \subseteq PayCalls
  BY DEF UnderWay
<1>3. /\ Cardinality(UnderWay) \in Nat /\ Cardinality(PayCalls) \in Nat
      /\ Cardinality(UnderWay) <= Cardinality(PayCalls)
      /\ Cardinality(UnderWay') <= Cardinality(PayCalls)
  BY <1>1, <1>2, FS_Subset, FS_CardinalityType
<1>4. ASSUME payCall[c] = "running", payCall' = [payCall EXCEPT ![c] = "idle"]
      PROVE  /\ Cardinality(UnderWay') = Cardinality(UnderWay) - 1
             /\ payCall' \in [PayCalls -> {"idle", "running"}]
  <2>1. UnderWay' = UnderWay \ {c} /\ c \in UnderWay
    BY <1>4 DEF UnderWay
  <2> QED
    BY <1>1, <1>4, <2>1, FS_RemoveElement
<1>5. ASSUME payCall[c] = "idle", payCall' = [payCall EXCEPT ![c] = "running"]
      PROVE  /\ Cardinality(UnderWay') = Cardinality(UnderWay) + 1
             /\ payCall' \in [PayCalls -> {"idle", "running"}]
  <2>1. UnderWay' = UnderWay \cup {c} /\ c \notin UnderWay
    BY <1>5 DEF UnderWay
  <2> QED
    BY <1>1, <1>5, <2>1, FS_AddElement
<1> QED
  BY <1>3, <1>4, <1>5

LEMMA BreakerStep == Breaker /\ [GatewayNext]_gatewayVars => Breaker'
<1> SUFFICES ASSUME Breaker, [GatewayNext]_gatewayVars PROVE Breaker'
  OBVIOUS
<1>0. /\ circuit \in {"closed", "open", "half_open"} /\ recovered \in BOOLEAN
      /\ payCall \in [PayCalls -> {"idle", "running"}] /\ reachable \in BOOLEAN
      /\ failureCount \in 0 .. FailureThreshold /\ successCount \in 0 .. SuccessThreshold
      /\ wasted \in 0 .. MaxWasted
  BY DEF Breaker, GatewayInv, GatewayTypeOK
<1>1. /\ FailureThreshold \in Nat \ {0} /\ SuccessThreshold \in Nat \ {0}
      /\ Cardinality(PayCalls) \in Nat /\ Cardinality(UnderWay) \in Nat
      /\ MaxWasted = FailureThreshold + Cardinality(PayCalls) /\ MaxWasted \in Nat
      /\ MaxWasted' = MaxWasted
  <2>1. Cardinality(PayCalls) \in Nat /\ Cardinality(UnderWay) \in Nat
    BY GatewayAssumption, FS_Subset, FS_CardinalityType DEF UnderWay
  <2> QED
    BY <2>1, GatewayAssumption DEF MaxWasted
<1>2. /\ circuit = "closed" => failureCount < FailureThreshold /\ wasted <= failureCount
      /\ circuit # "closed" => failureCount = FailureThreshold
      /\ circuit = "half_open" => successCount < SuccessThreshold /\ recovered /\ wasted = 0
      /\ wasted + Cardinality(UnderWay) < MaxWasted
  BY DEF Breaker, GatewayInv, Costs
<1> DEFINE F == FailureThreshold
           N == Cardinality(PayCalls)
           U == Cardinality(UnderWay)
<1>3. ASSUME NEW c \in PayCalls, BeginCall(c) PROVE Breaker'
  <2>1. /\ U' = U + 1 /\ U' <= N /\ payCall' \in [PayCalls -> {"idle", "running"}]
        /\ UNCHANGED <<failureCount, recovered, reachable>>
    BY <1>0, <1>3, UnderWayMoves DEF BeginCall
  <2>2. CASE AttemptsReset
    <3>1. circuit' = "half_open" /\ successCount' = 0 /\ wasted' = 0
          /\ circuit = "open" /\ recovered
      BY <1>3, <2>2 DEF BeginCall, AttemptsReset
    <3>2. Costs'
      BY <1>1, <2>1, <3>1 DEF Costs
    <3>3. GatewayTypeOK'
      BY <1>0, <1>1, <2>1, <3>1 DEF GatewayTypeOK
    <3> QED
      BY <1>1, <1>2, <2>1, <3>1, <3>2, <3>3 DEF Breaker, GatewayInv, OutageBounded
  <2>3. CASE ~AttemptsReset
    <3>1. /\ UNCHANGED <<circuit, successCount, wasted>> /\ circuit # "open"
      BY <1>3, <2>3 DEF BeginCall, AttemptsReset
    <3>2. Costs'
      BY <1>0, <1>1, <1>2, <2>1, <3>1 DEF Costs
    <3>3. GatewayTypeOK'
      BY <1>0, <1>1, <2>1, <3>1 DEF GatewayTypeOK
    <3> QED
      BY <1>0, <1>1, <1>2, <2>1, <3>1, <3>2, <3>3 DEF Breaker, GatewayInv, OutageBounded
  <2> QED
    BY <2>2, <2>3
<1>4. ASSUME NEW c \in PayCalls, CallFails(c) PROVE Breaker'
  <2>1. /\ U' = U - 1 /\ U <= N /\ payCall' \in [PayCalls -> {"idle", "running"}]
        /\ UNCHANGED reachable
    BY <1>0, <1>4, UnderWayMoves DEF CallFails
  <2>2. /\ failureCount' = IF failureCount + 1 > F THEN F ELSE failureCount + 1
        /\ successCount' = 0
        /\ wasted' = IF wasted + 1 > MaxWasted THEN MaxWasted ELSE wasted + 1
    BY <1>4 DEF CallFails, Capped
  <2>3. wasted' = wasted + 1 /\ U' \in Nat /\ wasted' + U' < MaxWasted
    <3>1. U >= 1
      <4>1. U' \in Nat
        BY GatewayAssumption, FS_Subset, FS_CardinalityType DEF UnderWay
      <4> QED
        BY <1>1, <2>1, <4>1
    <3> QED
      BY <1>0, <1>1, <1>2, <2>1, <2>2, <3>1
  <2>6. successCount' \in 0 .. SuccessThreshold /\ wasted' \in 0 .. MaxWasted'
    BY <1>0, <1>1, <2>2, <2>3
  <2>4. CASE Trips
    <3>1. circuit' = "open" /\ recovered' = FALSE
      BY <1>4, <2>4 DEF CallFails
    <3>2. failureCount' = F
      BY <1>0, <1>1, <1>2, <2>2, <2>4 DEF Trips
    <3>3. Costs'
      BY <1>1, <2>3, <3>1 DEF Costs
    <3>4. wasted' < MaxWasted' /\ failureCount' \in 0 .. F
      BY <1>1, <2>3, <2>6, <3>2
    <3>5. recovered' \in BOOLEAN /\ circuit' \in {"closed", "open", "half_open"}
      BY <3>1
    <3>6. GatewayTypeOK'
      BY <1>0, <2>1, <2>6, <3>4, <3>5 DEF GatewayTypeOK
    <3>7. GatewayInv'
      BY <3>1, <3>2, <3>4, <3>6 DEF GatewayInv, OutageBounded
    <3> QED
      BY <3>3, <3>7 DEF Breaker
  <2>5. CASE ~Trips
    <3>1. /\ UNCHANGED <<circuit, recovered>> /\ circuit # "half_open"
          /\ circuit = "closed" => ~(failureCount + 1 >= F)
      BY <1>4, <2>5 DEF CallFails, Trips
    <3>2. /\ circuit = "closed" => failureCount' = failureCount + 1 /\ failureCount' < F
          /\ circuit # "closed" => failureCount' = F
      BY <1>0, <1>1, <1>2, <2>2, <3>1
    <3>a. failureCount' \in 0 .. F
      BY <1>0, <1>1, <2>2
    <3>b. circuit = "closed" => wasted' <= failureCount'
      BY <1>0, <1>1, <1>2, <2>3, <3>2
    <3>3. Costs'
      BY <1>1, <2>3, <3>1, <3>b DEF Costs
    <3>4. wasted' < MaxWasted'
      BY <1>1, <2>3, <2>6
    <3>5. recovered' \in BOOLEAN /\ circuit' \in {"closed", "open", "half_open"}
      BY <1>0, <3>1
    <3>6. GatewayTypeOK'
      BY <1>0, <2>1, <2>6, <3>a, <3>5 DEF GatewayTypeOK
    <3>7. GatewayInv'
      BY <3>1, <3>2, <3>4, <3>6 DEF GatewayInv, OutageBounded
    <3> QED
      BY <3>3, <3>7 DEF Breaker
  <2> QED
    BY <2>4, <2>5
<1>5. ASSUME NEW c \in PayCalls, CallSucceeds(c) PROVE Breaker'
  <2>1. /\ U' = U - 1 /\ U <= N /\ payCall' \in [PayCalls -> {"idle", "running"}]
        /\ wasted' = 0 /\ UNCHANGED <<recovered, reachable>>
    BY <1>0, <1>5, UnderWayMoves DEF CallSucceeds
  <2>2. wasted' + U' < MaxWasted
    BY <1>1, <2>1
  <2>3. successCount \in Nat /\ SuccessThreshold \in Nat
    BY <1>0, <1>1
  <2>a. ASSUME circuit = "half_open"
        PROVE  /\ circuit' = "closed" => failureCount' < F
               /\ circuit' # "closed" => failureCount' = F
               /\ circuit' = "half_open" => successCount' < SuccessThreshold /\ recovered'
               /\ failureCount' \in 0 .. F /\ successCount' \in 0 .. SuccessThreshold
               /\ circuit' \in {"closed", "open", "half_open"}
    <3>1. /\ successCount' = successCount + 1
          /\ IF successCount + 1 >= SuccessThreshold
             THEN circuit' = "closed" /\ failureCount' = 0
             ELSE UNCHANGED <<circuit, failureCount>>
      BY <1>5, <2>a DEF CallSucceeds
    <3>2. /\ circuit' = "closed" => failureCount' < F
          /\ circuit' # "closed" => failureCount' = F
          /\ circuit' = "half_open" => successCount' < SuccessThreshold /\ recovered'
      BY <1>1, <1>2, <2>1, <2>3, <2>a, <3>1
    <3>3. /\ failureCount' \in 0 .. F /\ successCount' \in 0 .. SuccessThreshold
          /\ circuit' \in {"closed", "open", "half_open"}
      BY <1>0, <1>1, <1>2, <2>3, <2>a, <3>1
    <3> QED
      BY <3>2, <3>3
  <2>b. ASSUME circuit = "closed"
        PROVE  /\ circuit' = "closed" => failureCount' < F
               /\ circuit' # "closed" => failureCount' = F
               /\ circuit' = "half_open" => successCount' < SuccessThreshold /\ recovered'
               /\ failureCount' \in 0 .. F /\ successCount' \in 0 .. SuccessThreshold
               /\ circuit' \in {"closed", "open", "half_open"}
    <3>1. failureCount' = 0 /\ UNCHANGED <<circuit, successCount>>
      BY <1>5, <2>b DEF CallSucceeds
    <3> QED
      BY <1>0, <1>1, <1>2, <2>b, <3>1
  <2>c. ASSUME circuit = "open"
        PROVE  /\ circuit' = "closed" => failureCount' < F
               /\ circuit' # "closed" => failureCount' = F
               /\ circuit' = "half_open" => successCount' < SuccessThreshold /\ recovered'
               /\ failureCount' \in 0 .. F /\ successCount' \in 0 .. SuccessThreshold
               /\ circuit' \in {"closed", "open", "half_open"}
    <3>1. UNCHANGED <<circuit, failureCount, successCount>>
      BY <1>5, <2>c DEF CallSucceeds
    <3> QED
      BY <1>0, <1>1, <1>2, <2>c, <3>1
  <2>4. /\ circuit' = "closed" => failureCount' < F
        /\ circuit' # "closed" => failureCount' = F
        /\ circuit' = "half_open" => successCount' < SuccessThreshold /\ recovered'
        /\ failureCount' \in 0 .. F /\ successCount' \in 0 .. SuccessThreshold
        /\ circuit' \in {"closed", "open", "half_open"}
    BY <1>0, <2>a, <2>b, <2>c
  <2>5. Costs'
    BY <1>1, <2>1, <2>2, <2>4 DEF Costs
  <2>6. GatewayTypeOK'
    BY <1>0, <1>1, <2>1, <2>4 DEF GatewayTypeOK
  <2> QED
    BY <1>1, <2>1, <2>4, <2>5, <2>6 DEF Breaker, GatewayInv, OutageBounded
<1>6. ASSUME NEW c \in PayCalls, CallCancelled(c) PROVE Breaker'
  <2>1. /\ U' = U - 1 /\ payCall' \in [PayCalls -> {"idle", "running"}]
        /\ UNCHANGED <<circuit, failureCount, successCount, recovered, reachable, wasted>>
    BY <1>0, <1>6, UnderWayMoves DEF CallCancelled
  <2>2. Costs'
    BY <1>0, <1>1, <1>2, <2>1 DEF Costs
  <2>3. GatewayTypeOK'
    BY <1>0, <1>1, <2>1 DEF GatewayTypeOK
  <2> QED
    BY <1>0, <1>1, <2>1, <2>2, <2>3 DEF Breaker, GatewayInv, OutageBounded
<1>7. CASE RecoveryTimePasses
  <2>1. /\ circuit = "open" /\ recovered' = TRUE
        /\ UNCHANGED <<circuit, failureCount, successCount, payCall, reachable, wasted>>
    BY <1>7 DEF RecoveryTimePasses
  <2>2. GatewayTypeOK'
    BY <1>0, <1>1, <2>1 DEF GatewayTypeOK
  <2>3. Costs'
    BY <1>1, <1>2, <2>1 DEF Costs, UnderWay
  <2> QED
    BY <1>1, <2>1, <2>2, <2>3 DEF Breaker, GatewayInv, OutageBounded
<1>8. CASE GatewayFailsOrReturns
  <2>1. /\ reachable' \in BOOLEAN
        /\ UNCHANGED <<circuit, failureCount, successCount, payCall, recovered, wasted>>
    BY <1>0, <1>8 DEF GatewayFailsOrReturns
  <2>2. GatewayTypeOK'
    BY <1>0, <1>1, <2>1 DEF GatewayTypeOK
  <2>3. Costs'
    BY <1>1, <1>2, <2>1 DEF Costs, UnderWay
  <2> QED
    BY <1>1, <2>1, <2>2, <2>3 DEF Breaker, GatewayInv, OutageBounded
<1>9. CASE UNCHANGED gatewayVars
  BY <1>9 DEF gatewayVars, Breaker, GatewayInv, GatewayTypeOK, OutageBounded, Costs, UnderWay,
              MaxWasted
<1> QED
  BY <1>3, <1>4, <1>5, <1>6, <1>7, <1>8, <1>9 DEF GatewayNext

LEMMA BreakerStarts == GatewayInit => Breaker
<1> SUFFICES ASSUME GatewayInit PROVE Breaker
  OBVIOUS
<1>1. UnderWay = {} /\ Cardinality(PayCalls) \in Nat
  BY GatewayAssumption, FS_CardinalityType DEF GatewayInit, UnderWay
<1>2. Cardinality(UnderWay) = 0
  BY <1>1, FS_EmptySet
<1>3. /\ FailureThreshold \in Nat \ {0} /\ SuccessThreshold \in Nat \ {0}
      /\ MaxWasted = FailureThreshold + Cardinality(PayCalls)
  BY GatewayAssumption DEF MaxWasted
<1>4. GatewayTypeOK
  <2>1. failureCount = 0 /\ successCount = 0 /\ wasted = 0
    BY DEF GatewayInit
  <2>2. /\ failureCount \in 0 .. FailureThreshold /\ successCount \in 0 .. SuccessThreshold
        /\ wasted \in 0 .. MaxWasted
    BY <1>1, <1>3, <2>1
  <2>3. /\ circuit \in {"closed", "open", "half_open"}
        /\ payCall \in [PayCalls -> {"idle", "running"}]
    BY DEF GatewayInit
  <2>4. recovered \in BOOLEAN
    BY Zenon DEF GatewayInit
  <2>5. reachable \in BOOLEAN
    BY Zenon DEF GatewayInit
  <2> QED
    BY <2>2, <2>3, <2>4, <2>5 DEF GatewayTypeOK
<1>5. Costs
  BY <1>1, <1>2, <1>3 DEF GatewayInit, Costs
<1> QED
  BY <1>1, <1>3, <1>4, <1>5 DEF GatewayInit, Breaker, GatewayInv, OutageBounded

\* However many requests share the breaker and whichever state their results
\* are recorded in: an outage costs at most the threshold and the calls that
\* were under way.
THEOREM OutagesAreBounded == GatewaySpec => []OutageBounded
<1>1. Breaker => OutageBounded
  BY DEF Breaker, GatewayInv
<1> QED
  BY <1>1, BreakerStarts, BreakerStep, PTL DEF GatewaySpec

---------------------------------------------------------------------------
(* One browser's tabs.                                                     *)

\* A request that waits has a refresh to wait for.
NobodyWaitsForNothing ==
  \A q \in Pages \X Asks :
    ask[q].stage = "waiting" => post[<<q[1], "interceptor">>] # NoPost

\* Until something excuses it, the cookie is active, or the one that replaces
\* it is on its way.
Refreshable ==
  ~excused => \/ jar \in Alive
              \/ /\ jar \in Generations /\ generation[jar] = "fresh"
                 /\ \E p \in Posts : post[p].stage = "answered" /\ post[p].new \in Alive

Browser == ClientTypeOK /\ NobodyWaitsForNothing /\ Refreshable

LEMMA BrowserSuffices == Browser => ClientInv
<1> SUFFICES ASSUME Browser PROVE ClientInv
  OBVIOUS
<1>1. StaysSignedIn
  BY DEF Browser, Refreshable, StaysSignedIn, Accepts
<1> QED
  BY <1>1 DEF Browser, ClientInv, NobodyWaitsForNothing

LEMMA PostGoes ==
  ASSUME ClientTypeOK, NEW p \in Posts, NEW k \in Post, post' = [post EXCEPT ![p] = k]
  PROVE  /\ post' \in [Posts -> Post] /\ post'[p] = k
         /\ \A r \in Posts \ {p} : post'[r] = post[r]
<1>1. post \in [Posts -> Post]
  BY DEF ClientTypeOK
<1> QED
  BY <1>1

LEMMA AskGoes ==
  ASSUME ClientTypeOK, NEW q \in Pages \X Asks, NEW a \in Ask,
         ask' = [ask EXCEPT ![q] = a]
  PROVE  /\ ask' \in [Pages \X Asks -> Ask] /\ ask'[q] = a
         /\ \A r \in (Pages \X Asks) \ {q} : ask'[r] = ask[r]
<1>1. ask \in [Pages \X Asks -> Ask]
  BY DEF ClientTypeOK
<1> QED
  BY <1>1

\* A refresh that ends lets those who wait for it go on.
LEMMA ResumedAll ==
  ASSUME ClientTypeOK, NobodyWaitsForNothing, NEW p \in Posts,
         NEW stage \in {"sent", "clearing"},
         post' = [post EXCEPT ![p] = NoPost], ask' = Resumed(p, stage)
  PROVE  /\ post' \in [Posts -> Post] /\ ask' \in [Pages \X Asks -> Ask]
         /\ post'[p] = NoPost /\ \A r \in Posts \ {p} : post'[r] = post[r]
         /\ NobodyWaitsForNothing'
<1>1. NoPost \in Post
  BY DEF NoPost, Post
<1>2. /\ post' \in [Posts -> Post] /\ post'[p] = NoPost
      /\ \A r \in Posts \ {p} : post'[r] = post[r]
  BY <1>1, PostGoes
<1>3. ASSUME NEW q \in Pages \X Asks
      PROVE  /\ ask'[q] \in Ask
             /\ ask'[q].stage = "waiting" => /\ ask[q].stage = "waiting"
                                             /\ p # <<q[1], "interceptor">>
  <2>1. ask[q] \in Ask
    BY DEF ClientTypeOK
  <2>2. ask'[q] = IF p = <<q[1], "interceptor">> /\ ask[q].stage = "waiting"
                  THEN [ask[q] EXCEPT !.stage = stage] ELSE ask[q]
    BY DEF Resumed
  <2> DEFINE a == [ask[q] EXCEPT !.stage = stage]
  <2>3. a \in Ask /\ a.stage # "waiting"
    BY <2>1 DEF Ask
  <2> HIDE DEF a
  <2>4. \/ ask'[q] = a
        \/ ask'[q] = ask[q] /\ ~(p = <<q[1], "interceptor">> /\ ask[q].stage = "waiting")
    BY <2>2 DEF a
  <2> QED
    BY <2>1, <2>3, <2>4
<1>4. ask' \in [Pages \X Asks -> Ask]
  BY <1>3 DEF Resumed
<1>5. ASSUME NEW q \in Pages \X Asks, ask'[q].stage = "waiting"
      PROVE  post'[<<q[1], "interceptor">>] # NoPost
  <2>1. post[<<q[1], "interceptor">>] # NoPost /\ p # <<q[1], "interceptor">>
    BY <1>3, <1>5 DEF NobodyWaitsForNothing
  <2>2. <<q[1], "interceptor">> \in Posts
    BY DEF Posts
  <2> QED
    BY <1>2, <2>1, <2>2
<1> QED
  BY <1>2, <1>4, <1>5 DEF NobodyWaitsForNothing

\* A row that is active, and changes in the other rows.
LEMMA StillRefreshable ==
  ASSUME Refreshable, UNCHANGED <<generation, jar>>, ~excused' => ~excused,
         \A p \in Posts : post[p].stage = "answered" /\ post[p].new \in Alive =>
                            post'[p].stage = "answered" /\ post'[p].new = post[p].new
  PROVE  Refreshable'
  BY DEF Refreshable, Alive

LEMMA BrowserStep == Browser /\ [ClientNext]_clientVars => Browser'
<1> SUFFICES ASSUME Browser, [ClientNext]_clientVars PROVE Browser'
  OBVIOUS
<1>0. /\ ClientTypeOK /\ NobodyWaitsForNothing /\ Refreshable
      /\ generation \in [Generations -> {"free", "active", "fresh", "dead"}]
      /\ jar \in Generations \cup {NoGeneration} /\ post \in [Posts -> Post]
      /\ ask \in [Pages \X Asks -> Ask] /\ excused \in BOOLEAN
      /\ NoPost \in Post /\ NoAsk \in Ask /\ NoPost.stage = "none" /\ NoAsk.stage = "idle"
  BY DEF Browser, ClientTypeOK, NoPost, Post, NoAsk, Ask
<1>1. ASSUME NEW q \in Pages \X Asks, NEW a \in Ask, a.stage # "waiting",
             ask' = [ask EXCEPT ![q] = a], UNCHANGED post
      PROVE  ask' \in [Pages \X Asks -> Ask] /\ NobodyWaitsForNothing'
  <2>1. /\ ask' \in [Pages \X Asks -> Ask] /\ ask'[q] = a
        /\ \A r \in (Pages \X Asks) \ {q} : ask'[r] = ask[r]
    BY <1>0, <1>1, AskGoes
  <2> QED
    BY <1>0, <1>1, <2>1 DEF NobodyWaitsForNothing
<1>2. ASSUME NEW q \in Pages \X Asks, Send(q) \/ Answered(q) PROVE Browser'
  <2>1. PICK a \in Ask : a.stage # "waiting" /\ ask' = [ask EXCEPT ![q] = a]
    <3>1. CASE Send(q)
      <4> DEFINE a == [ask[q] EXCEPT !.stage = "sent"]
      <4>1. a \in Ask /\ a.stage = "sent"
        BY <1>0 DEF Ask
      <4>2. ask' = [ask EXCEPT ![q] = a]
        BY <3>1 DEF Send
      <4> QED
        BY <4>1, <4>2
    <3>2. CASE Answered(q)
      BY <1>0, <3>2 DEF Answered
    <3> QED
      BY <1>2, <3>1, <3>2
  <2>2. UNCHANGED <<generation, jar, post, excused>>
    BY <1>2 DEF Send, Answered
  <2>3. Refreshable'
    BY <1>0, <2>2, StillRefreshable
  <2> QED
    BY <1>0, <1>1, <2>1, <2>2, <2>3 DEF Browser, ClientTypeOK
<1>3. ASSUME NEW q \in Pages \X Asks, Unauthorized(q) PROVE Browser'
  <2> DEFINE p == <<q[1], "interceptor">>
  <2>1. p \in Posts
    BY DEF Posts
  <2>2. UNCHANGED <<generation, jar, excused>>
    BY <1>3 DEF Unauthorized
  <2>3. CASE MayRetry(q)
    <3> DEFINE a == [stage |-> "waiting", retried |-> TRUE]
               k == [NoPost EXCEPT !.stage = "sent", !.old = jar]
    <3>1. /\ ask' = [ask EXCEPT ![q] = a]
          /\ post' = IF post[p] = NoPost THEN [post EXCEPT ![p] = k] ELSE post
      BY <1>3, <2>3 DEF Unauthorized, SendRefresh
    <3>2. a \in Ask /\ k \in Post /\ k.stage = "sent" /\ k # NoPost
      BY <1>0 DEF Ask, Post
    <3> HIDE DEF a, k
    <3>3. /\ ask' \in [Pages \X Asks -> Ask] /\ ask'[q] = a
          /\ \A r \in (Pages \X Asks) \ {q} : ask'[r] = ask[r]
      BY <1>0, <3>1, <3>2, AskGoes
    <3>4. /\ post' \in [Posts -> Post] /\ post'[p] # NoPost
          /\ \A r \in Posts \ {p} : post'[r] = post[r]
          /\ post[p] # NoPost => post' = post
      <4>1. CASE post[p] = NoPost
        <5>1. post' = [post EXCEPT ![p] = k]
          BY <3>1, <4>1
        <5> QED
          BY <1>0, <2>1, <3>2, <4>1, <5>1, PostGoes
      <4>2. CASE post[p] # NoPost
        BY <1>0, <3>1, <4>2
      <4> QED
        BY <4>1, <4>2
    <3>5. NobodyWaitsForNothing'
      <4>1. ASSUME NEW r \in Pages \X Asks, ask'[r].stage = "waiting"
            PROVE  post'[<<r[1], "interceptor">>] # NoPost
        <5>1. <<r[1], "interceptor">> \in Posts
          BY DEF Posts
        <5>2. CASE <<r[1], "interceptor">> = p
          BY <3>4, <5>2
        <5>3. CASE <<r[1], "interceptor">> # p
          <6>1. r # q
            BY <5>3
          <6> QED
            BY <1>0, <3>3, <3>4, <4>1, <5>1, <5>3, <6>1 DEF NobodyWaitsForNothing
        <5> QED
          BY <5>2, <5>3
      <4> QED
        BY <4>1 DEF NobodyWaitsForNothing
    <3>6. \A r \in Posts : post[r].stage = "answered" => post'[r] = post[r]
      BY <1>0, <3>4
    <3>7. Refreshable'
      BY <1>0, <2>2, <3>6, StillRefreshable
    <3> QED
      BY <1>0, <2>2, <3>3, <3>4, <3>5, <3>7 DEF Browser, ClientTypeOK
  <2>4. CASE ~MayRetry(q)
    <3>1. ask' = [ask EXCEPT ![q] = NoAsk] /\ UNCHANGED post
      BY <1>3, <2>4 DEF Unauthorized
    <3>2. Refreshable'
      BY <1>0, <2>2, <3>1, StillRefreshable
    <3>3. ask' \in [Pages \X Asks -> Ask] /\ NobodyWaitsForNothing'
      BY <1>0, <1>1, <3>1
    <3> QED
      BY <1>0, <2>2, <3>1, <3>2, <3>3 DEF Browser, ClientTypeOK
  <2> QED
    BY <2>3, <2>4
<1>4. ASSUME NEW q \in Pages \X Asks, ClearSession(q) PROVE Browser'
  <2>1. /\ jar' = NoGeneration /\ excused' = (excused \/ Accepts(jar) # {})
        /\ ask' = [ask EXCEPT ![q] = NoAsk] /\ UNCHANGED <<generation, post>>
    BY <1>4 DEF ClearSession
  <2>2. excused'
    BY <1>0, <2>1 DEF Refreshable, Accepts
  <2>3. ask' \in [Pages \X Asks -> Ask] /\ NobodyWaitsForNothing'
    BY <1>0, <1>1, <2>1
  <2>4. excused' \in BOOLEAN
    BY <2>1
  <2>5. ClientTypeOK'
    BY <1>0, <2>1, <2>3, <2>4 DEF ClientTypeOK
  <2> QED
    BY <2>2, <2>3, <2>5 DEF Browser, Refreshable
\* A refresh that goes on, without an end.
<1>5. ASSUME NEW p \in Posts, NEW k \in Post, k # NoPost,
             post' = [post EXCEPT ![p] = k], UNCHANGED ask
      PROVE  /\ post' \in [Posts -> Post] /\ post'[p] = k
             /\ \A r \in Posts \ {p} : post'[r] = post[r]
             /\ NobodyWaitsForNothing'
  <2>1. /\ post' \in [Posts -> Post] /\ post'[p] = k
        /\ \A r \in Posts \ {p} : post'[r] = post[r]
    BY <1>0, <1>5, PostGoes
  <2>2. ASSUME NEW q \in Pages \X Asks, ask'[q].stage = "waiting"
        PROVE  post'[<<q[1], "interceptor">>] # NoPost
    <3>1. <<q[1], "interceptor">> \in Posts /\ post[<<q[1], "interceptor">>] # NoPost
      BY <1>0, <1>5, <2>2 DEF Posts, NobodyWaitsForNothing
    <3> QED
      BY <1>5, <2>1, <3>1
  <2> QED
    BY <2>1, <2>2 DEF NobodyWaitsForNothing
<1>6. ASSUME NEW t \in Pages, TimerFires(t) PROVE Browser'
  <2> DEFINE p == <<t, "timer">>
             k == [NoPost EXCEPT !.stage = "sent", !.old = jar]
  <2>1. /\ p \in Posts /\ post[p] = NoPost /\ post' = [post EXCEPT ![p] = k]
        /\ UNCHANGED <<generation, jar, ask, excused>>
    BY <1>6 DEF TimerFires, SendRefresh, Posts
  <2>2. k \in Post /\ k # NoPost
    BY <1>0 DEF Post
  <2> HIDE DEF k, p
  <2>3. /\ post' \in [Posts -> Post] /\ post'[p] = k
        /\ \A r \in Posts \ {p} : post'[r] = post[r]
        /\ NobodyWaitsForNothing'
    BY <1>5, <2>1, <2>2
  <2>4. \A r \in Posts : post[r].stage = "answered" => post'[r] = post[r]
    BY <1>0, <2>1, <2>3
  <2>5. Refreshable'
    BY <1>0, <2>1, <2>4, StillRefreshable
  <2> QED
    BY <1>0, <2>1, <2>3, <2>5 DEF Browser, ClientTypeOK
<1>7. ASSUME NEW p \in Posts, LoadRefresh(p) PROVE Browser'
  <2>1. /\ post[p].stage = "sent" /\ UNCHANGED <<generation, jar, ask, excused>>
        /\ \E g \in Accepts(post[p].old) :
              post' = [post EXCEPT ![p] = [post[p] EXCEPT !.stage = "loaded", !.old = g]]
    BY <1>7 DEF LoadRefresh
  <2>2. PICK g \in Generations :
          post' = [post EXCEPT ![p] = [post[p] EXCEPT !.stage = "loaded", !.old = g]]
    BY <2>1 DEF Accepts, Alive
  <2> DEFINE k == [post[p] EXCEPT !.stage = "loaded", !.old = g]
  <2>3. k \in Post /\ k.stage = "loaded"
    BY <1>0 DEF Post
  <2>4. post' = [post EXCEPT ![p] = k]
    BY <2>2
  <2> HIDE DEF k
  <2>5. /\ post' \in [Posts -> Post] /\ post'[p] = k
        /\ \A r \in Posts \ {p} : post'[r] = post[r]
        /\ NobodyWaitsForNothing'
    BY <1>0, <1>5, <2>1, <2>3, <2>4
  <2>6. \A r \in Posts : post[r].stage = "answered" => post'[r] = post[r]
    BY <2>1, <2>5
  <2>7. Refreshable'
    BY <1>0, <2>1, <2>6, StillRefreshable
  <2> QED
    BY <1>0, <2>1, <2>5, <2>7 DEF Browser, ClientTypeOK
<1>8. ASSUME NEW p \in Posts, NEW g \in Generations, Rotate(p, g) PROVE Browser'
  <2> DEFINE k == [post[p] EXCEPT !.stage = "answered", !.new = g]
  <2>1. /\ post[p].stage = "loaded" /\ generation[g] = "free"
        /\ post' = [post EXCEPT ![p] = k]
        /\ UNCHANGED <<jar, ask, excused>>
    BY <1>8 DEF Rotate
  <2>2. PICK old : old = post[p].old
    OBVIOUS
  <2>3. generation' = [generation EXCEPT ![old] = "fresh", ![g] = "active"]
    BY <1>8, <2>2 DEF Rotate
  <2>4. k \in Post /\ k.stage = "answered" /\ k.new = g
    BY <1>0 DEF Post
  <2> HIDE DEF k
  <2>5. /\ post' \in [Posts -> Post] /\ post'[p] = k
        /\ \A r \in Posts \ {p} : post'[r] = post[r]
        /\ NobodyWaitsForNothing'
    BY <1>0, <1>5, <2>1, <2>4
  <2>6. /\ generation' \in [Generations -> {"free", "active", "fresh", "dead"}]
        /\ generation'[g] = "active"
        /\ \A h \in Generations \ {g} : generation'[h] = IF h = old THEN "fresh"
                                                         ELSE generation[h]
    BY <1>0, <2>3
  <2>7. Refreshable'
    <3>1. post'[p].stage = "answered" /\ post'[p].new \in Alive'
      BY <2>4, <2>5, <2>6 DEF Alive
    <3>2. ASSUME ~excused
          PROVE  jar \in Generations /\ (jar \in Alive' \/ generation'[jar] = "fresh")
      <4>1. jar \in Generations /\ generation[jar] \in {"active", "fresh"}
        BY <1>0, <3>2 DEF Refreshable, Alive
      <4> QED
        BY <2>1, <2>6, <4>1 DEF Alive
    <3> QED
      BY <2>1, <3>1, <3>2 DEF Refreshable
  <2> QED
    BY <1>0, <2>1, <2>5, <2>6, <2>7 DEF Browser, ClientTypeOK
<1>9. ASSUME NEW p \in Posts, Arrive(p) PROVE Browser'
  <2>1. /\ jar' = post[p].new /\ excused' = (excused \/ post[p].new \notin Alive)
        /\ post' = [post EXCEPT ![p] = NoPost] /\ ask' = Resumed(p, "sent")
        /\ UNCHANGED generation
    BY <1>9 DEF Arrive
  <2>2. /\ post' \in [Posts -> Post] /\ ask' \in [Pages \X Asks -> Ask]
        /\ NobodyWaitsForNothing'
    BY <1>0, <2>1, ResumedAll
  <2>3. jar' \in Generations \cup {NoGeneration}
    BY <1>0, <2>1 DEF Post
  <2>4. excused' \in BOOLEAN
    BY <2>1
  <2>5. Refreshable'
    BY <2>1 DEF Refreshable, Alive
  <2> QED
    BY <1>0, <2>1, <2>2, <2>3, <2>4, <2>5 DEF Browser, ClientTypeOK
<1>10. ASSUME NEW p \in Posts, Refused(p) PROVE Browser'
  <2>1. /\ post[p].stage = "sent" /\ UNCHANGED <<generation, jar, excused>>
        /\ post' = [post EXCEPT ![p] = NoPost] /\ ask' = Resumed(p, "clearing")
    BY <1>10 DEF Refused
  <2>2. /\ post' \in [Posts -> Post] /\ ask' \in [Pages \X Asks -> Ask]
        /\ post'[p] = NoPost /\ \A r \in Posts \ {p} : post'[r] = post[r]
        /\ NobodyWaitsForNothing'
    BY <1>0, <2>1, ResumedAll
  <2>3. \A r \in Posts : post[r].stage = "answered" => post'[r] = post[r]
    BY <2>1, <2>2
  <2>4. Refreshable'
    BY <1>0, <2>1, <2>3, StillRefreshable
  <2> QED
    BY <1>0, <2>1, <2>2, <2>4 DEF Browser, ClientTypeOK
<1>11. ASSUME NEW p \in Posts, RefreshLost(p) PROVE Browser'
  <2>1. /\ UNCHANGED <<generation, jar>> /\ excused' = TRUE
        /\ post' = [post EXCEPT ![p] = NoPost] /\ ask' = Resumed(p, "clearing")
    BY <1>11 DEF RefreshLost
  <2>2. /\ post' \in [Posts -> Post] /\ ask' \in [Pages \X Asks -> Ask]
        /\ NobodyWaitsForNothing'
    BY <1>0, <2>1, ResumedAll
  <2>3. excused' \in BOOLEAN /\ Refreshable'
    BY <2>1 DEF Refreshable
  <2> QED
    BY <1>0, <2>1, <2>2, <2>3 DEF Browser, ClientTypeOK
<1>12. ASSUME generation' \in [Generations -> {"free", "active", "fresh", "dead"}],
              jar' \in Generations \cup {NoGeneration}, excused' \in BOOLEAN,
              UNCHANGED <<post, ask>>, Refreshable'
       PROVE  Browser'
  <2>1. NobodyWaitsForNothing'
    BY <1>0, <1>12 DEF NobodyWaitsForNothing
  <2> QED
    BY <1>0, <1>12, <2>1 DEF Browser, ClientTypeOK
<1>13. ASSUME NEW g \in Generations, Login(g) PROVE Browser'
  <2>1. /\ generation' = [generation EXCEPT ![g] = "active"] /\ jar' = g
        /\ excused' = FALSE /\ UNCHANGED <<post, ask>>
    BY <1>13 DEF Login
  <2>2. /\ generation' \in [Generations -> {"free", "active", "fresh", "dead"}]
        /\ generation'[g] = "active"
    BY <1>0, <2>1
  <2>3. Refreshable'
    BY <2>1, <2>2 DEF Refreshable, Alive
  <2>4. excused' \in BOOLEAN
    BY <2>1
  <2> QED
    BY <1>12, <2>1, <2>2, <2>3, <2>4
<1>14. ASSUME NEW g \in Generations, Expire(g) PROVE Browser'
  <2>1. /\ generation' = [generation EXCEPT ![g] = "free"] /\ jar # g
        /\ \A p \in Posts : g \notin {post[p].old, post[p].new}
        /\ UNCHANGED <<jar, post, ask, excused>>
    BY <1>14 DEF Expire
  <2>2. /\ generation' \in [Generations -> {"free", "active", "fresh", "dead"}]
        /\ \A h \in Generations \ {g} : generation'[h] = generation[h]
    BY <1>0, <2>1
  <2>3. Refreshable'
    <3>1. ASSUME NEW h \in Alive, h # g PROVE h \in Alive'
      BY <2>2, <3>1 DEF Alive
    <3>2. \A p \in Posts : post[p].new # g
      BY <2>1
    <3> QED
      BY <1>0, <2>1, <2>2, <3>1, <3>2 DEF Refreshable
  <2> QED
    BY <1>0, <1>12, <2>1, <2>2, <2>3
<1>15. CASE Logout
  <2>1. /\ jar' = NoGeneration /\ excused' = TRUE /\ UNCHANGED <<generation, post, ask>>
    BY <1>15 DEF Logout
  <2>2. excused' \in BOOLEAN /\ Refreshable'
    BY <2>1 DEF Refreshable
  <2> QED
    BY <1>0, <1>12, <2>1, <2>2
<1>16. CASE SessionsEnd
  <2>1. /\ generation' = [g \in Generations |->
                            IF g \in Alive THEN "dead" ELSE generation[g]]
        /\ excused' = TRUE /\ UNCHANGED <<jar, post, ask>>
    BY <1>16 DEF SessionsEnd
  <2>2. excused' \in BOOLEAN /\ Refreshable'
    BY <2>1 DEF Refreshable
  <2>3. generation' \in [Generations -> {"free", "active", "fresh", "dead"}]
    BY <1>0, <2>1
  <2> QED
    BY <1>0, <1>12, <2>1, <2>2, <2>3
<1>17. CASE GraceEnds
  <2>1. /\ \A p \in Posts : post[p] = NoPost
        /\ generation' = [g \in Generations |->
                            IF generation[g] = "fresh" THEN "dead" ELSE generation[g]]
        /\ UNCHANGED <<jar, post, ask, excused>>
    BY <1>17 DEF GraceEnds
  <2>2. generation' \in [Generations -> {"free", "active", "fresh", "dead"}]
    BY <1>0, <2>1
  <2>3. \A g \in Generations : generation[g] = "active" => generation'[g] = "active"
    BY <2>1
  <2>4. Refreshable'
    BY <1>0, <2>1, <2>3 DEF Refreshable, Alive
  <2> QED
    BY <1>0, <1>12, <2>1, <2>2, <2>4
<1>18. CASE UNCHANGED clientVars
  BY <1>18 DEF clientVars, Browser, ClientTypeOK, NobodyWaitsForNothing, Refreshable, Alive
<1> QED
  BY <1>2, <1>3, <1>4, <1>6, <1>7, <1>8, <1>9, <1>10, <1>11, <1>13, <1>14, <1>15, <1>16,
     <1>17, <1>18
     DEF ClientNext

LEMMA BrowserStarts == ClientInit => Browser
<1> SUFFICES ASSUME ClientInit PROVE Browser
  OBVIOUS
<1>1. NoPost \in Post /\ NoAsk \in Ask /\ NoAsk.stage = "idle"
  BY DEF NoPost, Post, NoAsk, Ask
<1>2. excused \in BOOLEAN
  BY Zenon DEF ClientInit
<1>3. ClientTypeOK
  BY <1>1, <1>2 DEF ClientInit, ClientTypeOK
<1> QED
  BY <1>1, <1>3 DEF ClientInit, Browser, NobodyWaitsForNothing, Refreshable

\* However the tabs' refreshes overlap, with any number of tabs and of requests
\* in each: nothing but what excuses it costs the browser its session.
THEOREM TabsStaySignedIn == ClientSpec => []StaysSignedIn
<1>1. Browser => StaysSignedIn
  BY BrowserSuffices DEF ClientInv
<1> QED
  BY <1>1, BrowserStarts, BrowserStep, PTL DEF ClientSpec

---------------------------------------------------------------------------
(* The rate limiter: what a window admits.                                 *)

\* The requests of age n and younger.
Since(f, n) == SumFunctionOnSet(f, 0 .. n)

Counts(f) == \A a \in Ages : f[a] \in Nat

LEMMA WindowFacts ==
  /\ Window \in Nat /\ Window - 1 \in Nat /\ 0 \in Ages /\ IsFiniteSet(Ages)
  /\ Ages = 0 .. Window - 1
  /\ \A n \in Ages : n \in Nat /\ 0 .. n \in SUBSET Ages /\ IsFiniteSet(0 .. n)
<1>1. Window \in Nat /\ Window - 1 \in Nat /\ 0 \in Ages
  BY RateAssumption DEF Ages
<1>2. IsFiniteSet(Ages)
  BY <1>1, FS_Interval DEF Ages
<1>3. \A n \in Ages : n \in Nat /\ 0 .. n \in SUBSET Ages
  BY <1>1 DEF Ages
<1> QED
  BY <1>1, <1>2, <1>3, FS_Subset DEF Ages

LEMMA SinceNat ==
  ASSUME NEW f, Counts(f), NEW n \in Ages
  PROVE  Since(f, n) \in Nat /\ Total(f) \in Nat /\ Since(f, n) <= Total(f)
<1>1. 0 .. n \in SUBSET Ages /\ IsFiniteSet(Ages) /\ IsFiniteSet(0 .. n)
  BY WindowFacts
<1>2. \A a \in 0 .. n : f[a] \in Nat
  BY <1>1 DEF Counts
<1> QED
  BY <1>1, <1>2, SumNat, SumGrows DEF Since, Total, Counts

LEMMA TotalIsSince == \A f : Total(f) = Since(f, Window - 1) /\ Window - 1 \in Ages
<1>1. Window \in Nat /\ Window >= 1
  BY RateAssumption
<1> QED
  BY <1>1 DEF Total, Since, Ages

\* The youngest, and one more age.
LEMMA SinceZero ==
  ASSUME NEW f, Counts(f)
  PROVE  Since(f, 0) = f[0]
<1>a. 0 .. 0 = {0}
  OBVIOUS
<1>b. IsFiniteSet({0})
  BY FS_Singleton
<1>c. f[0] \in Nat
  BY WindowFacts DEF Counts
<1>1. 0 .. 0 = {0} /\ f[0] \in Nat /\ IsFiniteSet({0})
  BY <1>a, <1>b, <1>c
<1>2. IntegersOn(f, {0}) /\ {0} \ {0} = {}
  BY <1>1 DEF IntegersOn
<1>3. SumFunctionOnSet(f, {0}) = SumFunctionOnSet(f, {0} \ {0}) + f[0]
  BY <1>1, <1>2, SumSplit
<1> QED
  BY <1>1, <1>2, <1>3, SumEmpty DEF Since

LEMMA SinceNext ==
  ASSUME NEW f, Counts(f), NEW n \in Ages, n + 1 \in Ages
  PROVE  Since(f, n + 1) = Since(f, n) + f[n + 1]
<1>1. n \in Nat /\ IsFiniteSet(0 .. n + 1) /\ 0 .. n + 1 \in SUBSET Ages
  BY WindowFacts
<1>2. n + 1 \in 0 .. n + 1 /\ (0 .. n + 1) \ {n + 1} = 0 .. n
  BY <1>1
<1>3. IntegersOn(f, 0 .. n + 1)
  BY <1>1 DEF IntegersOn, Counts
<1> QED
  BY <1>1, <1>2, <1>3, SumSplit DEF Since

LEMMA YoungestFirst ==
  ASSUME NEW f, Counts(f), NEW n \in Ages
  PROVE  f[0] <= Since(f, n)
<1> DEFINE S == 0 .. n
<1>1. IsFiniteSet(S) /\ S \in SUBSET Ages /\ {0} \in SUBSET S
  BY WindowFacts
<1> HIDE DEF S
<1>2. SumFunctionOnSet(f, {0}) <= SumFunctionOnSet(f, S)
  BY <1>1, SumGrows DEF Counts
<1>3. SumFunctionOnSet(f, {0}) = f[0]
  <2>1. 0 .. 0 = {0}
    OBVIOUS
  <2>2. SumFunctionOnSet(f, 0 .. 0) = f[0]
    BY SinceZero DEF Since
  <2> QED
    BY <2>1, <2>2
<1> QED
  BY <1>2, <1>3 DEF Since, S

\* Time passes: what was younger than n is younger than n + 1.
LEMMA OlderCounts ==
  ASSUME NEW f, Counts(f)
  PROVE  Counts(Older(f)) /\ Older(f)[0] = 0
         /\ \A n \in Ages : n + 1 \in Ages => Older(f)[n + 1] = f[n]
<1>1. \A a \in Ages : a # 0 => a - 1 \in Ages
  BY WindowFacts
<1>2. \A a \in Ages : Older(f)[a] = IF a = 0 THEN 0 ELSE f[a - 1]
  BY DEF Older
<1>3. \A n \in Ages : n + 1 # 0 /\ (n + 1) - 1 = n
  BY WindowFacts
<1>4. 0 \in Ages
  BY WindowFacts
<1> QED
  BY <1>1, <1>2, <1>3, <1>4 DEF Counts

LEMMA Shift ==
  ASSUME NEW f, Counts(f)
  PROVE  /\ Since(Older(f), 0) = 0
         /\ \A n \in Ages : n + 1 \in Ages => Since(Older(f), n + 1) = Since(f, n)
<1> DEFINE N == {n \in Nat : n + 1 \in Ages => Since(Older(f), n + 1) = Since(f, n)}
<1>1. /\ Counts(Older(f)) /\ Older(f)[0] = 0
      /\ \A n \in Ages : n + 1 \in Ages => Older(f)[n + 1] = f[n]
  BY OlderCounts
<1>2. Since(Older(f), 0) = 0
  BY <1>1, SinceZero
<1>3. ASSUME NEW n \in Nat, n + 1 \in Ages
      PROVE  /\ n \in Ages /\ Since(Older(f), n) \in Nat /\ f[n] \in Nat
             /\ Since(Older(f), n + 1) = Since(Older(f), n) + f[n]
  <2>1. n \in Ages
    BY <1>3, WindowFacts
  <2> QED
    BY <1>1, <1>3, <2>1, SinceNext, SinceNat DEF Counts
<1>4. 0 \in N
  <2>1. ASSUME 0 + 1 \in Ages PROVE Since(Older(f), 0 + 1) = Since(f, 0)
    <3>1. Since(Older(f), 0 + 1) = Since(Older(f), 0) + f[0] /\ f[0] \in Nat
      BY <1>3, <2>1
    <3> QED
      BY <1>2, <3>1, SinceZero
  <2> QED
    BY <2>1
<1>5. ASSUME NEW n \in N PROVE n + 1 \in N
  <2>1. ASSUME (n + 1) + 1 \in Ages PROVE Since(Older(f), (n + 1) + 1) = Since(f, n + 1)
    <3>1. /\ n + 1 \in Ages /\ n + 1 \in Nat
          /\ Since(Older(f), (n + 1) + 1) = Since(Older(f), n + 1) + f[n + 1]
      BY <1>3, <2>1
    <3>2. n \in Ages /\ Since(Older(f), n + 1) = Since(f, n)
      BY <1>3, <1>5, <3>1
    <3>3. Since(f, n + 1) = Since(f, n) + f[n + 1]
      BY <3>1, <3>2, SinceNext
    <3> QED
      BY <3>1, <3>2, <3>3
  <2> QED
    BY <2>1
<1>6. N = Nat
  <2>1. N \in SUBSET Nat
    OBVIOUS
  <2> HIDE DEF N
  <2> QED
    BY <1>4, <1>5, <2>1, EveryNumber
<1>7. ASSUME NEW n \in Ages, n + 1 \in Ages PROVE Since(Older(f), n + 1) = Since(f, n)
  <2>1. n \in N
    BY <1>6, WindowFacts
  <2> QED
    BY <1>7, <2>1
<1> QED
  BY <1>2, <1>7

\* So nothing is added.
LEMMA OlderIsLess ==
  ASSUME NEW f, Counts(f)
  PROVE  Total(Older(f)) <= Total(f) /\ Total(Older(f)) \in Nat /\ Total(f) \in Nat
<1>1. Counts(Older(f)) /\ Window - 1 \in Ages /\ Window \in Nat
  BY OlderCounts, TotalIsSince, WindowFacts
<1>2. /\ Total(f) \in Nat /\ Total(Older(f)) \in Nat
      /\ \A n \in Ages : Since(f, n) <= Total(f) /\ Since(f, n) \in Nat
  BY <1>1, SinceNat
<1>3. CASE Window = 1
  <2>1. Total(Older(f)) = Since(Older(f), 0)
    BY <1>3, TotalIsSince
  <2>2. Total(Older(f)) = 0
    BY <2>1, Shift
  <2> QED
    BY <1>2, <2>2
<1>4. CASE Window # 1
  <2>1. Window - 2 \in Ages /\ (Window - 2) + 1 = Window - 1
    BY <1>1, <1>4, WindowFacts DEF Ages
  <2>a. Since(Older(f), (Window - 2) + 1) = Since(f, Window - 2)
    BY <1>1, <2>1, Shift
  <2>b. Total(Older(f)) = Since(Older(f), Window - 1)
    BY TotalIsSince
  <2>2. Total(Older(f)) = Since(f, Window - 2)
    BY <2>a, <2>b, <2>1, Zenon
  <2> QED
    BY <1>2, <2>1, <2>2
<1> QED
  BY <1>3, <1>4

\* Another number of requests now.
LEMMA YoungestChanges ==
  ASSUME NEW f, Counts(f), NEW g, Counts(g),
         \A a \in Ages \ {0} : g[a] = f[a], NEW n \in Ages
  PROVE  Since(g, n) = Since(f, n) - f[0] + g[0]
<1> DEFINE S == 0 .. n
<1>1. IsFiniteSet(S) /\ S \in SUBSET Ages /\ 0 \in S
  BY WindowFacts
<1> HIDE DEF S
<1>2. IntegersOn(f, S) /\ IntegersOn(g, S)
  BY <1>1 DEF IntegersOn, Counts
<1>3. \A y \in S \ {0} : g[y] = f[y]
  BY <1>1
<1>4. SumFunctionOnSet(g, S) = SumFunctionOnSet(f, S) - f[0] + g[0]
  BY <1>1, <1>2, <1>3, SumChange
<1> QED
  BY <1>4 DEF Since, S

\* One more request now.
LEMMA OneMoreNow ==
  ASSUME NEW f \in [Ages -> Nat], NEW g, g = [f EXCEPT ![0] = @ + 1]
  PROVE  /\ g \in [Ages -> Nat] /\ Counts(f) /\ Counts(g) /\ g[0] = f[0] + 1
         /\ \A n \in Ages : Since(g, n) = Since(f, n) + 1
         /\ Total(g) = Total(f) + 1
<1>1. /\ g \in [Ages -> Nat] /\ Counts(f) /\ Counts(g) /\ g[0] = f[0] + 1
      /\ \A a \in Ages \ {0} : g[a] = f[a]
      /\ f[0] \in Nat
  <2>1. 0 \in Ages /\ f[0] \in Nat
    BY WindowFacts
  <2>2. f[0] + 1 \in Nat
    BY <2>1
  <2>3. g \in [Ages -> Nat] /\ g[0] = f[0] + 1 /\ \A a \in Ages \ {0} : g[a] = f[a]
    BY <2>1, <2>2
  <2>4. Counts(f)
    BY DEF Counts
  <2>5. Counts(g)
    BY <2>3 DEF Counts
  <2> QED
    BY <2>1, <2>3, <2>4, <2>5
<1>2. ASSUME NEW n \in Ages PROVE Since(g, n) = Since(f, n) + 1
  <2>1. Since(g, n) = Since(f, n) - f[0] + g[0]
    BY <1>1, YoungestChanges
  <2>2. Since(f, n) \in Nat
    BY <1>1, SinceNat
  <2> QED
    BY <1>1, <2>1, <2>2
<1> QED
  BY <1>1, <1>2, TotalIsSince

\* Requests of the window that is running: the counter, without the one that
\* was refused.
Used(c) == IF c > Limit THEN Limit ELSE c

\* What the counter admitted: a limit for every key that was lost, a limit in
\* the window before, and what this window has used.  Since this window began
\* the limit before does not count, and without a key nothing is used.
CounterCovers(c, t, adm, lost) ==
    /\ c \in 0 .. Limit + 1 /\ t \in 0 .. Window
    /\ adm \in [Ages -> Nat] /\ lost \in Nat
    /\ c > 0 <=> t > 0
    /\ t = 0 =>
          /\ Total(adm) <= Limit * lost + Limit
          /\ adm[0] <= Limit * lost
    /\ t > 0 =>
          /\ Total(adm) <= Limit * lost + Limit + Used(c)
          /\ Since(adm, Window - t) <= Limit * lost + Used(c)

\* One request counted, and admitted if that is within the limit.
LEMMA CounterCounts ==
  ASSUME NEW c, NEW t, NEW adm, NEW lost, CounterCovers(c, t, adm, lost),
         NEW d, d = IF c > Limit THEN c ELSE c + 1,
         NEW u, u = IF t = 0 THEN Window ELSE t,
         NEW more,
         more = adm \/ (c + 1 <= Limit /\ more = [adm EXCEPT ![0] = @ + 1])
  PROVE  CounterCovers(d, u, more, lost)
<1> DEFINE L == Limit * lost
<1>1. /\ Limit \in Nat /\ Limit >= 1 /\ Window \in Nat /\ Window >= 1
      /\ c \in Nat /\ c <= Limit + 1 /\ t \in Nat /\ t <= Window
      /\ L \in Nat /\ lost \in Nat /\ adm \in [Ages -> Nat]
  BY RateAssumption DEF CounterCovers
<1>2. /\ c > 0 <=> t > 0
      /\ t = 0 => Total(adm) <= L + Limit /\ adm[0] <= L
      /\ t > 0 => /\ Total(adm) <= L + Limit + Used(c)
                  /\ Since(adm, Window - t) <= L + Used(c)
  BY DEF CounterCovers
<1> HIDE DEF L
<1>3. d \in 0 .. Limit + 1 /\ u \in 0 .. Window /\ d > 0 /\ u > 0
  BY <1>1
<1>4. Counts(adm) /\ Window - u \in Ages /\ 0 \in Ages
  BY <1>1, <1>3 DEF Counts, Ages
<1>5. /\ Total(adm) \in Nat /\ Since(adm, Window - u) \in Nat
      /\ Since(adm, 0) = adm[0] /\ adm[0] \in Nat
  BY <1>1, <1>4, SinceNat, SinceZero
<1>6. Used(c) \in Nat /\ Used(d) \in Nat /\ Used(c) <= Used(d)
      /\ (c + 1 <= Limit => Used(d) = Used(c) + 1)
      /\ (t = 0 => Used(c) = 0 /\ Used(d) = 1)
  BY <1>1, <1>2 DEF Used
<1>7. /\ Total(adm) <= L + Limit + Used(c)
      /\ Since(adm, Window - u) <= L + Used(c)
  <2>1. CASE t = 0
    <3>1. u = Window /\ Window - u = 0
      BY <2>1, <1>1
    <3>2. Since(adm, Window - u) = adm[0]
      BY <3>1, <1>5
    <3> QED
      BY <1>1, <1>2, <1>5, <1>6, <2>1, <3>2
  <2>2. CASE t # 0
    BY <1>1, <1>2, <2>2
  <2> QED
    BY <2>1, <2>2
<1>8. /\ more \in [Ages -> Nat]
      /\ Total(more) <= L + Limit + Used(d)
      /\ Since(more, Window - u) <= L + Used(d)
  <2>1. CASE more = adm
    BY <1>1, <1>5, <1>6, <1>7, <2>1
  <2>2. CASE c + 1 <= Limit /\ more = [adm EXCEPT ![0] = @ + 1]
    <3>1. /\ more \in [Ages -> Nat] /\ Total(more) = Total(adm) + 1
          /\ Since(more, Window - u) = Since(adm, Window - u) + 1
      BY <1>1, <1>4, <2>2, OneMoreNow
    <3> QED
      BY <1>1, <1>5, <1>6, <1>7, <2>2, <3>1
  <2> QED
    BY <2>1, <2>2
<1> QED
  BY <1>1, <1>3, <1>8 DEF CounterCovers, L

\* The key is lost.
LEMMA CounterLost ==
  ASSUME NEW c, NEW t, NEW adm, NEW lost, CounterCovers(c, t, adm, lost), t > 0
  PROVE  CounterCovers(0, 0, adm, lost + 1)
<1> DEFINE L == Limit * lost
           M == Limit * (lost + 1)
<1>1. /\ Limit \in Nat /\ Window \in Nat /\ Window >= 1
      /\ c \in Nat /\ t \in Nat /\ t <= Window
      /\ L \in Nat /\ lost \in Nat /\ adm \in [Ages -> Nat]
      /\ M = L + Limit
  BY RateAssumption DEF CounterCovers
<1>2. /\ Total(adm) <= L + Limit + Used(c)
      /\ Since(adm, Window - t) <= L + Used(c)
  BY DEF CounterCovers
<1> HIDE DEF L, M
<1>3. Counts(adm) /\ Window - t \in Ages /\ 0 \in Ages
  BY <1>1 DEF Counts, Ages
<1>4. /\ Total(adm) \in Nat /\ Since(adm, Window - t) \in Nat
      /\ adm[0] \in Nat /\ adm[0] <= Since(adm, Window - t)
  BY <1>1, <1>3, SinceNat, YoungestFirst
<1>5. Used(c) \in Nat /\ Used(c) <= Limit
  BY <1>1 DEF Used
<1>6. Total(adm) <= M + Limit /\ adm[0] <= M
  BY <1>1, <1>2, <1>4, <1>5
<1>7. 0 \in 0 .. Limit + 1 /\ 0 \in 0 .. Window /\ lost + 1 \in Nat
  BY <1>1
<1> QED
  BY <1>1, <1>6, <1>7 DEF CounterCovers, M

\* Time passes, and the window may end.
LEMMA CounterAges ==
  ASSUME NEW c, NEW t, NEW adm, NEW lost, CounterCovers(c, t, adm, lost),
         NEW d, d = IF t <= 1 THEN 0 ELSE c,
         NEW u, u = IF t = 0 THEN 0 ELSE t - 1
  PROVE  CounterCovers(d, u, Older(adm), lost)
<1> DEFINE L == Limit * lost
           old == Older(adm)
<1>1. /\ Limit \in Nat /\ Window \in Nat /\ Window >= 1
      /\ c \in Nat /\ c <= Limit + 1 /\ t \in Nat /\ t <= Window
      /\ L \in Nat /\ lost \in Nat /\ adm \in [Ages -> Nat]
  BY RateAssumption DEF CounterCovers
<1>2. /\ c > 0 <=> t > 0
      /\ t = 0 => Total(adm) <= L + Limit /\ adm[0] <= L
      /\ t > 0 => /\ Total(adm) <= L + Limit + Used(c)
                  /\ Since(adm, Window - t) <= L + Used(c)
  BY DEF CounterCovers
<1>3. Counts(adm) /\ 0 \in Ages /\ Window - 1 \in Ages
  BY <1>1 DEF Counts, Ages
<1>4. /\ Counts(old) /\ old[0] = 0 /\ old \in [Ages -> Nat]
  <2>1. Counts(old) /\ old[0] = 0
    BY <1>3, OlderCounts
  <2> QED
    BY <2>1 DEF Older, Counts
<1>5. Total(old) <= Total(adm) /\ Total(old) \in Nat /\ Total(adm) \in Nat
  BY <1>3, OlderIsLess
<1>6. \A n \in Ages : n + 1 \in Ages => Since(old, n + 1) = Since(adm, n)
  BY <1>3, Shift
<1> HIDE DEF L, old
<1>7. Used(c) \in Nat /\ Used(c) <= Limit
  BY <1>1 DEF Used
<1>8. d \in 0 .. Limit + 1 /\ u \in 0 .. Window /\ (d > 0 <=> u > 0)
  BY <1>1, <1>2
<1>9. CASE t = 0
  <2>1. u = 0 /\ d = 0 /\ Total(old) <= L + Limit /\ old[0] <= L
    BY <1>1, <1>2, <1>4, <1>5, <1>9
  <2> QED
    BY <1>1, <1>4, <1>8, <2>1 DEF CounterCovers, L, old
<1>10. CASE t = 1
  <2>1. Since(adm, Window - 1) <= L + Limit
    BY <1>1, <1>2, <1>7, <1>10, <1>3, SinceNat
  <2>2. Total(adm) <= L + Limit
    BY <2>1, TotalIsSince
  <2>3. u = 0 /\ d = 0 /\ Total(old) <= L + Limit /\ old[0] <= L
    BY <1>1, <1>4, <1>5, <1>10, <2>2
  <2> QED
    BY <1>1, <1>4, <1>8, <2>3 DEF CounterCovers, L, old
<1>11. CASE t > 1
  <2>1. u = t - 1 /\ d = c /\ u > 0
    BY <1>1, <1>11
  <2>2. Total(old) <= L + Limit + Used(d)
    BY <1>1, <1>2, <1>5, <1>7, <1>11, <2>1
  <2>3. Window - t \in Ages /\ (Window - t) + 1 \in Ages
        /\ Window - u = (Window - t) + 1
    BY <1>1, <1>11, <2>1 DEF Ages
  <2>4. Since(old, (Window - t) + 1) = Since(adm, Window - t)
    BY <1>6, <2>3
  <2>5. Since(old, Window - u) = Since(adm, Window - t)
    BY <2>3, <2>4, Zenon
  <2>6. Since(old, Window - u) <= L + Used(d)
    <3>1. Since(adm, Window - t) <= L + Used(c)
      BY <1>1, <1>2, <1>11
    <3>2. d = c
      BY <2>1
    <3> QED
      BY <3>1, <3>2, <2>5, Zenon
  <2> QED
    BY <1>1, <1>4, <1>8, <2>1, <2>2, <2>6 DEF CounterCovers, L, old
<1> QED
  BY <1>1, <1>9, <1>10, <1>11

\* The counter's promise.
LEMMA CounterBound ==
  ASSUME NEW c, NEW t, NEW adm, NEW lost, CounterCovers(c, t, adm, lost)
  PROVE  Total(adm) <= Limit * (2 + lost)
<1> DEFINE L == Limit * lost
<1>1. /\ Limit \in Nat /\ Window \in Nat /\ L \in Nat /\ lost \in Nat
      /\ c \in Nat /\ t \in Nat /\ Counts(adm) /\ 0 \in Ages
      /\ Limit * (2 + lost) = L + Limit + Limit
  BY RateAssumption, WindowFacts DEF CounterCovers, Counts
<1>2. /\ t = 0 => Total(adm) <= L + Limit
      /\ t > 0 => Total(adm) <= L + Limit + Used(c)
  BY DEF CounterCovers
<1> HIDE DEF L
<1>3. Used(c) \in Nat /\ Used(c) <= Limit /\ Total(adm) \in Nat
  BY <1>1, SinceNat DEF Used
<1> QED
  BY <1>1, <1>2, <1>3

---------------------------------------------------------------------------
\* The requests of age n and younger in every worker's list.
Kept(rec, n) == SumFunctionOnSet([w \in Servers |-> Since(rec[w], n)], Servers)

\* What the lists admitted: what they still hold, and a limit for every list
\* that is gone.
ListsCover(rec, adm, lost) ==
    /\ rec \in [Servers -> [Ages -> 0 .. Limit]]
    /\ adm \in [Ages -> Nat] /\ lost \in Nat
    /\ \A w \in Servers : Total(rec[w]) <= Limit
    /\ \A n \in Ages : Since(adm, n) <= Limit * lost + Kept(rec, n)

LEMMA KeptFacts ==
  ASSUME NEW rec \in [Servers -> [Ages -> Nat]], NEW n \in Ages
  PROVE  /\ Kept(rec, n) \in Nat
         /\ \A w \in Servers : Since(rec[w], n) \in Nat
         /\ IntegersOn([w \in Servers |-> Since(rec[w], n)], Servers)
<1>1. \A w \in Servers : Since(rec[w], n) \in Nat
  BY SinceNat DEF Counts
<1>2. \A w \in Servers : [v \in Servers |-> Since(rec[v], n)][w] \in Nat
  BY <1>1
<1>3. IntegersOn([w \in Servers |-> Since(rec[w], n)], Servers)
  BY <1>2 DEF IntegersOn
<1> DEFINE f == [w \in Servers |-> Since(rec[w], n)]
<1>4. \A w \in Servers : f[w] \in Nat
  BY <1>2
<1>5. SumFunctionOnSet(f, Servers) \in Nat
  <2> HIDE DEF f
  <2> QED
    BY <1>4, SumNat, RateAssumption
<1> QED
  BY <1>1, <1>3, <1>5 DEF Kept

\* One list changes.
LEMMA KeptChanges ==
  ASSUME NEW rec \in [Servers -> [Ages -> Nat]],
         NEW new \in [Servers -> [Ages -> Nat]], NEW w \in Servers,
         \A v \in Servers \ {w} : new[v] = rec[v], NEW n \in Ages
  PROVE  Kept(new, n) = Kept(rec, n) - Since(rec[w], n) + Since(new[w], n)
<1> DEFINE f == [v \in Servers |-> Since(rec[v], n)]
           e == [v \in Servers |-> Since(new[v], n)]
<1>1. /\ IntegersOn(f, Servers) /\ IntegersOn(e, Servers)
      /\ \A v \in Servers \ {w} : e[v] = f[v]
      /\ f[w] = Since(rec[w], n) /\ e[w] = Since(new[w], n)
      /\ IsFiniteSet(Servers)
  BY KeptFacts, RateAssumption
<1>2. SumFunctionOnSet(e, Servers) = SumFunctionOnSet(f, Servers) - f[w] + e[w]
  <2> HIDE DEF f, e
  <2> QED
    BY <1>1, SumChange
<1> QED
  BY <1>1, <1>2 DEF Kept

\* Lists that agree up to some ages keep the same.
LEMMA KeptSame ==
  ASSUME NEW rec \in [Servers -> [Ages -> Nat]],
         NEW new \in [Servers -> [Ages -> Nat]], NEW n \in Ages, NEW m \in Ages,
         \A w \in Servers : Since(new[w], m) = Since(rec[w], n)
  PROVE  Kept(new, m) = Kept(rec, n)
<1>1. [w \in Servers |-> Since(new[w], m)] = [w \in Servers |-> Since(rec[w], n)]
  OBVIOUS
<1> QED
  BY <1>1 DEF Kept

LEMMA ListsTyped ==
  ASSUME NEW rec, NEW adm, NEW lost, ListsCover(rec, adm, lost)
  PROVE  /\ rec \in [Servers -> [Ages -> Nat]] /\ Counts(adm)
         /\ \A w \in Servers : Counts(rec[w])
         /\ Limit \in Nat /\ Limit * lost \in Nat
<1>1. \A w \in Servers : rec[w] \in [Ages -> 0 .. Limit]
  BY DEF ListsCover
<1>2. 0 .. Limit \in SUBSET Nat /\ Limit \in Nat
  BY RateAssumption
<1>3. rec \in [Servers -> [Ages -> Nat]]
  BY <1>1, <1>2 DEF ListsCover
<1> QED
  BY <1>2, <1>3 DEF ListsCover, Counts

\* No age has more than the whole.
LEMMA OneOfTotal ==
  ASSUME NEW f, Counts(f), NEW a \in Ages
  PROVE  f[a] <= Total(f)
<1>a. IsFiniteSet({a}) /\ IsFiniteSet(Ages)
  BY FS_Singleton, WindowFacts
<1>b. f[a] \in Nat
  BY DEF Counts
<1>1. /\ IsFiniteSet(Ages) /\ IsFiniteSet({a}) /\ {a} \in SUBSET Ages
      /\ {a} \ {a} = {} /\ a \in {a} /\ f[a] \in Int
  BY <1>a, <1>b
<1> DEFINE S == {a}
<1>2. IntegersOn(f, S)
  BY <1>1 DEF IntegersOn
<1>3. SumFunctionOnSet(f, S) = SumFunctionOnSet(f, S \ {a}) + f[a]
  <2>1. IsFiniteSet(S) /\ a \in S
    BY <1>1
  <2> HIDE DEF S
  <2> QED
    BY <1>2, <2>1, SumSplit
<1>4. SumFunctionOnSet(f, {a}) = f[a]
  BY <1>1, <1>3, SumEmpty
<1>5. SumFunctionOnSet(f, {a}) <= SumFunctionOnSet(f, Ages)
  BY <1>1, SumGrows DEF Counts
<1> QED
  BY <1>4, <1>5 DEF Total

\* The lists still cover what was admitted when one of them, and what was
\* admitted, have one more request of every age.
LEMMA BothGrow ==
  ASSUME NEW rec, NEW adm, NEW lost, ListsCover(rec, adm, lost),
         NEW w \in Servers, Total(rec[w]) < Limit,
         NEW new \in [Servers -> [Ages -> Nat]], NEW more \in [Ages -> Nat],
         \A v \in Servers \ {w} : new[v] = rec[v],
         Total(new[w]) = Total(rec[w]) + 1,
         \A n \in Ages : Since(new[w], n) = Since(rec[w], n) + 1,
         \A n \in Ages : Since(more, n) = Since(adm, n) + 1
  PROVE  ListsCover(new, more, lost)
<1> DEFINE L == Limit * lost
<1>1. /\ rec \in [Servers -> [Ages -> Nat]] /\ Counts(adm)
      /\ Limit \in Nat /\ L \in Nat
  BY ListsTyped
<1>2. /\ lost \in Nat /\ \A v \in Servers : Total(rec[v]) <= Limit
      /\ \A n \in Ages : Since(adm, n) <= L + Kept(rec, n)
  BY DEF ListsCover
<1> HIDE DEF L
<1>3. Total(rec[w]) \in Nat
  <2>1. Counts(rec[w]) /\ 0 \in Ages
    BY ListsTyped, WindowFacts
  <2> QED
    BY <2>1, SinceNat
<1>4. \A v \in Servers : Total(new[v]) <= Limit
  BY <1>1, <1>2, <1>3
<1>5. new \in [Servers -> [Ages -> 0 .. Limit]]
  <2>1. ASSUME NEW v \in Servers, NEW a \in Ages PROVE new[v][a] \in 0 .. Limit
    <3>1. Counts(new[v]) /\ new[v][a] \in Nat
      BY DEF Counts
    <3>2. new[v][a] <= Total(new[v]) /\ Total(new[v]) \in Nat
      BY <3>1, OneOfTotal, SinceNat
    <3> QED
      BY <1>1, <1>4, <3>1, <3>2
  <2> QED
    BY <2>1
<1>6. ASSUME NEW n \in Ages PROVE Since(more, n) <= L + Kept(new, n)
  <2>1. Kept(new, n) = Kept(rec, n) - Since(rec[w], n) + Since(new[w], n)
    BY <1>1, KeptChanges
  <2>2. Kept(rec, n) \in Nat /\ Since(rec[w], n) \in Nat
    BY <1>1, KeptFacts
  <2>3. Since(adm, n) \in Nat
    BY <1>1, SinceNat
  <2> QED
    BY <1>1, <1>2, <2>1, <2>2, <2>3
<1> QED
  BY <1>2, <1>4, <1>5, <1>6 DEF ListsCover, L

\* A list below the limit takes one more, and that is admitted.
LEMMA ListTakes ==
  ASSUME NEW rec, NEW adm, NEW lost, ListsCover(rec, adm, lost),
         NEW w \in Servers, Total(rec[w]) < Limit
  PROVE  ListsCover([rec EXCEPT ![w][0] = @ + 1], [adm EXCEPT ![0] = @ + 1], lost)
<1> DEFINE new == [rec EXCEPT ![w][0] = @ + 1]
           more == [adm EXCEPT ![0] = @ + 1]
<1>1. rec \in [Servers -> [Ages -> Nat]] /\ adm \in [Ages -> Nat]
  BY ListsTyped DEF ListsCover
<1>2. /\ more \in [Ages -> Nat]
      /\ \A n \in Ages : Since(more, n) = Since(adm, n) + 1
  BY <1>1, OneMoreNow
<1>3. rec[w] \in [Ages -> Nat] /\ 0 \in Ages
  BY <1>1, WindowFacts
<1>4. /\ new[w] = [rec[w] EXCEPT ![0] = @ + 1]
      /\ \A v \in Servers \ {w} : new[v] = rec[v]
  BY <1>1
<1>5. /\ new[w] \in [Ages -> Nat] /\ Total(new[w]) = Total(rec[w]) + 1
      /\ \A n \in Ages : Since(new[w], n) = Since(rec[w], n) + 1
  BY <1>3, <1>4, OneMoreNow
<1>6. new \in [Servers -> [Ages -> Nat]]
  BY <1>1, <1>3, <1>4, <1>5
<1> HIDE DEF new, more
<1>7. ListsCover(new, more, lost)
  BY <1>2, <1>4, <1>5, <1>6, BothGrow
<1> QED
  BY <1>7 DEF new, more

LEMMA NeverCounts ==
  /\ Never \in [Ages -> 0 .. Limit] /\ Never \in [Ages -> Nat] /\ Counts(Never)
  /\ Total(Never) = 0 /\ \A n \in Ages : Since(Never, n) = 0
<1>1. \A a \in Ages : Never[a] = 0
  BY DEF Never
<1>2. Never \in [Ages -> 0 .. Limit] /\ Never \in [Ages -> Nat] /\ Counts(Never)
  BY RateAssumption, <1>1 DEF Never, Counts
<1>3. ASSUME NEW n \in Ages PROVE Since(Never, n) = 0
  <2> DEFINE S == 0 .. n
  <2>1. IsFiniteSet(S) /\ S \in SUBSET Ages
    BY WindowFacts
  <2> HIDE DEF S
  <2>2. \A a \in S : Never[a] \in Nat /\ Never[a] <= 0
    BY <1>1, <2>1
  <2>3. SumFunctionOnSet(Never, S) <= Cardinality(S) * 0
    BY <2>1, <2>2, SumBounded
  <2>4. Cardinality(S) \in Nat
    BY <2>1, FS_CardinalityType
  <2>5. Since(Never, n) \in Nat
    BY <1>2, SinceNat
  <2> QED
    BY <2>3, <2>4, <2>5 DEF Since, S
<1> QED
  BY <1>2, <1>3, TotalIsSince

\* A list is gone.
LEMMA ListGoes ==
  ASSUME NEW rec, NEW adm, NEW lost, ListsCover(rec, adm, lost),
         NEW w \in Servers,
         NEW new \in [Servers -> [Ages -> Nat]], new[w] = Never,
         \A v \in Servers \ {w} : new[v] = rec[v]
  PROVE  ListsCover(new, adm, lost + 1)
<1> DEFINE L == Limit * lost
           M == Limit * (lost + 1)
<1>1. /\ rec \in [Servers -> [Ages -> Nat]] /\ Counts(adm)
      /\ Limit \in Nat /\ L \in Nat
  BY ListsTyped
<1>2. /\ lost \in Nat /\ \A v \in Servers : Total(rec[v]) <= Limit
      /\ adm \in [Ages -> Nat]
      /\ rec \in [Servers -> [Ages -> 0 .. Limit]]
      /\ \A n \in Ages : Since(adm, n) <= L + Kept(rec, n)
  BY DEF ListsCover
<1>3. M = L + Limit
  BY <1>1, <1>2
<1> HIDE DEF L, M
<1>4. \A v \in Servers : Total(new[v]) <= Limit
  BY <1>1, <1>2, NeverCounts
<1>5. new \in [Servers -> [Ages -> 0 .. Limit]]
  <2>1. ASSUME NEW v \in Servers PROVE new[v] \in [Ages -> 0 .. Limit]
    BY <1>2, NeverCounts
  <2> QED
    BY <2>1
<1>6. ASSUME NEW n \in Ages PROVE Since(adm, n) <= M + Kept(new, n)
  <2>1. Kept(new, n) = Kept(rec, n) - Since(rec[w], n) + Since(new[w], n)
    BY <1>1, KeptChanges
  <2>2. Kept(rec, n) \in Nat /\ Kept(new, n) \in Nat /\ Since(rec[w], n) \in Nat
    BY <1>1, KeptFacts
  <2>3. Since(adm, n) \in Nat /\ Since(new[w], n) = 0
    BY <1>1, SinceNat, NeverCounts
  <2>4. Since(rec[w], n) <= Total(rec[w]) /\ Total(rec[w]) \in Nat
        /\ Total(rec[w]) <= Limit
    BY <1>1, <1>2, SinceNat DEF Counts
  <2> QED
    BY <1>1, <1>2, <1>3, <2>1, <2>2, <2>3, <2>4
<1> QED
  BY <1>2, <1>4, <1>5, <1>6 DEF ListsCover, M

\* Time passes in every list.
LEMMA ListsAge ==
  ASSUME NEW rec, NEW adm, NEW lost, ListsCover(rec, adm, lost)
  PROVE  ListsCover([w \in Servers |-> Older(rec[w])], Older(adm), lost)
<1> DEFINE L == Limit * lost
           new == [w \in Servers |-> Older(rec[w])]
           old == Older(adm)
<1>1. /\ rec \in [Servers -> [Ages -> Nat]] /\ Counts(adm)
      /\ \A w \in Servers : Counts(rec[w])
      /\ Limit \in Nat /\ L \in Nat
  BY ListsTyped
<1>2. /\ lost \in Nat /\ \A w \in Servers : Total(rec[w]) <= Limit
      /\ rec \in [Servers -> [Ages -> 0 .. Limit]]
      /\ \A n \in Ages : Since(adm, n) <= L + Kept(rec, n)
  BY DEF ListsCover
<1>3. old \in [Ages -> Nat] /\ Counts(old)
  <2>1. Counts(old)
    BY <1>1, OlderCounts
  <2> QED
    BY <2>1 DEF Older, Counts
<1>4. \A w \in Servers : /\ new[w] = Older(rec[w]) /\ Counts(new[w])
                         /\ Total(new[w]) <= Total(rec[w])
                         /\ Total(new[w]) \in Nat /\ Total(rec[w]) \in Nat
  BY <1>1, OlderCounts, OlderIsLess
<1>5. \A w \in Servers : Total(new[w]) <= Limit
  BY <1>1, <1>2, <1>4
<1>6. new \in [Servers -> [Ages -> 0 .. Limit]]
  <2>1. ASSUME NEW w \in Servers, NEW a \in Ages
        PROVE  Older(rec[w])[a] \in 0 .. Limit
    <3>1. rec[w] \in [Ages -> 0 .. Limit]
      BY <1>2
    <3>2. a # 0 => a - 1 \in Ages
      BY WindowFacts
    <3> QED
      BY <1>1, <3>1, <3>2 DEF Older
  <2>2. \A w \in Servers : Older(rec[w]) \in [Ages -> 0 .. Limit]
    BY <2>1 DEF Older
  <2> QED
    BY <2>2
<1>7. new \in [Servers -> [Ages -> Nat]]
  <2>1. 0 .. Limit \in SUBSET Nat
    BY <1>1
  <2> HIDE DEF new
  <2> QED
    BY <1>6, <2>1
<1>8. ASSUME NEW m \in Ages PROVE Since(old, m) <= L + Kept(new, m)
  <2>1. CASE m = 0
    <3>1. Since(old, 0) = 0
      BY <1>1, Shift
    <3>2. Kept(new, m) \in Nat
      BY <1>7, KeptFacts
    <3> HIDE DEF new, old, L
    <3> QED
      BY <1>1, <2>1, <3>1, <3>2
  <2>2. CASE m # 0
    <3>1. PICK n \in Ages : m = n + 1
      <4>1. m - 1 \in Ages /\ m = (m - 1) + 1
        BY <2>2, WindowFacts
      <4> QED
        BY <4>1
    <3>2. Since(old, m) = Since(adm, n)
      BY <1>1, <3>1, Shift
    <3>3. \A w \in Servers : Since(new[w], m) = Since(rec[w], n)
      BY <1>1, <1>4, <3>1, Shift
    <3>4. Kept(new, m) = Kept(rec, n)
      <4> HIDE DEF new
      <4> QED
        BY <1>1, <1>7, <3>3, KeptSame
    <3> HIDE DEF new, old, L
    <3> QED
      BY <1>2, <3>2, <3>4
  <2> QED
    BY <2>1, <2>2
<1> HIDE DEF new, old
<1>9. ListsCover(new, old, lost)
  BY <1>2, <1>3, <1>5, <1>6, <1>8 DEF ListsCover
<1> QED
  BY <1>9 DEF new, old

\* The lists' promise.
LEMMA ListsBound ==
  ASSUME NEW rec, NEW adm, NEW lost, ListsCover(rec, adm, lost)
  PROVE  Total(adm) <= Limit * (Cardinality(Servers) + lost)
<1> DEFINE L == Limit * lost
           C == Cardinality(Servers)
           m == Window - 1
           f == [w \in Servers |-> Since(rec[w], m)]
<1>1. /\ rec \in [Servers -> [Ages -> Nat]] /\ Counts(adm)
      /\ \A w \in Servers : Counts(rec[w])
      /\ Limit \in Nat /\ L \in Nat
  BY ListsTyped
<1>2. /\ lost \in Nat /\ \A w \in Servers : Total(rec[w]) <= Limit
      /\ \A n \in Ages : Since(adm, n) <= L + Kept(rec, n)
  BY DEF ListsCover
<1>3. m \in Ages /\ \A h : Total(h) = Since(h, m)
  BY TotalIsSince
<1>4. C \in Nat /\ IsFiniteSet(Servers)
  BY RateAssumption, FS_CardinalityType
<1>5. Total(adm) <= L + Kept(rec, m)
  BY <1>2, <1>3
<1>6. \A w \in Servers : f[w] \in Nat /\ f[w] <= Limit
  <2> HIDE DEF m
  <2> QED
    BY <1>1, <1>2, <1>3, SinceNat
<1>7. SumFunctionOnSet(f, Servers) <= C * Limit
  <2> HIDE DEF f
  <2> QED
    BY <1>1, <1>4, <1>6, SumBounded
<1>8. Limit * (C + lost) = L + C * Limit
  <2> HIDE DEF C
  <2> QED
    BY <1>1, <1>2, <1>4
<1>9. Kept(rec, m) \in Nat /\ Total(adm) \in Nat
  <2> HIDE DEF m
  <2> QED
    BY <1>1, <1>3, KeptFacts, SinceNat
<1>10. Kept(rec, m) <= C * Limit
  BY <1>7 DEF Kept
<1>11. C * Limit \in Nat
  BY <1>1, <1>4
<1> HIDE DEF L, C, m, f
<1> QED
  BY <1>1, <1>5, <1>8, <1>9, <1>10, <1>11 DEF C

\* What both lists and counter admitted is accounted for.
Rates ==
    /\ answering \in BOOLEAN
    /\ CounterCovers(counter, ttl, admitted, keysLost)
    /\ ListsCover(recent, admittedLocally, listsLost)

LEMMA RatesSuffice == Rates => RateInv
<1> SUFFICES ASSUME Rates PROVE RateInv
  OBVIOUS
<1>1. /\ CounterCovers(counter, ttl, admitted, keysLost)
      /\ ListsCover(recent, admittedLocally, listsLost)
      /\ answering \in BOOLEAN
  BY Zenon DEF Rates
<1>2. WindowBounded
  BY <1>1, CounterBound, ListsBound DEF WindowBounded
<1>3. RateTypeOK
  BY <1>1 DEF RateTypeOK, CounterCovers, ListsCover
<1> QED
  BY <1>1, <1>2, <1>3 DEF RateInv, CounterCovers, ListsCover

LEMMA FallbackKeeps ==
  ASSUME Rates, NEW w \in Servers, Fallback(w), UNCHANGED listsLost
  PROVE  ListsCover(recent', admittedLocally', listsLost')
<1>1. ListsCover(recent, admittedLocally, listsLost)
  BY Zenon DEF Rates
<1>2. CASE Total(recent[w]) < Limit
  <2>1. /\ recent' = [recent EXCEPT ![w][0] = @ + 1]
        /\ admittedLocally' = [admittedLocally EXCEPT ![0] = @ + 1]
    BY <1>2 DEF Fallback
  <2>2. ListsCover([recent EXCEPT ![w][0] = @ + 1],
                   [admittedLocally EXCEPT ![0] = @ + 1], listsLost)
    BY <1>1, <1>2, ListTakes
  <2> QED
    BY <2>1, <2>2, Zenon
<1>3. CASE ~(Total(recent[w]) < Limit)
  <2>1. UNCHANGED <<recent, admittedLocally>>
    BY <1>3 DEF Fallback
  <2> QED
    BY <1>1, <2>1
<1> QED
  BY <1>2, <1>3

LEMMA CountKeeps ==
  ASSUME Rates, Count, UNCHANGED keysLost,
         admitted' = admitted \/ (Within /\ admitted' = [admitted EXCEPT ![0] = @ + 1])
  PROVE  CounterCovers(counter', ttl', admitted', keysLost')
<1>1. CounterCovers(counter, ttl, admitted, keysLost)
  BY Zenon DEF Rates
<1> DEFINE d == IF counter > Limit THEN counter ELSE counter + 1
           u == IF ttl = 0 THEN Window ELSE ttl
<1>2. counter' = d /\ ttl' = u /\ keysLost' = keysLost
  BY DEF Count, TimeLeft
<1>3. CASE admitted' = admitted
  <2>1. CounterCovers(d, u, admitted, keysLost)
    BY <1>1, CounterCounts
  <2> HIDE DEF d, u
  <2> QED
    BY <1>2, <1>3, <2>1, Zenon
<1>4. CASE Within /\ admitted' = [admitted EXCEPT ![0] = @ + 1]
  <2> DEFINE more == [admitted EXCEPT ![0] = @ + 1]
  <2>1. CounterCovers(d, u, more, keysLost)
    BY <1>1, <1>4, CounterCounts DEF Within
  <2> HIDE DEF d, u, more
  <2>2. admitted' = more
    BY <1>4 DEF more
  <2> QED
    BY <1>2, <2>1, <2>2, Zenon
<1> QED
  BY <1>3, <1>4

LEMMA RatesStep == Rates /\ [RateNext]_rateVars => Rates'
<1> SUFFICES ASSUME Rates, [RateNext]_rateVars PROVE Rates'
  OBVIOUS
<1>1. answering \in BOOLEAN
  BY Zenon DEF Rates
<1>2. CounterCovers(counter, ttl, admitted, keysLost)
  BY Zenon DEF Rates
<1>3. ListsCover(recent, admittedLocally, listsLost)
  BY Zenon DEF Rates
<1>4. ASSUME NEW w \in Servers, IsAllowed(w) PROVE Rates'
  <2>1. /\ Count /\ keysLost' = keysLost /\ answering' = answering
        /\ recent' = recent /\ admittedLocally' = admittedLocally
        /\ listsLost' = listsLost
        /\ admitted' = admitted
              \/ (Within /\ admitted' = [admitted EXCEPT ![0] = @ + 1])
    BY <1>4 DEF IsAllowed
  <2>2. CounterCovers(counter', ttl', admitted', keysLost')
    BY <2>1, CountKeeps
  <2>3. ListsCover(recent', admittedLocally', listsLost')
    BY <1>3, <2>1
  <2>4. answering' \in BOOLEAN
    BY <1>1, <2>1, Zenon
  <2> QED
    BY <2>2, <2>3, <2>4, Zenon DEF Rates
<1>5. ASSUME NEW w \in Servers, IsAllowedLocally(w) PROVE Rates'
  <2>1. /\ Fallback(w) /\ UNCHANGED <<counter, ttl, answering, admitted, keysLost>>
        /\ UNCHANGED listsLost
    BY <1>5 DEF IsAllowedLocally
  <2>2. CounterCovers(counter', ttl', admitted', keysLost')
    BY <1>2, <2>1
  <2>3. ListsCover(recent', admittedLocally', listsLost')
    BY <2>1, FallbackKeeps
  <2>4. answering' \in BOOLEAN
    BY <1>1, <2>1, Zenon
  <2> QED
    BY <2>2, <2>3, <2>4, Zenon DEF Rates
<1>6. ASSUME NEW w \in Servers, IsAllowedReplyLost(w) PROVE Rates'
  <2>1. /\ Count /\ Fallback(w) /\ UNCHANGED keysLost /\ UNCHANGED listsLost
        /\ admitted' = admitted
    BY <1>6 DEF IsAllowedReplyLost
  <2>2. CounterCovers(counter', ttl', admitted', keysLost')
    BY <2>1, CountKeeps
  <2>3. ListsCover(recent', admittedLocally', listsLost')
    BY <2>1, FallbackKeeps
  <2>4. answering' \in BOOLEAN
    BY <1>6, Zenon DEF IsAllowedReplyLost
  <2> QED
    BY <2>2, <2>3, <2>4, Zenon DEF Rates
<1>7. ASSUME NEW w \in Servers, CleanupFallback(w) PROVE Rates'
  <2>1. /\ recent' = [recent EXCEPT ![w] = Never] /\ listsLost' = listsLost + 1
        /\ UNCHANGED <<counter, ttl, answering, admitted, admittedLocally, keysLost>>
    BY <1>7 DEF CleanupFallback
  <2>2. CounterCovers(counter', ttl', admitted', keysLost')
    BY <1>2, <2>1
  <2>3. ListsCover(recent', admittedLocally', listsLost')
    <3> DEFINE new == [recent EXCEPT ![w] = Never]
    <3>1. recent \in [Servers -> [Ages -> Nat]]
      BY <1>3, ListsTyped
    <3>2. /\ new \in [Servers -> [Ages -> Nat]] /\ new[w] = Never
          /\ \A v \in Servers \ {w} : new[v] = recent[v]
      BY <3>1, NeverCounts
    <3>3. recent' = new
      BY <2>1
    <3> HIDE DEF new
    <3>4. ListsCover(new, admittedLocally, listsLost + 1)
      BY <1>3, <3>2, ListGoes
    <3> QED
      BY <2>1, <3>3, <3>4
  <2>4. answering' \in BOOLEAN
    BY <1>1, <2>1, Zenon
  <2> QED
    BY <2>2, <2>3, <2>4, Zenon DEF Rates
<1>8. CASE RedisAnswers
  <2>1. UNCHANGED <<counter, ttl, recent, admitted, admittedLocally, keysLost, listsLost>>
    BY <1>8 DEF RedisAnswers
  <2>2. answering' \in BOOLEAN
    BY <1>8, Zenon DEF RedisAnswers
  <2>3. /\ CounterCovers(counter', ttl', admitted', keysLost')
        /\ ListsCover(recent', admittedLocally', listsLost')
    BY <1>2, <1>3, <2>1
  <2> QED
    BY <2>2, <2>3, Zenon DEF Rates
<1>9. CASE KeyLost
  <2>1. /\ ttl > 0 /\ counter' = 0 /\ ttl' = 0 /\ keysLost' = keysLost + 1
        /\ UNCHANGED <<answering, recent, admitted, admittedLocally, listsLost>>
    BY <1>9 DEF KeyLost
  <2>2. CounterCovers(0, 0, admitted, keysLost + 1)
    BY <1>2, <2>1, CounterLost
  <2>3. CounterCovers(counter', ttl', admitted', keysLost')
    BY <2>1, <2>2
  <2>4. ListsCover(recent', admittedLocally', listsLost')
    BY <1>3, <2>1
  <2>5. answering' \in BOOLEAN
    BY <1>1, <2>1, Zenon
  <2> QED
    BY <2>3, <2>4, <2>5, Zenon DEF Rates
<1>10. CASE TimeStep
  <2> DEFINE d == IF ttl <= 1 THEN 0 ELSE counter
             u == IF ttl = 0 THEN 0 ELSE ttl - 1
             new == [w \in Servers |-> Older(recent[w])]
             old == Older(admitted)
             local == Older(admittedLocally)
  <2>1. /\ ttl' = u /\ counter' = d /\ recent' = new /\ admitted' = old
        /\ admittedLocally' = local /\ UNCHANGED <<answering, keysLost, listsLost>>
    BY <1>10 DEF TimeStep
  <2>2. CounterCovers(d, u, old, keysLost)
    BY <1>2, CounterAges
  <2>3. ListsCover(new, local, listsLost)
    BY <1>3, ListsAge
  <2> HIDE DEF d, u, new, old, local
  <2>4. /\ CounterCovers(counter', ttl', admitted', keysLost')
        /\ ListsCover(recent', admittedLocally', listsLost')
    BY <2>1, <2>2, <2>3
  <2>5. answering' \in BOOLEAN
    BY <1>1, <2>1, Zenon
  <2> QED
    BY <2>4, <2>5, Zenon DEF Rates
<1>11. CASE UNCHANGED rateVars
  <2>1. /\ CounterCovers(counter', ttl', admitted', keysLost')
        /\ ListsCover(recent', admittedLocally', listsLost')
    BY <1>2, <1>3, <1>11 DEF rateVars
  <2>2. answering' \in BOOLEAN
    BY <1>1, <1>11, Zenon DEF rateVars
  <2> QED
    BY <2>1, <2>2, Zenon DEF Rates
<1> QED
  BY <1>4, <1>5, <1>6, <1>7, <1>8, <1>9, <1>10, <1>11 DEF RateNext

LEMMA RatesStart == RateInit => Rates
<1> SUFFICES ASSUME RateInit PROVE Rates
  OBVIOUS
<1>1. answering \in BOOLEAN
  BY Zenon DEF RateInit
<1>2. CounterCovers(0, 0, Never, 0)
  <2>1. /\ Limit \in Nat /\ Window \in Nat /\ Limit * 0 = 0
    BY RateAssumption
  <2>2. Never[0] = 0
    BY WindowFacts DEF Never
  <2> QED
    BY <2>1, <2>2, NeverCounts DEF CounterCovers
<1>3. ListsCover([w \in Servers |-> Never], Never, 0)
  <2> DEFINE new == [w \in Servers |-> Never]
  <2>1. new \in [Servers -> [Ages -> 0 .. Limit]] /\ new \in [Servers -> [Ages -> Nat]]
    BY NeverCounts
  <2>2. \A w \in Servers : Total(new[w]) <= Limit
    BY NeverCounts, RateAssumption
  <2>3. Limit * 0 = 0
    BY RateAssumption
  <2> HIDE DEF new
  <2>4. ASSUME NEW n \in Ages PROVE Since(Never, n) <= Limit * 0 + Kept(new, n)
    <3>1. Since(Never, n) = 0
      BY NeverCounts
    <3>2. Kept(new, n) \in Nat
      BY <2>1, KeptFacts
    <3> QED
      BY <2>3, <3>1, <3>2
  <2>5. ListsCover(new, Never, 0)
    BY <2>1, <2>2, <2>4, NeverCounts DEF ListsCover
  <2> QED
    BY <2>5 DEF new
<1> QED
  BY <1>1, <1>2, <1>3, Zenon DEF RateInit, Rates

\* Wherever a window begins, and whatever is lost meanwhile, it admits no more
\* than the counter's limits and the lists' allow.
THEOREM WindowsAreBounded == RateSpec => []WindowBounded
<1>1. Rates => WindowBounded
  BY RatesSuffice DEF RateInv
<1> QED
  BY <1>1, RatesStart, RatesStep, PTL DEF RateSpec

---------------------------------------------------------------------------
(* All of it.                                                              *)

\* The four parts, each with what its proof needs.
Sound == IInv /\ Rates /\ Breaker /\ Browser

\* Whichever part runs, the scheduler, the limiter, the breaker and the browser
\* keep their invariants, for any number of workers, limits, thresholds, pages
\* and requests.
THEOREM InfraIsSound == AllSpec => [](IInv /\ InfraInv)
<1>1. AllInit => Sound
  <2> SUFFICES ASSUME AllInit PROVE Sound
    OBVIOUS
  <2>1. IInv
    <3>1. CASE Init
      BY <3>1, StartsOwned
    <3>2. CASE NothingDue
      <4>1. TypeOK
        BY <3>2 DEF NothingDue, TypeOK, Locations
      <4>2. LockOwned
        BY <3>2 DEF NothingDue, LockOwned, Holds
      <4> QED
        BY <4>1, <4>2 DEF IInv
    <3> QED
      BY <3>1, <3>2 DEF AllInit
  <2> QED
    BY <2>1, RatesStart, BreakerStarts, BrowserStarts DEF AllInit, Sound
<1>2. Sound /\ [AllNext]_allVars => Sound'
  <2> SUFFICES ASSUME Sound, [AllNext]_allVars PROVE Sound'
    OBVIOUS
  <2>1. [Next]_vars /\ [RateNext]_rateVars /\ [GatewayNext]_gatewayVars
        /\ [ClientNext]_clientVars
    BY DEF AllNext, allVars, otherVars, SchedulerOnly, RatesOnly, GatewayOnly,
           ClientOnly
  <2> QED
    BY <2>1, Step, RatesStep, BreakerStep, BrowserStep DEF Sound
<1>3. Sound => IInv /\ InfraInv
  BY RatesSuffice, BrowserSuffices DEF Sound, InfraInv, Breaker
<1> QED
  BY <1>1, <1>2, <1>3, PTL DEF AllSpec
============================================================================
