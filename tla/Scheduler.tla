----------------------------- MODULE Scheduler -----------------------------
(***************************************************************************)
(* The in-process scheduler: every Gunicorn worker ticks, and _run_with_   *)
(* lock decides over two Redis keys, last_run and lock, which of them runs *)
(* the job.  Each Redis command is one step; a worker may be cancelled by  *)
(* a shutdown or killed between two of them.                               *)
(***************************************************************************)
EXTENDS Naturals

CONSTANTS
    Workers,        \* Gunicorn workers
    NoWorker,       \* holder of a free lock
    MaxCrashes      \* bound on killed workers

ASSUME WorkerAssumption == NoWorker \notin Workers

VARIABLES
    lock,           \* who set the lock key; the key itself holds only "1"
    lastRun,        \* last_run lies within the interval: "fresh" or "due"
    pc,             \* where each worker is in _run_with_lock
    current,        \* the worker's "started" lies within the interval
    overran,        \* history: a job once lasted longer than _LOCK_TTL_SECONDS
    crashes         \* workers killed so far

vars == <<lock, lastRun, pc, current, overran, crashes>>

Locations == {"waiting", "due", "running", "succeeded", "releasing"}

TypeOK ==
    /\ lock \in Workers \cup {NoWorker}
    /\ lastRun \in {"fresh", "due"}
    /\ pc \in [Workers -> Locations]
    /\ current \in [Workers -> BOOLEAN]
    /\ overran \in BOOLEAN
    /\ crashes \in Nat

Init ==
    /\ lock = NoWorker
    /\ lastRun = "due"
    /\ pc = [w \in Workers |-> "waiting"]
    /\ current = [w \in Workers |-> FALSE]
    /\ overran = FALSE
    /\ crashes = 0

---------------------------------------------------------------------------

At(w, location) == pc[w] = location

Go(w, location) == pc' = [pc EXCEPT ![w] = location]

(* The tick: GET last_run, and return if the interval has not passed.      *)
GetLastRun(w) ==
    /\ At(w, "waiting")
    /\ lastRun = "due"
    /\ Go(w, "due")
    /\ UNCHANGED <<lock, lastRun, current, overran, crashes>>

\* Mutant: SET without NX.
LockFree_Always == TRUE

\* NX: the key must be absent.
LockFree == lock = NoWorker

\* SET lock NX EX, then the runner starts.
SetLock(w) ==
    /\ At(w, "due")
    /\ IF LockFree
       THEN /\ lock' = w
            /\ current' = [current EXCEPT ![w] = TRUE]
            /\ Go(w, "running")
       ELSE UNCHANGED <<lock, current>> /\ Go(w, "waiting")
    /\ UNCHANGED <<lastRun, overran, crashes>>

\* The runner returns, raises, or is cancelled by stop(); a SET of last_run
\* that fails ends like a run that raised.
RunnerReturns(w) ==
    /\ At(w, "running")
    /\ \E location \in {"succeeded", "releasing"} : Go(w, location)
    /\ UNCHANGED <<lock, lastRun, current, overran, crashes>>

\* SET last_run to the time the run started, which may be long past.
SetLastRun(w) ==
    /\ At(w, "succeeded")
    /\ lastRun' = IF current[w] THEN "fresh" ELSE "due"
    /\ Go(w, "releasing")
    /\ UNCHANGED <<lock, current, overran, crashes>>

\* finally: DELETE lock, whoever set it.
DeleteLock(w) ==
    /\ At(w, "releasing")
    /\ lock' = NoWorker
    /\ Go(w, "waiting")
    /\ UNCHANGED <<lastRun, current, overran, crashes>>

\* The worker is killed between two commands, and Gunicorn starts another; or
\* the Redis command raises and the loop goes on with its next tick.
Crash(w) ==
    /\ ~At(w, "waiting")
    /\ crashes < MaxCrashes
    /\ crashes' = crashes + 1
    /\ Go(w, "waiting")
    /\ UNCHANGED <<lock, lastRun, current, overran>>

---------------------------------------------------------------------------
(* Time.                                                                   *)

Holds(w) == pc[w] \in {"running", "succeeded", "releasing"}

\* Mutant: the key has no TTL.
Expires_Never == FALSE

\* SET ... EX: the key is gone when its TTL is over.
Expires == lock # NoWorker

LockExpires ==
    /\ Expires
    /\ lock' = NoWorker
    /\ overran' = (overran \/ Holds(lock))
    /\ UNCHANGED <<lastRun, pc, current, crashes>>

\* interval_hours pass since the last run, or since one that is running.
IntervalPasses ==
    /\ lastRun = "fresh" \/ \E w \in Workers : current[w]
    /\ lastRun' = "due"
    /\ current' = [w \in Workers |-> FALSE]
    /\ UNCHANGED <<lock, pc, overran, crashes>>

Tick(w) ==
    \/ GetLastRun(w) \/ SetLock(w) \/ RunnerReturns(w) \/ SetLastRun(w)
    \/ DeleteLock(w)

Next ==
    \/ \E w \in Workers : Tick(w) \/ Crash(w)
    \/ LockExpires \/ IntervalPasses

Spec == Init /\ [][Next]_vars

(* The loop ticks every 60 seconds, runners return, Redis expires keys and *)
(* time passes.                                                            *)
LiveSpec ==
    /\ Spec
    /\ \A w \in Workers : WF_vars(Tick(w))
    /\ WF_vars(LockExpires) /\ WF_vars(IntervalPasses)

---------------------------------------------------------------------------

Running(w) == At(w, "running")

\* While the TTL has exceeded every job, the job has never run on two workers at
\* once, though a killed worker leaves its lock behind and DELETE does not ask
\* whose lock it deletes (_run_with_lock).
MutualExclusion ==
    ~overran => \A v, w \in Workers : Running(v) /\ Running(w) => v = w

\* A worker between SET NX and DELETE is the one the lock was set by, so that
\* its DELETE cannot remove another worker's lock.
LockOwned == ~overran => \A w \in Workers : Holds(w) => lock = w

IInv == TypeOK /\ LockOwned

\* A due job is run, whatever worker was killed before (the lock's TTL).
DueJobRuns == lastRun = "due" ~> \E w \in Workers : Running(w)
============================================================================
