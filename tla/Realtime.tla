------------------------------ MODULE Realtime ------------------------------
(***************************************************************************)
(* The open connections of one user, over several workers: the tickets     *)
(* that authenticate them, the count in Redis that makes the user online,  *)
(* and the events that reach them, locally or through Redis.               *)
(*                                                                         *)
(* Every Redis command is a step of its own.  A command that fails leaves  *)
(* the rest to a count in the worker's memory.                             *)
(***************************************************************************)
EXTENDS Integers, FiniteSets

CONSTANTS
    Workers,
    Sockets,            \* connections of the user, one ticket each
    Events,             \* events sent to the user
    Nowhere,
    MaxOutages          \* bound on the failures of Redis and of workers

ASSUME RealtimeAssumption ==
    /\ IsFiniteSet(Sockets)
    /\ Workers \cap {Nowhere, "none", "redis", "spent"} = {}
    /\ MaxOutages \in Nat

VARIABLES
    wsTicket,       \* where each ticket is stored
    socket,         \* connections and the coroutines that serve them
    conns,          \* kaasb:presence:conns, the count
    online,         \* membership of kaasb:presence:online
    fallback,       \* _fallback_online of each worker
    redisUp,
    event,          \* how far each event is sent, and by which worker
    channel,        \* published events each worker has yet to receive
    shown,          \* history: how often each connection got each event
    outages         \* history: failures so far

rtVars == <<wsTicket, socket, conns, online, fallback, redisUp, event,
            channel, shown, outages>>

\* "open": registered, not yet counted.  "counted": the count was 0.
\* "closing": unregistered.  "last": the count fell to 0.  "deleted": so is
\* the count.
Stages == {"none", "open", "counted", "live", "closing", "last", "deleted", "gone"}

Socket == [stage : Stages, at : Workers \cup {Nowhere}]

Event == [stage : {"none", "published", "local", "relayed"},
          at : Workers \cup {Nowhere}]

RtTypeOK ==
    /\ wsTicket \in [Sockets -> {"none", "redis", "spent"} \cup Workers]
    /\ socket \in [Sockets -> Socket]
    /\ conns \in Int
    /\ online \in BOOLEAN
    /\ fallback \in [Workers -> Nat]
    /\ redisUp \in BOOLEAN
    /\ event \in [Events -> Event]
    /\ channel \in [Workers -> SUBSET Events]
    /\ shown \in [Events -> [Sockets -> Nat]]
    /\ outages \in 0 .. MaxOutages

RtInit ==
    /\ wsTicket = [s \in Sockets |-> "none"]
    /\ socket = [s \in Sockets |-> [stage |-> "none", at |-> Nowhere]]
    /\ conns = 0
    /\ online = FALSE
    /\ fallback = [w \in Workers |-> 0]
    /\ redisUp = TRUE
    /\ event = [e \in Events |-> [stage |-> "none", at |-> Nowhere]]
    /\ channel = [w \in Workers |-> {}]
    /\ shown = [e \in Events |-> [s \in Sockets |-> 0]]
    /\ outages = 0

SocketGoes(s, stage) == socket' = [socket EXCEPT ![s].stage = stage]

InRedis == <<conns, online>>

Delivery == <<event, channel, shown>>

---------------------------------------------------------------------------
(* Tickets and connections.                                                *)

CreateTicket(s, w) ==
    /\ wsTicket[s] = "none"
    /\ wsTicket' = [wsTicket EXCEPT ![s] = IF redisUp THEN "redis" ELSE w]
    /\ UNCHANGED <<socket, InRedis, fallback, redisUp, Delivery, outages>>

TicketExpires(s) ==
    /\ wsTicket[s] \in {"redis"} \cup Workers
    /\ wsTicket' = [wsTicket EXCEPT ![s] = "spent"]
    /\ UNCHANGED <<socket, InRedis, fallback, redisUp, Delivery, outages>>

\* GETDEL, or the worker's own memory.
Redeem(s, w) ==
    /\ wsTicket[s] = w \/ (redisUp /\ wsTicket[s] = "redis")
    /\ wsTicket' = [wsTicket EXCEPT ![s] = "spent"]
    /\ socket' = [socket EXCEPT ![s] = [stage |-> "open", at |-> w]]
    /\ UNCHANGED <<InRedis, fallback, redisUp, Delivery, outages>>

\* mark_online.
CountIn(s) ==
    /\ socket[s].stage = "open"
    /\ redisUp
    /\ conns' = conns + 1
    /\ SocketGoes(s, IF conns' = 1 THEN "counted" ELSE "live")
    /\ UNCHANGED <<wsTicket, online, fallback, redisUp, Delivery, outages>>

AddOnline(s) ==
    /\ socket[s].stage = "counted"
    /\ redisUp
    /\ online' = TRUE
    /\ SocketGoes(s, "live")
    /\ UNCHANGED <<wsTicket, conns, fallback, redisUp, Delivery, outages>>

CountInFallback(s) ==
    /\ socket[s].stage \in {"open", "counted"}
    /\ ~redisUp
    /\ fallback' = [fallback EXCEPT ![socket[s].at] = @ + 1]
    /\ SocketGoes(s, "live")
    /\ UNCHANGED <<wsTicket, InRedis, redisUp, Delivery, outages>>

\* disconnect, in the connection's own coroutine; then mark_offline.
Disconnect(s) ==
    /\ socket[s].stage = "live"
    /\ SocketGoes(s, "closing")
    /\ UNCHANGED <<wsTicket, InRedis, fallback, redisUp, Delivery, outages>>

\* Mutant: only the very last connection, by this count, goes on.
IsLast_Equal(count) == count = 0

IsLast(count) == count <= 0

CountOut(s) ==
    /\ socket[s].stage = "closing"
    /\ redisUp
    /\ conns' = conns - 1
    /\ SocketGoes(s, IF IsLast(conns') THEN "last" ELSE "gone")
    /\ UNCHANGED <<wsTicket, online, fallback, redisUp, Delivery, outages>>

DeleteCount(s) ==
    /\ socket[s].stage = "last"
    /\ redisUp
    /\ conns' = 0
    /\ SocketGoes(s, "deleted")
    /\ UNCHANGED <<wsTicket, online, fallback, redisUp, Delivery, outages>>

RemoveOnline(s) ==
    /\ socket[s].stage = "deleted"
    /\ redisUp
    /\ online' = FALSE
    /\ SocketGoes(s, "gone")
    /\ UNCHANGED <<wsTicket, conns, fallback, redisUp, Delivery, outages>>

CountOutFallback(s) ==
    LET w == socket[s].at IN
    /\ socket[s].stage \in {"closing", "last", "deleted"}
    /\ ~redisUp
    /\ fallback' = [fallback EXCEPT ![w] = IF @ > 0 THEN @ - 1 ELSE 0]
    /\ SocketGoes(s, "gone")
    /\ UNCHANGED <<wsTicket, InRedis, redisUp, Delivery, outages>>

---------------------------------------------------------------------------
(* Events.                                                                 *)

Registered(w) ==
    {s \in Sockets : socket[s].at = w /\ socket[s].stage \in {"open", "counted", "live"}}

Show(e, w) ==
    shown' = [shown EXCEPT ![e] = [s \in Sockets |->
                 IF s \in Registered(w) THEN @[s] + 1 ELSE @[s]]]

\* A handler of the event bus: a task of its own, which may run before the
\* request that published the event has committed.
Publish(e, w) ==
    /\ event[e].stage = "none"
    /\ event' = [event EXCEPT ![e] = [stage |-> "published", at |-> w]]
    /\ UNCHANGED <<wsTicket, socket, InRedis, fallback, redisUp, channel, shown, outages>>

DeliverLocal(e) ==
    /\ event[e].stage = "published"
    /\ event' = [event EXCEPT ![e].stage = "local"]
    /\ Show(e, event[e].at)
    /\ UNCHANGED <<wsTicket, socket, InRedis, fallback, redisUp, channel, outages>>

\* Every subscriber gets it, the publisher's own too; or it is lost.
Relay(e) ==
    /\ event[e].stage = "local"
    /\ event' = [event EXCEPT ![e].stage = "relayed"]
    /\ channel' = IF redisUp THEN [w \in Workers |-> channel[w] \cup {e}] ELSE channel
    /\ UNCHANGED <<wsTicket, socket, InRedis, fallback, redisUp, shown, outages>>

Echo(e, w) == event[e].at = w

Receive(w, e) ==
    /\ e \in channel[w]
    /\ channel' = [channel EXCEPT ![w] = @ \ {e}]
    /\ IF Echo(e, w) THEN UNCHANGED shown ELSE Show(e, w)
    /\ UNCHANGED <<wsTicket, socket, InRedis, fallback, redisUp, event, outages>>

---------------------------------------------------------------------------
(* Failures.                                                               *)

\* The subscribers lose what is on its way and connect again.
RedisFails ==
    /\ redisUp
    /\ outages < MaxOutages
    /\ redisUp' = FALSE
    /\ outages' = outages + 1
    /\ channel' = [w \in Workers |-> {}]
    /\ UNCHANGED <<wsTicket, socket, InRedis, fallback, event, shown>>

RedisReturns ==
    /\ ~redisUp
    /\ redisUp' = TRUE
    /\ UNCHANGED <<wsTicket, socket, InRedis, fallback, Delivery, outages>>

\* The connections are lost, and nothing counts them out.
WorkerDies(w) ==
    /\ outages < MaxOutages
    /\ outages' = outages + 1
    /\ socket' = [s \in Sockets |-> IF socket[s].at = w
                                    THEN [socket[s] EXCEPT !.stage = "gone"] ELSE socket[s]]
    /\ wsTicket' = [s \in Sockets |-> IF wsTicket[s] = w THEN "spent" ELSE wsTicket[s]]
    /\ fallback' = [fallback EXCEPT ![w] = 0]
    /\ channel' = [channel EXCEPT ![w] = {}]
    /\ event' = [e \in Events |-> IF event[e].at = w
                                  THEN [event[e] EXCEPT !.stage = "relayed"] ELSE event[e]]
    /\ UNCHANGED <<InRedis, redisUp, shown>>

RtNext ==
    \/ \E s \in Sockets :
          \/ \E w \in Workers : CreateTicket(s, w) \/ Redeem(s, w)
          \/ TicketExpires(s)
          \/ CountIn(s) \/ AddOnline(s) \/ CountInFallback(s)
          \/ Disconnect(s)
          \/ CountOut(s) \/ DeleteCount(s) \/ RemoveOnline(s) \/ CountOutFallback(s)
    \/ \E e \in Events :
          \/ \E w \in Workers : Publish(e, w) \/ Receive(w, e)
          \/ DeliverLocal(e)
          \/ Relay(e)
    \/ RedisFails
    \/ RedisReturns
    \/ \E w \in Workers : WorkerDies(w)

RtSpec == RtInit /\ [][RtNext]_rtVars

---------------------------------------------------------------------------

\* No connection gets an event twice, on whichever worker it is opened while
\* the event is on its way.
ShownOnce == \A e \in Events, s \in Sockets : shown[e][s] <= 1

Served == {s \in Sockets : socket[s].stage \notin {"none", "gone"}}

\* As long as neither Redis nor a worker has failed, a user without any
\* connection is not online, in whatever order the commands of connections
\* that open and close at once arrive.  (The opposite does not hold: a user who
\* reconnects may be taken out while connected.)
NobodyLingers == Served = {} /\ outages = 0 => ~online /\ conns = 0

Counted ==
    {s \in Sockets : socket[s].stage \in {"counted", "live", "closing"}}

\* The count may be too low, never too high; and while the user is online,
\* somebody is still to take them out.
CountsBehave ==
    outages = 0 =>
        /\ conns <= Cardinality(Counted)
        /\ online \/ conns # 0 => Served # {}

\* An event is shown before it is relayed only on its own worker.
RelayBehaves ==
    \A e \in Events :
        /\ event[e].stage # "relayed" => \A w \in Workers : e \notin channel[w]
        /\ \A s \in Sockets :
              /\ shown[e][s] > 0 => event[e].stage \notin {"none", "published"}
              /\ shown[e][s] > 0 /\ socket[s].at # event[e].at =>
                    event[e].stage = "relayed" /\ e \notin channel[socket[s].at]
              /\ socket[s].stage = "none" => shown[e][s] = 0

RtInv == RtTypeOK /\ ShownOnce /\ RelayBehaves
============================================================================
