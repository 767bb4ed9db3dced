-------------------------- MODULE Messaging_proofs --------------------------
(* Conversations, support tickets, presence, events and notifications, for *)
(* any number of staff, connections, workers, messages and requests; and,  *)
(* with the sessions of Accounts_proofs, all that the run Community checks. *)
EXTENDS MCCommunity, Accounts_proofs, FiniteSetTheorems

---------------------------------------------------------------------------
(* The ticket of a support thread.                                         *)

\* What staff save keeps the types.
LEMMA SaveEffect ==
  ASSUME TicketTypeOK, NEW r \in TicketRequests, NEW op \in TicketOps,
         NEW status \in TicketStatus, NEW assignee \in Agents \cup {Nobody},
         Save(r, op, status, assignee), waiting' \in BOOLEAN
  PROVE  TicketTypeOK'
<1>1. NoHandling \in Handling
  BY DEF NoHandling, NoTicket, Handling, Ticket, TicketStatus
<1>2. ticket' \in Ticket
  BY DEF Save, Written, TicketTypeOK, Ticket
<1> QED
  BY <1>1, <1>2 DEF Save, TicketTypeOK

LEMMA TicketTypeStep == TicketTypeOK /\ [TicketNext]_ticketVars => TicketTypeOK'
<1> SUFFICES ASSUME TicketTypeOK, [TicketNext]_ticketVars PROVE TicketTypeOK'
  OBVIOUS
<1>1. CASE ContactSupport
  BY <1>1 DEF ContactSupport, TicketTypeOK, Ticket, TicketStatus
<1>2. ASSUME NEW r \in Replies, LoadReply(r) PROVE TicketTypeOK'
  BY <1>2 DEF LoadReply, TicketTypeOK, Ticket
<1>3. ASSUME NEW r \in Replies, CommitReply(r) PROVE TicketTypeOK'
  <2>1. [ticket EXCEPT !.status = "open"] \in Ticket
    BY DEF TicketTypeOK, Ticket, TicketStatus
  <2> QED
    BY <1>3, <2>1 DEF CommitReply, TicketTypeOK, TicketStatus
<1>4. ASSUME NEW r \in TicketRequests, NEW s \in Agents, NEW op \in TicketOps,
             LoadTicket(r, s, op)
      PROVE  TicketTypeOK'
  BY <1>4 DEF LoadTicket, TicketTypeOK, Handling
<1>5. ASSUME NEW r \in TicketRequests,
             ClaimTicket(r) \/ ReleaseTicket(r) \/ ResolveTicket(r) \/ ReopenTicket(r)
      PROVE  TicketTypeOK'
  <2>1. /\ handling[r].by \in Agents \cup {Nobody}
        /\ handling[r].seen.status \in TicketStatus
        /\ handling[r].seen.assignee \in Agents \cup {Nobody}
    BY DEF TicketTypeOK, Handling, Ticket
  <2>2. {"in_progress", "resolved", "open"} \subseteq TicketStatus
    BY DEF TicketStatus
  <2>3. waiting' \in BOOLEAN
    BY <1>5 DEF ClaimTicket, ReleaseTicket, ResolveTicket, ReopenTicket, TicketTypeOK
  <2>4. CASE ClaimTicket(r)
    BY <2>1, <2>2, <2>3, <2>4, SaveEffect DEF ClaimTicket, TicketOps
  <2>5. CASE ReleaseTicket(r)
    BY <2>1, <2>3, <2>5, SaveEffect DEF ReleaseTicket, TicketOps
  <2>6. CASE ResolveTicket(r)
    BY <2>1, <2>2, <2>3, <2>6, SaveEffect DEF ResolveTicket, TicketOps
  <2>7. CASE ReopenTicket(r)
    BY <2>1, <2>2, <2>3, <2>7, SaveEffect DEF ReopenTicket, TicketOps
  <2> QED
    BY <1>5, <2>4, <2>5, <2>6, <2>7
<1>6. CASE UNCHANGED ticketVars
  BY <1>6 DEF ticketVars, TicketTypeOK
<1> QED
  BY <1>1, <1>2, <1>3, <1>4, <1>5, <1>6 DEF TicketNext

\* Only a resolution takes a waiting reply out of the inbox.
LEMMA ReopenStep ==
  TicketTypeOK /\ RepliesReopen /\ [TicketNext]_ticketVars => RepliesReopen'
<1> SUFFICES ASSUME TicketTypeOK, RepliesReopen, [TicketNext]_ticketVars
             PROVE  RepliesReopen'
  OBVIOUS
<1>1. CASE ContactSupport
  BY <1>1 DEF ContactSupport, RepliesReopen, TicketTypeOK, Ticket
<1>2. ASSUME NEW r \in Replies, LoadReply(r) PROVE RepliesReopen'
  BY <1>2 DEF LoadReply, RepliesReopen
<1>3. ASSUME NEW r \in Replies, CommitReply(r) PROVE RepliesReopen'
  BY <1>3 DEF CommitReply, Reopens, RepliesReopen, TicketTypeOK, Ticket
<1>4. ASSUME NEW r \in TicketRequests, NEW s \in Agents, NEW op \in TicketOps,
             LoadTicket(r, s, op)
      PROVE  RepliesReopen'
  BY <1>4 DEF LoadTicket, RepliesReopen
<1>5. ASSUME NEW r \in TicketRequests, ClaimTicket(r) PROVE RepliesReopen'
  BY <1>5 DEF ClaimTicket, Save, Written, RepliesReopen
<1>6. ASSUME NEW r \in TicketRequests, ReleaseTicket(r) PROVE RepliesReopen'
  BY <1>6 DEF ReleaseTicket, Save, Written, RepliesReopen
<1>7. ASSUME NEW r \in TicketRequests, ResolveTicket(r) PROVE RepliesReopen'
  BY <1>7 DEF ResolveTicket, Save, Written, RepliesReopen
<1>8. ASSUME NEW r \in TicketRequests, ReopenTicket(r) PROVE RepliesReopen'
  BY <1>8 DEF ReopenTicket, Save, Written, RepliesReopen
<1>9. CASE UNCHANGED ticketVars
  BY <1>9 DEF ticketVars, RepliesReopen
<1> QED
  BY <1>1, <1>2, <1>3, <1>4, <1>5, <1>6, <1>7, <1>8, <1>9 DEF TicketNext

\* Whatever staff do with tickets they read earlier, a ticket the user wrote
\* to stays in the inbox until somebody who read it resolves it.
THEOREM RepliesStayOpen == TicketSpec => []RepliesReopen
<1>1. TicketInit => TicketTypeOK /\ RepliesReopen
  <2>1. NoTicket \in Ticket
    BY DEF NoTicket, Ticket, TicketStatus
  <2>2. NoHandling \in Handling
    BY <2>1 DEF NoHandling, Handling
  <2> QED
    BY <2>1, <2>2 DEF TicketInit, TicketTypeOK, RepliesReopen, TicketStatus
<1> QED
  BY <1>1, TicketTypeStep, ReopenStep, PTL DEF TicketSpec

(* Requests of staff have read a ticket that exists.                       *)

LEMMA HandlesStep ==
  TicketTypeOK /\ HandlesTicket /\ [TicketNext]_ticketVars => HandlesTicket'
<1> SUFFICES ASSUME TicketTypeOK, HandlesTicket, [TicketNext]_ticketVars
             PROVE  HandlesTicket'
  OBVIOUS
<1>1. NoHandling.op = "none" /\ handling \in [TicketRequests -> Handling]
      /\ ticket \in Ticket
  BY DEF NoHandling, TicketTypeOK
<1>2. ASSUME UNCHANGED handling, ticket.status # "none" => ticket'.status # "none"
      PROVE  HandlesTicket'
  BY <1>2 DEF HandlesTicket
<1>3. CASE ContactSupport
  <2>1. ticket'.status = "open"
    BY <1>1, <1>3 DEF ContactSupport, Ticket
  <2> QED
    BY <1>2, <1>3, <2>1 DEF ContactSupport
<1>4. ASSUME NEW r \in Replies, LoadReply(r) \/ CommitReply(r) PROVE HandlesTicket'
  <2>1. UNCHANGED handling /\ (ticket' = ticket \/ ticket' = [ticket EXCEPT !.status = "open"])
    BY <1>4 DEF LoadReply, CommitReply
  <2>2. [ticket EXCEPT !.status = "open"].status = "open"
    BY <1>1 DEF Ticket
  <2> QED
    BY <1>2, <2>1, <2>2
<1>5. ASSUME NEW r \in TicketRequests, NEW s \in Agents, NEW op \in TicketOps,
             LoadTicket(r, s, op)
      PROVE  HandlesTicket'
  BY <1>1, <1>5 DEF LoadTicket, HandlesTicket
<1>6. ASSUME NEW r \in TicketRequests, NEW op \in TicketOps,
             NEW status \in TicketStatus \ {"none"}, NEW assignee,
             Save(r, op, status, assignee)
      PROVE  HandlesTicket'
  <2>1. /\ op # "none" /\ handling[r].op = op
        /\ ticket'.status = Written(status, handling[r].seen.status, ticket.status)
        /\ handling' = [handling EXCEPT ![r] = NoHandling]
    BY <1>6 DEF Save, TicketOps
  <2>2. ticket'.status # "none"
    BY <1>6, <2>1 DEF HandlesTicket, Written
  <2> QED
    BY <1>1, <2>1, <2>2 DEF HandlesTicket
<1>7. ASSUME NEW r \in TicketRequests, ClaimTicket(r) PROVE HandlesTicket'
  BY <1>6, <1>7 DEF ClaimTicket, TicketOps, TicketStatus
<1>8. ASSUME NEW r \in TicketRequests, ReleaseTicket(r) PROVE HandlesTicket'
  <2>1. /\ handling[r].op = "release"
        /\ ticket'.status = Written(handling[r].seen.status, handling[r].seen.status,
                                    ticket.status)
        /\ handling' = [handling EXCEPT ![r] = NoHandling]
    BY <1>8 DEF ReleaseTicket, Save
  <2>2. ticket'.status = ticket.status
    BY <2>1 DEF Written
  <2> QED
    BY <1>1, <2>1, <2>2 DEF HandlesTicket
<1>9. ASSUME NEW r \in TicketRequests, ResolveTicket(r) PROVE HandlesTicket'
  BY <1>6, <1>9 DEF ResolveTicket, TicketOps, TicketStatus
<1>10. ASSUME NEW r \in TicketRequests, ReopenTicket(r) PROVE HandlesTicket'
  BY <1>6, <1>10 DEF ReopenTicket, TicketOps, TicketStatus
<1>11. CASE UNCHANGED ticketVars
  BY <1>2, <1>11 DEF ticketVars
<1> QED
  BY <1>3, <1>4, <1>5, <1>7, <1>8, <1>9, <1>10, <1>11 DEF TicketNext

LEMMA TicketInvStep == TicketInv /\ [TicketNext]_ticketVars => TicketInv'
BY TicketTypeStep, ReopenStep, HandlesStep DEF TicketInv

LEMMA TicketStarts == TicketInit => TicketInv
<1> SUFFICES ASSUME TicketInit PROVE TicketInv
  OBVIOUS
<1>1. NoTicket \in Ticket
  BY DEF NoTicket, Ticket, TicketStatus
<1>2. NoHandling \in Handling /\ NoHandling.op = "none"
  BY <1>1 DEF NoHandling, Handling
<1>3. TicketTypeOK
  BY <1>1, <1>2 DEF TicketInit, TicketTypeOK, TicketStatus
<1>4. HandlesTicket
  BY <1>2 DEF TicketInit, HandlesTicket
<1>5. RepliesReopen
  BY DEF TicketInit, RepliesReopen
<1> QED
  BY <1>3, <1>4, <1>5 DEF TicketInv

---------------------------------------------------------------------------
(* Presence: the count in Redis, while nothing has failed.                 *)

SocketsType == socket \in [Sockets -> Socket]

\* A ticket that can still be redeemed has no connection yet.
FreshTickets ==
  /\ wsTicket = [s \in Sockets |-> wsTicket[s]]
  /\ \A s \in Sockets :
       wsTicket[s] # "spent" => socket[s] = [stage |-> "none", at |-> Nowhere]

\* A count below zero has somebody about to delete it.
NegativeIsSeen == conns < 0 => \E s \in Sockets : socket[s].stage = "last"

\* CountsBehave, with what it takes to keep it.
Presence ==
  /\ SocketsType /\ conns \in Int
  /\ FreshTickets
  /\ outages \in Nat
  /\ ~redisUp => outages > 0
  /\ outages = 0 =>
        /\ conns <= Cardinality(Counted)
        /\ NegativeIsSeen
        /\ online => Served # {}

\* No count without a connection.
LEMMA EmptyIsZero ==
  ASSUME Presence, outages = 0 PROVE conns # 0 => Served # {}
<1> SUFFICES ASSUME conns # 0, Served = {} PROVE FALSE
  OBVIOUS
<1>1. CASE conns < 0
  BY <1>1 DEF Presence, NegativeIsSeen, Served
<1>2. CASE conns > 0
  <2>1. Counted = {}
    BY DEF Counted, Served
  <2> QED
    BY <1>2, <2>1, FS_EmptySet DEF Presence
<1> QED
  BY <1>1, <1>2 DEF Presence

\* One connection changes its stage.
LEMMA StageMoves ==
  ASSUME SocketsType, NEW s \in Sockets, NEW stage \in Stages, SocketGoes(s, stage)
  PROVE  /\ SocketsType'
         /\ socket'[s].stage = stage
         /\ \A t \in Sockets \ {s} : socket'[t] = socket[t]
  BY DEF SocketGoes, SocketsType, Socket

\* The set that is counted, as one connection moves.
LEMMA CountedMoves ==
  ASSUME NEW s \in Sockets, \A t \in Sockets \ {s} : socket'[t] = socket[t]
  PROVE  /\ Cardinality(Counted) \in Nat
         /\ s \in Counted /\ s \in Counted' => Counted' = Counted
         /\ s \notin Counted /\ s \notin Counted' => Counted' = Counted
         /\ s \notin Counted /\ s \in Counted' =>
               Cardinality(Counted') = Cardinality(Counted) + 1
         /\ s \in Counted /\ s \notin Counted' =>
               Cardinality(Counted') = Cardinality(Counted) - 1
<1>1. IsFiniteSet(Counted)
  BY RealtimeAssumption, FS_Subset DEF Counted
<1>2. /\ s \in Counted' => Counted' = Counted \cup {s}
      /\ s \notin Counted' => Counted' = Counted \ {s}
  BY DEF Counted
<1>3. /\ s \notin Counted => Cardinality(Counted \cup {s}) = Cardinality(Counted) + 1
      /\ s \in Counted => Cardinality(Counted \ {s}) = Cardinality(Counted) - 1
  BY <1>1, FS_AddElement, FS_RemoveElement
<1> QED
  BY <1>1, <1>2, <1>3, FS_CardinalityType

\* A step that moves one connection, of those that exist, to another stage.
LEMMA FreshMoves ==
  ASSUME SocketsType, FreshTickets, NEW s \in Sockets, socket[s].stage # "none",
         \A t \in Sockets \ {s} : socket'[t] = socket[t], UNCHANGED wsTicket
  PROVE  FreshTickets'
  BY DEF FreshTickets

\* While nothing has failed, every count is a change of one connection.
LEMMA CountsMove ==
  ASSUME Presence, NEW s \in Sockets,
         CountIn(s) \/ AddOnline(s) \/ Disconnect(s) \/ CountOut(s)
           \/ DeleteCount(s) \/ RemoveOnline(s)
  PROVE  Presence'
<1> USE DEF Presence
<1>1. PICK stage \in Stages : SocketGoes(s, stage) /\ stage # "none"
  BY DEF CountIn, AddOnline, Disconnect, CountOut, DeleteCount, RemoveOnline, Stages
<1>2. /\ SocketsType' /\ socket'[s].stage = stage
      /\ \A t \in Sockets \ {s} : socket'[t] = socket[t]
  BY <1>1, StageMoves
<1>3. UNCHANGED <<wsTicket, redisUp, outages>> /\ socket[s].stage # "none"
  BY DEF CountIn, AddOnline, Disconnect, CountOut, DeleteCount, RemoveOnline
<1>4. FreshTickets'
  BY <1>2, <1>3, FreshMoves
<1>5. conns' \in Int
  BY DEF CountIn, AddOnline, Disconnect, CountOut, DeleteCount, RemoveOnline, InRedis
<1>6. /\ s \in Counted <=> socket[s].stage \in {"counted", "live", "closing"}
      /\ s \in Counted' <=> stage \in {"counted", "live", "closing"}
  BY <1>2 DEF Counted
<1>7. /\ Cardinality(Counted) \in Nat
      /\ s \in Counted /\ s \in Counted' => Counted' = Counted
      /\ s \notin Counted /\ s \notin Counted' => Counted' = Counted
      /\ s \notin Counted /\ s \in Counted' =>
            Cardinality(Counted') = Cardinality(Counted) + 1
      /\ s \in Counted /\ s \notin Counted' =>
            Cardinality(Counted') = Cardinality(Counted) - 1
  BY <1>2, CountedMoves
<1>8. \A t \in Sockets \ {s} : socket[t].stage = "last" => socket'[t].stage = "last"
  BY <1>2
<1>9. stage # "gone" => Served' # {}
  BY <1>1, <1>2 DEF Served
<1>10. ASSUME outages = 0
       PROVE  /\ conns' <= Cardinality(Counted')
              /\ NegativeIsSeen'
              /\ online' => Served' # {}
  <2>1. CASE CountIn(s)
    <3>1. /\ socket[s].stage = "open" /\ conns' = conns + 1
          /\ SocketGoes(s, IF conns' = 1 THEN "counted" ELSE "live")
      BY <2>1 DEF CountIn
    <3>2. stage \in {"counted", "live"}
      BY <1>1, <1>2, <3>1, StageMoves DEF Stages
    <3>3. conns' <= Cardinality(Counted')
      BY <1>6, <1>7, <1>10, <3>1, <3>2
    <3> QED
      BY <1>8, <1>9, <1>10, <3>1, <3>2, <3>3 DEF NegativeIsSeen
  <2>2. CASE AddOnline(s)
    <3>1. socket[s].stage = "counted" /\ conns' = conns /\ SocketGoes(s, "live")
      BY <2>2 DEF AddOnline
    <3>2. stage = "live"
      BY <1>2, <3>1, StageMoves DEF Stages
    <3> QED
      BY <1>6, <1>7, <1>8, <1>9, <1>10, <3>1, <3>2 DEF NegativeIsSeen
  <2>3. CASE Disconnect(s)
    <3>1. socket[s].stage = "live" /\ conns' = conns /\ SocketGoes(s, "closing")
      BY <2>3 DEF Disconnect, InRedis
    <3>2. stage = "closing"
      BY <1>2, <3>1, StageMoves DEF Stages
    <3> QED
      BY <1>6, <1>7, <1>8, <1>9, <1>10, <3>1, <3>2 DEF NegativeIsSeen
  <2>4. CASE CountOut(s)
    <3>1. /\ socket[s].stage = "closing" /\ conns' = conns - 1
          /\ SocketGoes(s, IF conns' <= 0 THEN "last" ELSE "gone")
      BY <2>4 DEF CountOut, IsLast
    <3>2. stage = IF conns' <= 0 THEN "last" ELSE "gone"
      BY <1>2, <3>1, StageMoves DEF Stages
    <3>3. conns' <= Cardinality(Counted')
      BY <1>6, <1>7, <1>10, <3>1, <3>2
    <3>4. NegativeIsSeen'
      BY <1>2, <1>5, <3>2 DEF NegativeIsSeen
    <3>5. CASE conns' <= 0
      BY <1>9, <3>2, <3>3, <3>4, <3>5
    <3>6. CASE conns' > 0
      <4>1. Counted' # {}
        BY <1>5, <3>3, <3>6, FS_EmptySet
      <4>2. Served' # {}
        BY <4>1 DEF Counted, Served
      <4> QED
        BY <3>3, <3>4, <4>2
    <3> QED
      BY <1>5, <3>5, <3>6
  <2>5. CASE DeleteCount(s)
    <3>1. socket[s].stage = "last" /\ conns' = 0 /\ SocketGoes(s, "deleted")
      BY <2>5 DEF DeleteCount
    <3>2. stage = "deleted"
      BY <1>2, <3>1, StageMoves DEF Stages
    <3> QED
      BY <1>6, <1>7, <1>9, <3>1, <3>2 DEF NegativeIsSeen
  <2>6. CASE RemoveOnline(s)
    <3>1. /\ socket[s].stage = "deleted" /\ conns' = conns /\ online' = FALSE
          /\ SocketGoes(s, "gone")
      BY <2>6 DEF RemoveOnline
    <3>2. stage = "gone"
      BY <1>2, <3>1, StageMoves DEF Stages
    <3> QED
      BY <1>6, <1>7, <1>8, <1>10, <3>1, <3>2 DEF NegativeIsSeen
  <2> QED
    BY <2>1, <2>2, <2>3, <2>4, <2>5, <2>6
<1> QED
  BY <1>2, <1>3, <1>4, <1>5, <1>10

LEMMA PresenceStep == Presence /\ [RtNext]_rtVars => Presence'
<1> SUFFICES ASSUME Presence, [RtNext]_rtVars PROVE Presence'
  OBVIOUS
<1> USE DEF Presence
<1>1. ASSUME NEW s \in Sockets, NEW w \in Workers, CreateTicket(s, w) PROVE Presence'
  <2>1. wsTicket[s] # "spent"
    BY <1>1 DEF CreateTicket
  <2>2. FreshTickets'
    BY <1>1, <2>1 DEF CreateTicket, FreshTickets
  <2> QED
    BY <1>1, <2>2 DEF CreateTicket, InRedis, SocketsType, NegativeIsSeen, Counted, Served
<1>2. ASSUME NEW s \in Sockets, TicketExpires(s) PROVE Presence'
  <2>1. FreshTickets'
    BY <1>2, RealtimeAssumption DEF TicketExpires, FreshTickets
  <2> QED
    BY <1>2, <2>1 DEF TicketExpires, InRedis, SocketsType, NegativeIsSeen, Counted, Served
<1>3. ASSUME NEW s \in Sockets, NEW w \in Workers, Redeem(s, w) PROVE Presence'
  <2>1. /\ SocketsType' /\ socket'[s].stage = "open"
        /\ \A t \in Sockets \ {s} : socket'[t] = socket[t]
    BY <1>3 DEF Redeem, SocketsType, Socket, Stages
  <2>2. socket[s].stage = "none"
    BY <1>3, RealtimeAssumption DEF Redeem, FreshTickets
  <2>3. FreshTickets'
    BY <1>3, <2>1 DEF Redeem, FreshTickets
  <2>4. s \notin Counted /\ s \notin Counted'
    BY <2>1, <2>2 DEF Counted
  <2>5. Counted' = Counted
    BY <2>1, <2>4, CountedMoves
  <2>6. Served' # {}
    BY <2>1 DEF Served
  <2>7. UNCHANGED <<conns, online, redisUp, outages>>
    BY <1>3 DEF Redeem, InRedis
  <2>8. NegativeIsSeen => NegativeIsSeen'
    BY <2>1, <2>2, <2>7 DEF NegativeIsSeen
  <2> QED
    BY <2>1, <2>3, <2>5, <2>6, <2>7, <2>8
<1>4. ASSUME NEW s \in Sockets,
             CountIn(s) \/ AddOnline(s) \/ Disconnect(s) \/ CountOut(s)
               \/ DeleteCount(s) \/ RemoveOnline(s)
      PROVE  Presence'
  BY <1>4, CountsMove
<1>5. ASSUME NEW s \in Sockets, CountInFallback(s) \/ CountOutFallback(s)
      PROVE  Presence'
  <2>1. PICK stage \in Stages : SocketGoes(s, stage)
    BY <1>5 DEF CountInFallback, CountOutFallback, Stages
  <2>2. /\ UNCHANGED <<wsTicket, conns, redisUp, outages>>
        /\ socket[s].stage # "none" /\ outages > 0
    BY <1>5 DEF CountInFallback, CountOutFallback, InRedis
  <2>3. SocketsType' /\ FreshTickets'
    BY <2>1, <2>2, StageMoves, FreshMoves
  <2> QED
    BY <2>2, <2>3
<1>6. ASSUME UNCHANGED <<wsTicket, socket, InRedis, redisUp, outages>> PROVE Presence'
  BY <1>6 DEF InRedis, SocketsType, FreshTickets, NegativeIsSeen, Counted, Served
<1>7. CASE RedisFails \/ RedisReturns
  <2>1. /\ UNCHANGED <<wsTicket, socket, conns>> /\ outages' \in Nat /\ outages' > 0
    BY <1>7 DEF RedisFails, RedisReturns, InRedis
  <2> QED
    BY <2>1 DEF SocketsType, FreshTickets
<1>8. ASSUME NEW w \in Workers, WorkerDies(w) PROVE Presence'
  <2>1. conns' = conns /\ outages' \in Nat /\ outages' > 0
    BY <1>8 DEF WorkerDies, InRedis
  <2>2. SocketsType'
    BY <1>8 DEF WorkerDies, SocketsType, Socket, Stages
  <2>3. FreshTickets'
    <3>0. wsTicket' = [s \in Sockets |-> wsTicket'[s]]
      BY <1>8 DEF WorkerDies
    <3>1. SUFFICES ASSUME NEW s \in Sockets, wsTicket'[s] # "spent"
                   PROVE  socket'[s] = [stage |-> "none", at |-> Nowhere]
      BY <3>0 DEF FreshTickets
    <3>2. wsTicket[s] # "spent"
      BY <1>8, <3>1 DEF WorkerDies
    <3>3. socket[s] = [stage |-> "none", at |-> Nowhere] /\ Nowhere # w
      BY <3>2, RealtimeAssumption DEF FreshTickets
    <3> QED
      BY <1>8, <3>3 DEF WorkerDies
  <2> QED
    BY <2>1, <2>2, <2>3
<1> QED
  BY <1>1, <1>2, <1>3, <1>4, <1>5, <1>6, <1>7, <1>8
     DEF RtNext, rtVars, InRedis, Publish, DeliverLocal, Relay, Receive

LEMMA PresenceStarts == RtInit => Presence
<1> SUFFICES ASSUME RtInit PROVE Presence
  OBVIOUS
<1>1. Counted = {}
  BY DEF RtInit, Counted
<1>2. Cardinality(Counted) = 0
  BY <1>1, FS_EmptySet
<1> QED
  BY <1>2 DEF RtInit, Presence, SocketsType, Socket, Stages, FreshTickets, NegativeIsSeen

\* In whatever order the commands of connections that open and close at once
\* reach Redis: without an outage, a user with no connection is not online.
THEOREM NoGhostOnline == RtSpec => []NobodyLingers
<1>1. Presence => NobodyLingers
  BY EmptyIsZero DEF Presence, NobodyLingers
<1> QED
  BY <1>1, PresenceStarts, PresenceStep, PTL DEF RtSpec

---------------------------------------------------------------------------
(* Events: each connection gets an event once.                             *)

LEMMA ShowEffect ==
  ASSUME RtTypeOK, NEW e \in Events, NEW w, Show(e, w)
  PROVE  /\ shown' \in [Events -> [Sockets -> Nat]]
         /\ \A s \in Sockets : shown'[e][s] = IF s \in Registered(w) THEN shown[e][s] + 1
                                              ELSE shown[e][s]
         /\ \A f \in Events \ {e} : shown'[f] = shown[f]
<1> DEFINE row == [s \in Sockets |-> IF s \in Registered(w) THEN shown[e][s] + 1
                                     ELSE shown[e][s]]
<1>1. shown \in [Events -> [Sockets -> Nat]]
  BY DEF RtTypeOK
<1>2. shown' = [shown EXCEPT ![e] = row]
  BY DEF Show
<1>3. \A s \in Sockets : shown[e][s] \in Nat
  BY <1>1
<1>4. row \in [Sockets -> Nat]
  BY <1>3
<1>5. \A s \in Sockets : row[s] = IF s \in Registered(w) THEN shown[e][s] + 1
                                  ELSE shown[e][s]
  OBVIOUS
<1> HIDE DEF row
<1> QED
  BY <1>1, <1>2, <1>4, <1>5

LEMMA EventGoes ==
  ASSUME RtTypeOK, NEW e \in Events, NEW stage \in {"none", "published", "local", "relayed"},
         event' = [event EXCEPT ![e].stage = stage]
  PROVE  /\ event' \in [Events -> Event]
         /\ event'[e].stage = stage /\ event'[e].at = event[e].at
         /\ \A f \in Events \ {e} : event'[f] = event[f]
<1> DEFINE k == [event[e] EXCEPT !.stage = stage]
<1>1. event \in [Events -> Event] /\ event[e] \in Event
  BY DEF RtTypeOK
<1>2. k \in Event /\ k.stage = stage /\ k.at = event[e].at
  BY <1>1 DEF Event
<1>3. event' = [event EXCEPT ![e] = k]
  OBVIOUS
<1> HIDE DEF k
<1> QED
  BY <1>1, <1>2, <1>3

LEMMA RtTypeStep == RtTypeOK /\ [RtNext]_rtVars => RtTypeOK'
<1> SUFFICES ASSUME RtTypeOK, [RtNext]_rtVars PROVE RtTypeOK'
  OBVIOUS
<1>0. /\ SocketsType /\ conns \in Int /\ online \in BOOLEAN /\ redisUp \in BOOLEAN
      /\ wsTicket \in [Sockets -> {"none", "redis", "spent"} \cup Workers]
      /\ fallback \in [Workers -> Nat] /\ event \in [Events -> Event]
      /\ channel \in [Workers -> SUBSET Events]
      /\ shown \in [Events -> [Sockets -> Nat]] /\ outages \in 0 .. MaxOutages
  BY DEF RtTypeOK, SocketsType
<1>1. ASSUME NEW s \in Sockets, NEW x \in {"redis", "spent"} \cup Workers,
             wsTicket' = [wsTicket EXCEPT ![s] = x],
             UNCHANGED <<socket, InRedis, fallback, redisUp, Delivery, outages>>
      PROVE  RtTypeOK'
  BY <1>0, <1>1 DEF RtTypeOK, SocketsType, InRedis, Delivery
<1>2. ASSUME NEW s \in Sockets, NEW w \in Workers, CreateTicket(s, w) PROVE RtTypeOK'
  BY <1>1, <1>2 DEF CreateTicket
<1>3. ASSUME NEW s \in Sockets, TicketExpires(s) PROVE RtTypeOK'
  BY <1>1, <1>3 DEF TicketExpires
<1>4. ASSUME NEW s \in Sockets, NEW w \in Workers, Redeem(s, w) PROVE RtTypeOK'
  <2>1. [stage |-> "open", at |-> w] \in Socket
    BY DEF Socket, Stages
  <2> QED
    BY <1>0, <1>4, <2>1 DEF Redeem, RtTypeOK, SocketsType, InRedis, Delivery
<1>5. ASSUME NEW s \in Sockets, NEW stage \in Stages, SocketGoes(s, stage),
             conns' \in Int, online' \in BOOLEAN, fallback' \in [Workers -> Nat],
             UNCHANGED <<wsTicket, redisUp, Delivery, outages>>
      PROVE  RtTypeOK'
  <2>1. SocketsType'
    BY <1>0, <1>5, StageMoves
  <2> QED
    BY <1>0, <1>5, <2>1 DEF RtTypeOK, SocketsType, Delivery
<1>6. ASSUME NEW s \in Sockets,
             CountIn(s) \/ AddOnline(s) \/ Disconnect(s) \/ CountOut(s)
               \/ DeleteCount(s) \/ RemoveOnline(s)
      PROVE  RtTypeOK'
  <2>1. PICK stage \in Stages : SocketGoes(s, stage)
    BY <1>6 DEF CountIn, AddOnline, Disconnect, CountOut, DeleteCount, RemoveOnline, Stages
  <2>2. UNCHANGED <<fallback, wsTicket, redisUp, Delivery, outages>>
    BY <1>6 DEF CountIn, AddOnline, Disconnect, CountOut, DeleteCount, RemoveOnline
  <2>3. /\ conns' = conns \/ conns' = conns + 1 \/ conns' = conns - 1 \/ conns' = 0
        /\ online' = online \/ online' = TRUE \/ online' = FALSE
    BY <1>6 DEF CountIn, AddOnline, Disconnect, CountOut, DeleteCount, RemoveOnline,
                InRedis
  <2>4. conns' \in Int
    BY <1>0, <2>3
  <2>5. online' \in BOOLEAN
    BY <1>0, <2>3
  <2>6. fallback' \in [Workers -> Nat]
    BY <1>0, <2>2
  <2> QED
    BY <1>5, <2>1, <2>2, <2>4, <2>5, <2>6
<1>7. ASSUME NEW s \in Sockets, CountInFallback(s) \/ CountOutFallback(s) PROVE RtTypeOK'
  <2>1. PICK stage \in Stages : SocketGoes(s, stage)
    BY <1>7 DEF CountInFallback, CountOutFallback, Stages
  <2>2. UNCHANGED <<InRedis, wsTicket, redisUp, Delivery, outages>>
    BY <1>7 DEF CountInFallback, CountOutFallback
  <2>3. PICK w : w = socket[s].at
    OBVIOUS
  <2>4. \/ fallback' = [fallback EXCEPT ![w] = fallback[w] + 1]
        \/ fallback' = [fallback EXCEPT ![w] = IF fallback[w] > 0 THEN fallback[w] - 1 ELSE 0]
    BY <1>7, <2>3 DEF CountInFallback, CountOutFallback
  <2>5. fallback' \in [Workers -> Nat]
    BY <1>0, <2>4
  <2> QED
    BY <1>0, <1>5, <2>1, <2>2, <2>5 DEF InRedis
<1>8. ASSUME NEW e \in Events, NEW w \in Workers, Publish(e, w) PROVE RtTypeOK'
  <2>1. [stage |-> "published", at |-> w] \in Event
    BY DEF Event
  <2> QED
    BY <1>0, <1>8, <2>1 DEF Publish, RtTypeOK, InRedis
<1>9. ASSUME NEW e \in Events, DeliverLocal(e) PROVE RtTypeOK'
  <2>1. event' \in [Events -> Event]
    BY <1>9, EventGoes DEF DeliverLocal
  <2>2. shown' \in [Events -> [Sockets -> Nat]]
    BY <1>9, ShowEffect DEF DeliverLocal
  <2> QED
    BY <1>0, <1>9, <2>1, <2>2 DEF DeliverLocal, RtTypeOK, InRedis
<1>10. ASSUME NEW e \in Events, Relay(e) PROVE RtTypeOK'
  <2>1. event' \in [Events -> Event]
    BY <1>10, EventGoes DEF Relay
  <2>2. channel' \in [Workers -> SUBSET Events]
    BY <1>0, <1>10 DEF Relay
  <2> QED
    BY <1>0, <1>10, <2>1, <2>2 DEF Relay, RtTypeOK, InRedis
<1>11. ASSUME NEW e \in Events, NEW w \in Workers, Receive(w, e) PROVE RtTypeOK'
  <2>1. shown' \in [Events -> [Sockets -> Nat]]
    BY <1>0, <1>11, ShowEffect DEF Receive
  <2>2. channel' \in [Workers -> SUBSET Events]
    BY <1>0, <1>11 DEF Receive
  <2> QED
    BY <1>0, <1>11, <2>1, <2>2 DEF Receive, RtTypeOK, InRedis
<1>12. CASE RedisFails
  <2>1. channel' \in [Workers -> SUBSET Events] /\ outages' \in 0 .. MaxOutages
    BY <1>0, <1>12, RealtimeAssumption DEF RedisFails
  <2> QED
    BY <1>0, <1>12, <2>1 DEF RedisFails, RtTypeOK, InRedis
<1>13. CASE RedisReturns
  BY <1>0, <1>13 DEF RedisReturns, RtTypeOK, InRedis, Delivery
<1>14. ASSUME NEW w \in Workers, WorkerDies(w) PROVE RtTypeOK'
  <2>1. outages' \in 0 .. MaxOutages
    BY <1>0, <1>14, RealtimeAssumption DEF WorkerDies
  <2>2. socket' \in [Sockets -> Socket]
    BY <1>0, <1>14 DEF WorkerDies, SocketsType, Socket, Stages
  <2>3. event' \in [Events -> Event]
    BY <1>0, <1>14 DEF WorkerDies, Event
  <2>4. wsTicket' \in [Sockets -> {"none", "redis", "spent"} \cup Workers]
    BY <1>0, <1>14 DEF WorkerDies
  <2>5. fallback' \in [Workers -> Nat] /\ channel' \in [Workers -> SUBSET Events]
    BY <1>0, <1>14 DEF WorkerDies
  <2> QED
    BY <1>0, <1>14, <2>1, <2>2, <2>3, <2>4, <2>5 DEF WorkerDies, RtTypeOK, InRedis
<1>15. CASE UNCHANGED rtVars
  BY <1>15 DEF rtVars, InRedis, RtTypeOK
<1> QED
  BY <1>2, <1>3, <1>4, <1>6, <1>7, <1>8, <1>9, <1>10, <1>11, <1>12, <1>13, <1>14, <1>15
     DEF RtNext

\* A connection is served by a worker.
Hosted == \A s \in Sockets : socket[s].stage # "none" => socket[s].at \in Workers

LEMMA HostedStep ==
  SocketsType /\ FreshTickets /\ Hosted /\ [RtNext]_rtVars => Hosted'
<1> SUFFICES ASSUME SocketsType, FreshTickets, Hosted, [RtNext]_rtVars PROVE Hosted'
  OBVIOUS
<1>1. ASSUME NEW s \in Sockets, NEW w \in Workers, Redeem(s, w) PROVE Hosted'
  BY <1>1 DEF Redeem, Hosted, SocketsType
<1>2. ASSUME NEW s \in Sockets,
             CountIn(s) \/ AddOnline(s) \/ Disconnect(s) \/ CountOut(s)
               \/ DeleteCount(s) \/ RemoveOnline(s)
               \/ CountInFallback(s) \/ CountOutFallback(s)
      PROVE  Hosted'
  <2>1. socket[s].stage # "none" /\ \E stage \in Stages : SocketGoes(s, stage)
    BY <1>2 DEF CountIn, AddOnline, Disconnect, CountOut, DeleteCount, RemoveOnline,
                CountInFallback, CountOutFallback, Stages
  <2> QED
    BY <2>1 DEF SocketGoes, SocketsType, Socket, Hosted
<1>3. ASSUME NEW w \in Workers, WorkerDies(w) PROVE Hosted'
  BY <1>3 DEF WorkerDies, SocketsType, Socket, Hosted
<1>4. ASSUME UNCHANGED socket PROVE Hosted'
  BY <1>4 DEF Hosted
<1> QED
  BY <1>1, <1>2, <1>3, <1>4
     DEF RtNext, rtVars, CreateTicket, TicketExpires, Publish, DeliverLocal, Relay,
         Receive, RedisFails, RedisReturns

\* Connections that only move on do not change what was shown to whom.
LEMMA RelayKept ==
  ASSUME RtInv, \A s \in Sockets : socket'[s].at = socket[s].at,
         \A s \in Sockets : socket'[s].stage = "none" => socket[s].stage = "none",
         UNCHANGED Delivery
  PROVE  ShownOnce' /\ RelayBehaves'
<1>1. UNCHANGED <<event, channel, shown>>
  BY DEF Delivery
<1> QED
  BY <1>1 DEF RtInv, ShownOnce, RelayBehaves

LEMMA RelayStep ==
  RtInv /\ FreshTickets /\ Hosted /\ [RtNext]_rtVars => ShownOnce' /\ RelayBehaves'
<1> SUFFICES ASSUME RtInv, FreshTickets, Hosted, [RtNext]_rtVars
             PROVE  ShownOnce' /\ RelayBehaves'
  OBVIOUS
<1>0. /\ RtTypeOK /\ ShownOnce /\ RelayBehaves /\ SocketsType
      /\ event \in [Events -> Event] /\ channel \in [Workers -> SUBSET Events]
      /\ shown \in [Events -> [Sockets -> Nat]]
  BY DEF RtInv, RtTypeOK, SocketsType
<1>a. ASSUME NEW e \in Events, NEW s \in Sockets, shown[e][s] > 0
      PROVE  socket[s].at \in Workers
  BY <1>0, <1>a DEF RelayBehaves, Hosted
<1>1. ASSUME UNCHANGED <<socket, event, shown>>,
             \A w \in Workers : channel'[w] \subseteq channel[w]
      PROVE  ShownOnce' /\ RelayBehaves'
  <2>1. \A e \in Events, w \in Workers : e \notin channel[w] => e \notin channel'[w]
    BY <1>1
  <2>2. ASSUME NEW e \in Events, NEW s \in Sockets, shown[e][s] > 0,
               socket[s].at # event[e].at
        PROVE  event[e].stage = "relayed" /\ e \notin channel'[socket[s].at]
    BY <1>0, <1>a, <1>1, <2>1, <2>2 DEF RelayBehaves
  <2> QED
    BY <1>0, <1>1, <2>1, <2>2 DEF ShownOnce, RelayBehaves
<1>2. ASSUME NEW s \in Sockets, NEW w \in Workers, Redeem(s, w)
      PROVE  ShownOnce' /\ RelayBehaves'
  <2>1. socket[s].stage = "none"
    BY <1>2, RealtimeAssumption DEF Redeem, FreshTickets
  <2>2. \A e \in Events : shown[e][s] = 0
    BY <1>0, <2>1 DEF RelayBehaves
  <2>3. socket'[s].stage = "open" /\ \A t \in Sockets \ {s} : socket'[t] = socket[t]
    BY <1>0, <1>2 DEF Redeem, SocketsType
  <2>4. UNCHANGED <<event, channel, shown>>
    BY <1>2 DEF Redeem, Delivery
  <2> QED
    BY <1>0, <2>2, <2>3, <2>4 DEF ShownOnce, RelayBehaves
<1>3. ASSUME NEW s \in Sockets,
             CountIn(s) \/ AddOnline(s) \/ Disconnect(s) \/ CountOut(s)
               \/ DeleteCount(s) \/ RemoveOnline(s)
               \/ CountInFallback(s) \/ CountOutFallback(s)
      PROVE  ShownOnce' /\ RelayBehaves'
  <2>1. PICK stage \in Stages \ {"none"} : SocketGoes(s, stage)
    BY <1>3 DEF CountIn, AddOnline, Disconnect, CountOut, DeleteCount, RemoveOnline,
                CountInFallback, CountOutFallback, Stages
  <2>2. UNCHANGED Delivery
    BY <1>3 DEF CountIn, AddOnline, Disconnect, CountOut, DeleteCount, RemoveOnline,
                CountInFallback, CountOutFallback
  <2>3. \A t \in Sockets : /\ socket'[t].at = socket[t].at
                           /\ socket'[t].stage = "none" => socket[t].stage = "none"
    BY <1>0, <2>1 DEF SocketGoes, SocketsType, Socket
  <2> QED
    BY <2>2, <2>3, RelayKept
<1>4. ASSUME NEW e \in Events, NEW w \in Workers, Publish(e, w)
      PROVE  ShownOnce' /\ RelayBehaves'
  <2>1. /\ event[e].stage = "none" /\ UNCHANGED <<socket, channel, shown>>
        /\ event' = [event EXCEPT ![e] = [stage |-> "published", at |-> w]]
    BY <1>4 DEF Publish
  <2>2. /\ event'[e].stage = "published"
        /\ \A f \in Events \ {e} : event'[f] = event[f]
    BY <1>0, <2>1
  <2>3. \A s \in Sockets : shown[e][s] = 0
    BY <1>0, <2>1 DEF RelayBehaves
  <2> QED
    BY <1>0, <2>1, <2>2, <2>3 DEF ShownOnce, RelayBehaves
<1>5. ASSUME NEW e \in Events, DeliverLocal(e) PROVE ShownOnce' /\ RelayBehaves'
  <2>1. /\ event[e].stage = "published" /\ UNCHANGED <<socket, channel>>
        /\ event' = [event EXCEPT ![e].stage = "local"] /\ Show(e, event[e].at)
    BY <1>5 DEF DeliverLocal
  <2>2. /\ event'[e].stage = "local" /\ event'[e].at = event[e].at
        /\ \A f \in Events \ {e} : event'[f] = event[f]
    BY <1>0, <2>1, EventGoes
  <2>3. \A s \in Sockets : shown[e][s] = 0
    BY <1>0, <2>1 DEF RelayBehaves
  <2>4. /\ \A s \in Sockets : shown'[e][s] = IF s \in Registered(event[e].at)
                                             THEN shown[e][s] + 1 ELSE shown[e][s]
        /\ \A f \in Events \ {e} : shown'[f] = shown[f]
    BY <1>0, <2>1, ShowEffect
  <2>5. ASSUME NEW s \in Sockets
        PROVE  /\ shown'[e][s] = 0 \/ (shown'[e][s] = 1 /\ s \in Registered(event[e].at))
    BY <2>3, <2>4
  <2>6. \A s \in Registered(event[e].at) : /\ socket[s].at = event[e].at
                                           /\ socket[s].stage # "none"
    BY DEF Registered
  <2>7. ASSUME NEW f \in Events, NEW s \in Sockets PROVE shown'[f][s] <= 1
    BY <1>0, <2>4, <2>5 DEF ShownOnce
  <2>8. \A w \in Workers : e \notin channel[w]
    BY <1>0, <2>1 DEF RelayBehaves
  <2>9. RelayBehaves'
    BY <1>0, <2>1, <2>2, <2>4, <2>5, <2>6, <2>8 DEF RelayBehaves
  <2> QED
    BY <2>7, <2>9 DEF ShownOnce
<1>6. ASSUME NEW e \in Events, Relay(e) PROVE ShownOnce' /\ RelayBehaves'
  <2>1. /\ event[e].stage = "local" /\ UNCHANGED <<socket, shown>>
        /\ event' = [event EXCEPT ![e].stage = "relayed"]
        /\ channel' = IF redisUp THEN [w \in Workers |-> channel[w] \cup {e}] ELSE channel
    BY <1>6 DEF Relay
  <2>2. /\ event'[e].stage = "relayed" /\ event'[e].at = event[e].at
        /\ \A f \in Events \ {e} : event'[f] = event[f]
    BY <1>0, <2>1, EventGoes
  <2>3. \A s \in Sockets : shown[e][s] > 0 => socket[s].at = event[e].at
    BY <1>0, <2>1 DEF RelayBehaves
  <2>4. /\ \A w \in Workers, f \in Events \ {e} : f \in channel'[w] => f \in channel[w]
        /\ DOMAIN channel' = Workers /\ DOMAIN channel = Workers
    BY <1>0, <2>1
  <2>6. ASSUME NEW f \in Events \ {e}, NEW s \in Sockets,
               shown[f][s] > 0, socket[s].at # event[f].at
        PROVE  event[f].stage = "relayed" /\ f \notin channel'[socket[s].at]
    <3>1. event[f].stage = "relayed" /\ f \notin channel[socket[s].at]
      BY <1>0, <2>6 DEF RelayBehaves
    <3> QED
      BY <1>a, <2>4, <2>6, <3>1
  <2>7. RelayBehaves'
    <3>1. ASSUME NEW f \in Events, NEW s \in Sockets
          PROVE  /\ shown'[f][s] > 0 => event'[f].stage \notin {"none", "published"}
                 /\ shown'[f][s] > 0 /\ socket'[s].at # event'[f].at =>
                       event'[f].stage = "relayed" /\ f \notin channel'[socket'[s].at]
                 /\ socket'[s].stage = "none" => shown'[f][s] = 0
      <4>1. CASE f = e
        BY <1>0, <2>1, <2>2, <2>3, <4>1 DEF RelayBehaves
      <4>2. CASE f # e
        BY <1>0, <2>1, <2>2, <2>4, <2>6, <4>2 DEF RelayBehaves
      <4> QED
        BY <4>1, <4>2
    <3>2. ASSUME NEW f \in Events, event'[f].stage # "relayed"
          PROVE  \A w \in Workers : f \notin channel'[w]
      <4>1. f # e /\ event[f].stage # "relayed"
        BY <2>2, <3>2
      <4> QED
        BY <1>0, <2>4, <4>1 DEF RelayBehaves
    <3> QED
      BY <3>1, <3>2 DEF RelayBehaves
  <2> QED
    BY <1>0, <2>1, <2>7 DEF ShownOnce
<1>7. ASSUME NEW e \in Events, NEW w \in Workers, Receive(w, e)
      PROVE  ShownOnce' /\ RelayBehaves'
  <2>1. /\ e \in channel[w] /\ UNCHANGED <<socket, event>>
        /\ channel' = [channel EXCEPT ![w] = @ \ {e}]
        /\ UNCHANGED shown \/ (Show(e, w) /\ event[e].at # w)
    BY <1>7 DEF Receive, Echo
  <2>2. /\ \A v \in Workers : channel'[v] \subseteq channel[v]
        /\ e \notin channel'[w]
    BY <1>0, <2>1
  <2>3. event[e].stage = "relayed"
    BY <1>0, <2>1 DEF RelayBehaves
  <2>4. CASE UNCHANGED shown
    BY <1>1, <2>1, <2>2, <2>4
  <2>5. CASE Show(e, w) /\ event[e].at # w
    <3>1. /\ \A s \in Sockets : shown'[e][s] = IF s \in Registered(w)
                                               THEN shown[e][s] + 1 ELSE shown[e][s]
          /\ \A f \in Events \ {e} : shown'[f] = shown[f]
      BY <1>0, <2>5, ShowEffect
    <3>2. ASSUME NEW s \in Registered(w)
          PROVE  /\ shown[e][s] = 0 /\ socket[s].at = w /\ socket[s].stage # "none"
                 /\ s \in Sockets
      <4>1. s \in Sockets /\ socket[s].at = w /\ socket[s].stage # "none"
        BY <3>2 DEF Registered
      <4>2. ~(shown[e][s] > 0)
        BY <1>0, <2>1, <2>5, <4>1 DEF RelayBehaves
      <4>3. shown[e][s] \in Nat
        BY <1>0, <4>1
      <4> QED
        BY <4>1, <4>2, <4>3
    <3>3. ASSUME NEW s \in Sockets
          PROVE  \/ shown'[e][s] = shown[e][s]
                 \/ shown'[e][s] = 1 /\ socket[s].at = w /\ socket[s].stage # "none"
      BY <3>1, <3>2
    <3>4. ShownOnce'
      BY <1>0, <3>1, <3>3 DEF ShownOnce
    <3>5. ASSUME NEW f \in Events, NEW s \in Sockets,
                 shown'[f][s] > 0, socket[s].at # event[f].at
          PROVE  event[f].stage = "relayed" /\ f \notin channel'[socket[s].at]
      <4>1. CASE f = e /\ socket[s].at = w
        BY <2>2, <2>3, <4>1
      <4>2. CASE ~(f = e /\ socket[s].at = w)
        <5>1. shown[f][s] > 0
          BY <3>1, <3>3, <3>5, <4>2
        <5>2. event[f].stage = "relayed" /\ f \notin channel[socket[s].at]
          BY <1>0, <3>5, <5>1 DEF RelayBehaves
        <5> QED
          BY <1>a, <2>2, <5>1, <5>2
      <4> QED
        BY <4>1, <4>2
    <3>6. ASSUME NEW f \in Events, NEW s \in Sockets
          PROVE  /\ shown'[f][s] > 0 => event[f].stage \notin {"none", "published"}
                 /\ socket[s].stage = "none" => shown'[f][s] = 0
      <4>1. CASE f = e
        BY <1>0, <2>2, <2>3, <3>3, <4>1 DEF RelayBehaves
      <4>2. CASE f # e
        BY <1>0, <2>2, <3>1, <4>2 DEF RelayBehaves
      <4> QED
        BY <4>1, <4>2
    <3>7. ASSUME NEW f \in Events, event[f].stage # "relayed"
          PROVE  \A v \in Workers : f \notin channel'[v]
      BY <1>0, <2>2, <3>7 DEF RelayBehaves
    <3>8. RelayBehaves'
      BY <2>1, <3>5, <3>6, <3>7 DEF RelayBehaves
    <3> QED
      BY <3>4, <3>8
  <2> QED
    BY <2>1, <2>4, <2>5
<1>8. CASE RedisFails
  BY <1>0, <1>1, <1>8 DEF RedisFails
<1>9. ASSUME NEW w \in Workers, WorkerDies(w) PROVE ShownOnce' /\ RelayBehaves'
  <2>1. /\ \A s \in Sockets : /\ socket'[s].at = socket[s].at
                              /\ socket'[s].stage = "none" => socket[s].stage = "none"
    BY <1>0, <1>9 DEF WorkerDies, SocketsType, Socket
  <2>2. \A e \in Events : /\ event'[e].at = event[e].at
                          /\ event'[e].stage = "relayed" \/ event'[e] = event[e]
    BY <1>0, <1>9 DEF WorkerDies, Event
  <2>3. UNCHANGED shown /\ \A x \in Workers : channel'[x] \subseteq channel[x]
    BY <1>0, <1>9 DEF WorkerDies
  <2> QED
    BY <1>0, <1>a, <2>1, <2>2, <2>3 DEF ShownOnce, RelayBehaves
<1>10. ASSUME UNCHANGED <<socket, Delivery>> PROVE ShownOnce' /\ RelayBehaves'
  BY <1>10, RelayKept
<1> QED
  BY <1>2, <1>3, <1>4, <1>5, <1>6, <1>7, <1>8, <1>9, <1>10
     DEF RtNext, rtVars, CreateTicket, TicketExpires, RedisReturns, Delivery

\* Presence and delivery together.
LEMMA RealtimeStep ==
  RtInv /\ Presence /\ Hosted /\ [RtNext]_rtVars => RtInv' /\ Presence' /\ Hosted'
<1>1. Presence => FreshTickets /\ SocketsType
  BY DEF Presence
<1>2. RtInv => RtTypeOK
  BY DEF RtInv
<1> QED
  BY <1>1, <1>2, RtTypeStep, RelayStep, HostedStep, PresenceStep DEF RtInv

LEMMA RealtimeStarts == RtInit => RtInv /\ Presence /\ Hosted
<1> SUFFICES ASSUME RtInit PROVE RtInv /\ Presence /\ Hosted
  OBVIOUS
<1>1. Presence
  BY PresenceStarts
<1>2. RtTypeOK
  <2>1. /\ socket \in [Sockets -> Socket] /\ event \in [Events -> Event]
    BY DEF RtInit, Socket, Stages, Event
  <2>2. shown \in [Events -> [Sockets -> Nat]] /\ outages \in 0 .. MaxOutages
    BY RealtimeAssumption DEF RtInit
  <2>3. wsTicket \in [Sockets -> {"none", "redis", "spent"} \cup Workers]
    BY DEF RtInit
  <2>4. fallback \in [Workers -> Nat]
    BY DEF RtInit
  <2>5. channel \in [Workers -> SUBSET Events]
    BY DEF RtInit
  <2>6. conns \in Int
    BY DEF RtInit
  <2>7. online \in BOOLEAN
    BY Zenon DEF RtInit
  <2>8. redisUp \in BOOLEAN
    BY Zenon DEF RtInit
  <2> QED
    BY <2>1, <2>2, <2>3, <2>4, <2>5, <2>6, <2>7, <2>8 DEF RtTypeOK
<1>3. ShownOnce /\ RelayBehaves /\ Hosted
  BY DEF RtInit, ShownOnce, RelayBehaves, Hosted
<1> QED
  BY <1>1, <1>2, <1>3 DEF RtInv

\* Whichever worker a connection is opened on while an event is on its way, and
\* whatever fails: nobody gets the event twice.
THEOREM EventsAreShownOnce == RtSpec => []ShownOnce
<1>1. RtInv => ShownOnce
  BY DEF RtInv
<1> QED
  BY <1>1, RealtimeStarts, RealtimeStep, PTL DEF RtSpec

---------------------------------------------------------------------------
(* Read receipts.                                                          *)

MessageFields == {"sent", "from", "system", "to", "read"}

RequestFields == {"stage", "op", "by", "seen", "msg", "id", "offends"}

IsMessage(x) == x = [f \in MessageFields |-> x[f]]

\* What the proof needs of the types.
ChatShape ==
  /\ message = [m \in Messages |-> message[m]]
  /\ \A m \in Messages : IsMessage(message[m])
  /\ request = [r \in Requests |-> request[r]]
  /\ \A r \in Requests : request[r] = [f \in RequestFields |-> request[r][f]]
  /\ opened = [s \in Sides |-> opened[s]]

\* A request in hand: its message is new, the row it posted is its own, and
\* only participants read.
Honest(r) ==
  LET k == request[r] IN
  /\ IsMessage(k.msg) /\ ~k.msg.read
  /\ k.stage = "posted" => /\ k.id \in Messages \ {NoOne} /\ ~message[k.id].sent
                           /\ \A q \in Requests \ {r} : request[q].id # k.id
  /\ k.stage # "posted" => k.id = NoOne
  /\ k.op = "read" \/ k.stage = "zeroed" => k.by \in Sides

Receipts ==
  /\ ChatShape
  /\ \A r \in Requests : Honest(r)
  /\ \A m \in Messages : message[m].read => message[m].sent
  /\ \A s \in Sides : \A m \in Messages : m \in opened[s] => message[m].sent
  /\ ReceiptsHonest

\* A request whose row has not been posted has no row.
LEMMA OthersStayHonest ==
  ASSUME Receipts, NEW r \in Requests,
         \A q \in Requests \ {r} : request'[q] = request[q],
         request'[r].id \in {NoOne, request[r].id},
         UNCHANGED message
  PROVE  \A q \in Requests \ {r} : Honest(q)'
  BY DEF Receipts, Honest

LEMMA LoadsEffect ==
  ASSUME ChatShape, NEW r \in Requests, NEW op, NEW p, NEW seen, NEW msg, NEW offends,
         Loads(r, op, p, seen, msg, offends)
  PROVE  /\ request' = [q \in Requests |-> request'[q]]
         /\ \A q \in Requests \ {r} : request'[q] = request[q]
         /\ request'[r] = [f \in RequestFields |-> request'[r][f]]
         /\ request'[r].stage = "loaded" /\ request'[r].op = op /\ request'[r].by = p
         /\ request'[r].msg = msg /\ request'[r].id = NoOne
<1> DEFINE k == [Idle EXCEPT !.stage = "loaded", !.op = op, !.by = p,
                             !.seen = seen, !.msg = msg, !.offends = offends]
<1>1. /\ k = [f \in RequestFields |-> k[f]]
      /\ k.stage = "loaded" /\ k.op = op /\ k.by = p /\ k.msg = msg /\ k.id = NoOne
  BY DEF Idle, RequestFields
<1>2. request' = [q \in Requests |-> IF q = r THEN k ELSE request[q]]
  BY DEF Loads, ChatShape
<1> HIDE DEF k
<1> QED
  BY <1>1, <1>2

\* The messages that are drafted.
LEMMA Drafts ==
  /\ IsMessage(NoMessage) /\ ~NoMessage.read
  /\ \A p : IsMessage(Draft(p)) /\ ~Draft(p).read
  /\ \A x : LET y == [NoMessage EXCEPT !.system = TRUE, !.to = x]
            IN  IsMessage(y) /\ ~y.read
  BY DEF IsMessage, NoMessage, Draft, MessageFields

\* A step that moves one request, and that reads or writes no message.
LEMMA RequestMoves ==
  ASSUME Receipts, NEW r \in Requests,
         request' = [q \in Requests |-> request'[q]],
         \A q \in Requests \ {r} : request'[q] = request[q],
         request'[r] = [f \in RequestFields |-> request'[r][f]],
         request'[r].id \in {NoOne, request[r].id},
         Honest(r)', UNCHANGED <<message, opened>>
  PROVE  Receipts'
<1>1. \A q \in Requests : Honest(q)'
  BY OthersStayHonest
<1>2. ChatShape'
  BY DEF Receipts, ChatShape
<1> QED
  BY <1>1, <1>2 DEF Receipts, ReceiptsHonest

\* A request that loads what it is going to work on.
LEMMA LoadsHonestly ==
  ASSUME Receipts, NEW r \in Requests, NEW op, NEW p, NEW seen, NEW msg, NEW offends,
         Loads(r, op, p, seen, msg, offends),
         IsMessage(msg), ~msg.read, op = "read" => p \in Sides,
         UNCHANGED <<message, opened>>
  PROVE  Receipts'
<1>1. /\ request' = [q \in Requests |-> request'[q]]
      /\ \A q \in Requests \ {r} : request'[q] = request[q]
      /\ request'[r] = [f \in RequestFields |-> request'[r][f]]
      /\ request'[r].stage = "loaded" /\ request'[r].op = op /\ request'[r].by = p
      /\ request'[r].msg = msg /\ request'[r].id = NoOne
  BY LoadsEffect DEF Receipts
<1>2. Honest(r)'
  BY <1>1 DEF Honest
<1> QED
  BY <1>1, <1>2, RequestMoves

\* A request that ends has nothing in hand.
LEMMA EndsEffect ==
  ASSUME ChatShape, NEW r \in Requests, Ends(r)
  PROVE  /\ request' = [q \in Requests |-> request'[q]]
         /\ \A q \in Requests \ {r} : request'[q] = request[q]
         /\ request'[r] = [f \in RequestFields |-> request'[r][f]]
         /\ request'[r].id = NoOne /\ Honest(r)'
<1>1. /\ Idle = [f \in RequestFields |-> Idle[f]]
      /\ Idle.id = NoOne /\ Idle.stage = "idle" /\ Idle.op = "none"
      /\ Idle.msg = NoMessage
  BY DEF Idle, RequestFields
<1>2. request' = [q \in Requests |-> IF q = r THEN Idle ELSE request[q]]
  BY DEF Ends, ChatShape
<1>3. request'[r] = Idle
  BY <1>2
<1>4. Honest(r)'
  BY <1>1, <1>3, Drafts DEF Honest
<1> QED
  BY <1>1, <1>2, <1>3, <1>4

LEMMA PostEffect ==
  ASSUME Receipts, NEW r \in Requests, NEW m \in Messages, Post(r, m)
  PROVE  Receipts'
<1>1. /\ request[r].stage = "loaded" /\ request[r].op \in {"start", "send", "system"}
      /\ ~message[m].sent /\ \A q \in Requests : request[q].id # m
      /\ UNCHANGED <<message, opened>>
  BY DEF Post
<1> DEFINE k == [request[r] EXCEPT !.stage = "posted", !.id = m]
<1>2. request' = [q \in Requests |-> IF q = r THEN k ELSE request[q]]
  BY DEF Post, Receipts, ChatShape
<1>3. request[r] = [f \in RequestFields |-> request[r][f]]
  BY DEF Receipts, ChatShape
<1>4. k = [f \in RequestFields |-> CASE f = "stage" -> "posted" [] f = "id" -> m
                                   [] OTHER -> request[r][f]]
  BY <1>3 DEF RequestFields
<1>5. /\ k = [f \in RequestFields |-> k[f]] /\ k.stage = "posted" /\ k.id = m
      /\ k.op = request[r].op /\ k.msg = request[r].msg
  BY <1>4 DEF RequestFields
<1> HIDE DEF k
<1>6. m # NoOne
  BY <1>1 DEF Receipts, Honest
<1>7. Honest(r)'
  BY <1>1, <1>2, <1>5, <1>6 DEF Receipts, Honest
<1>8. \A q \in Requests \ {r} : Honest(q)'
  BY <1>1, <1>2, <1>5 DEF Receipts, Honest
<1>9. ChatShape'
  BY <1>1, <1>2, <1>5 DEF Receipts, ChatShape
<1> QED
  BY <1>1, <1>7, <1>8, <1>9 DEF Receipts, ReceiptsHonest

\* A new message is unread.
LEMMA CommitEffect ==
  ASSUME Receipts, NEW r \in Requests, CommitMessage(r)
  PROVE  Receipts'
<1>0. PICK n : n = request[r].id
  OBVIOUS
<1>1. /\ request[r].stage = "posted" /\ Ends(r) /\ UNCHANGED opened
      /\ message' = [message EXCEPT ![n] = [request[r].msg EXCEPT !.sent = TRUE]]
  BY <1>0 DEF CommitMessage
<1>2. /\ n \in Messages /\ \A q \in Requests \ {r} : request[q].id # n
      /\ IsMessage(request[r].msg) /\ ~request[r].msg.read
  BY <1>0, <1>1 DEF Receipts, Honest
<1> DEFINE x == [request[r].msg EXCEPT !.sent = TRUE]
<1>3. x = [f \in MessageFields |-> IF f = "sent" THEN TRUE ELSE request[r].msg[f]]
  BY <1>2 DEF IsMessage, MessageFields
<1>4. IsMessage(x) /\ ~x.read /\ x.sent
  BY <1>2, <1>3 DEF IsMessage, MessageFields
<1>5. message' = [m \in Messages |-> IF m = n THEN x ELSE message[m]]
  BY <1>1, <1>2 DEF Receipts, ChatShape
<1> HIDE DEF x
<1>6. /\ request' = [q \in Requests |-> request'[q]]
      /\ \A q \in Requests \ {r} : request'[q] = request[q]
      /\ request'[r] = [f \in RequestFields |-> request'[r][f]]
      /\ request'[r].id = NoOne /\ Honest(r)'
  BY <1>1, EndsEffect DEF Receipts
<1>7. \A q \in Requests \ {r} : Honest(q)'
  BY <1>2, <1>5, <1>6 DEF Receipts, Honest
<1>8. ChatShape'
  <2>1. message' = [m \in Messages |-> message'[m]]
    BY <1>5
  <2>2. \A m \in Messages : IsMessage(message'[m])
    BY <1>4, <1>5 DEF Receipts, ChatShape
  <2>3. \A q \in Requests : request'[q] = [f \in RequestFields |-> request'[q][f]]
    BY <1>6 DEF Receipts, ChatShape
  <2> QED
    BY <1>1, <1>6, <2>1, <2>2, <2>3 DEF Receipts, ChatShape
<1>9. /\ \A m \in Messages : message'[m].read => message'[m].sent
      /\ \A m \in Messages \ {n} : message'[m] = message[m]
      /\ ~message'[n].read /\ message'[n].sent
  BY <1>2, <1>4, <1>5 DEF Receipts
<1>10. ~message[n].sent
  BY <1>0, <1>1 DEF Receipts, Honest
<1>11. \A s \in Sides : n \notin opened[s]
  BY <1>2, <1>10 DEF Receipts
<1>12. \A s \in Sides : \A m \in Messages : m \in opened'[s] => message'[m].sent
  BY <1>1, <1>9, <1>11 DEF Receipts
<1>13. ASSUME NEW m \in Messages, message'[m].sent, message'[m].from \in Sides
       PROVE  message'[m].read <=> m \in opened'[Other(message'[m].from)]
  <2>1. CASE m = n
    <3>1. Other(message'[m].from) \in Sides
      BY DEF Other, Sides
    <3> QED
      BY <1>1, <1>9, <1>11, <2>1, <3>1
  <2>2. CASE m # n
    BY <1>1, <1>9, <1>13, <2>2 DEF Receipts, ReceiptsHonest
  <2> QED
    BY <2>1, <2>2
<1>14. ReceiptsHonest'
  BY <1>13 DEF ReceiptsHonest
<1> QED
  BY <1>6, <1>7, <1>8, <1>9, <1>12, <1>14 DEF Receipts

\* Who gets the messages marks the others' messages, all of them.
LEMMA ReadEffect ==
  ASSUME Receipts, NEW r \in Requests, GetMessages(r)
  PROVE  Receipts'
<1>0. PICK s : s = request[r].by
  OBVIOUS
<1>1. s \in Sides /\ Ends(r)
  BY <1>0 DEF GetMessages, Receipts, Honest
<1>2. /\ message' = [m \in Messages |-> IF m \in MarkedRead(s)
                                        THEN [message[m] EXCEPT !.read = TRUE]
                                        ELSE message[m]]
      /\ opened' = [opened EXCEPT ![s] = {m \in Messages : message[m].sent}]
  BY <1>0 DEF GetMessages
<1>3. \A m \in Messages :
        LET x == [message[m] EXCEPT !.read = TRUE]
        IN  /\ IsMessage(x) /\ x.read
            /\ x.sent = message[m].sent /\ x.from = message[m].from
  <2>1. ASSUME NEW m \in Messages
        PROVE  LET x == [message[m] EXCEPT !.read = TRUE]
               IN  /\ IsMessage(x) /\ x.read
                   /\ x.sent = message[m].sent /\ x.from = message[m].from
    <3>1. message[m] = [f \in MessageFields |-> message[m][f]]
      BY DEF Receipts, ChatShape, IsMessage
    <3>2. [message[m] EXCEPT !.read = TRUE]
            = [f \in MessageFields |-> IF f = "read" THEN TRUE ELSE message[m][f]]
      BY <3>1 DEF MessageFields
    <3> QED
      BY <3>2 DEF IsMessage, MessageFields
  <2> QED
    BY <2>1
<1>4. ASSUME NEW m \in Messages
      PROVE  /\ IsMessage(message'[m])
             /\ message'[m].sent = message[m].sent /\ message'[m].from = message[m].from
             /\ message'[m].read <=>
                   message[m].read \/ (message[m].sent /\ message[m].from # s)
  BY <1>2, <1>3 DEF MarkedRead, Receipts, ChatShape
<1>5. /\ request' = [q \in Requests |-> request'[q]]
      /\ \A q \in Requests \ {r} : request'[q] = request[q]
      /\ request'[r] = [f \in RequestFields |-> request'[r][f]]
      /\ request'[r].id = NoOne /\ Honest(r)'
  BY <1>1, EndsEffect DEF Receipts
<1>6. \A q \in Requests \ {r} : Honest(q)'
  BY <1>4, <1>5 DEF Receipts, Honest
<1>7. message' = [m \in Messages |-> message'[m]]
  BY <1>2
<1>8. opened' = [t \in Sides |-> IF t = s THEN {m \in Messages : message[m].sent}
                                  ELSE opened[t]]
  BY <1>1, <1>2 DEF Receipts, ChatShape
<1>9. ChatShape'
  BY <1>4, <1>5, <1>7, <1>8 DEF Receipts, ChatShape
<1>10. \A m \in Messages : message'[m].read => message'[m].sent
  BY <1>4 DEF Receipts
<1>11. \A t \in Sides : \A m \in Messages : m \in opened'[t] => message'[m].sent
  BY <1>4, <1>8 DEF Receipts
<1>12. ASSUME NEW m \in Messages, message'[m].sent, message'[m].from \in Sides
       PROVE  message'[m].read <=> m \in opened'[Other(message'[m].from)]
  <2>1. /\ message'[m].from = message[m].from /\ message[m].sent
        /\ Other(message[m].from) \in Sides
    BY <1>4, <1>12 DEF Other, Sides
  <2>2. CASE Other(message[m].from) = s
    <3>1. message[m].from # s
      BY <1>12, <2>1, <2>2 DEF Other, Sides
    <3>2. opened'[s] = {x \in Messages : message[x].sent}
      BY <1>1, <1>8
    <3> QED
      BY <1>4, <2>1, <2>2, <3>1, <3>2
  <2>3. CASE Other(message[m].from) # s
    <3>1. message[m].from = s
      BY <1>1, <1>12, <2>1, <2>3 DEF Other, Sides
    <3>2. message'[m].read <=> message[m].read
      BY <1>4, <3>1
    <3>3. message[m].read <=> m \in opened[Other(message[m].from)]
      BY <1>12, <2>1 DEF Receipts, ReceiptsHonest
    <3>4. opened'[Other(message[m].from)] = opened[Other(message[m].from)]
      BY <1>8, <2>1, <2>3
    <3> QED
      BY <2>1, <3>2, <3>3, <3>4
  <2> QED
    BY <2>2, <2>3
<1>13. ReceiptsHonest'
  BY <1>12 DEF ReceiptsHonest
<1> QED
  BY <1>5, <1>6, <1>9, <1>10, <1>11, <1>13 DEF Receipts

LEMMA ReceiptsStep == Receipts /\ [ChatNext]_chatVars => Receipts'
<1> SUFFICES ASSUME Receipts, [ChatNext]_chatVars PROVE Receipts'
  OBVIOUS
<1>1. ASSUME NEW r \in Requests, NEW p \in People,
             StartConversation(r, p) \/ SendMessage(r, p) \/ SendMasked(r, p)
      PROVE  Receipts'
  <2>1. \E op, offends : /\ op # "read" /\ UNCHANGED <<message, opened>>
                         /\ Loads(r, op, p, SeenToSend, Draft(p), offends)
    BY <1>1 DEF StartConversation, SendMessage, SendMasked
  <2> QED
    BY <2>1, Drafts, LoadsHonestly
<1>2. ASSUME NEW r \in Requests, NEW p \in People, LoadThread(r, p) PROVE Receipts'
  BY <1>2, Drafts, LoadsHonestly DEF LoadThread
<1>3. ASSUME NEW r \in Requests, SendSystemMessage(r) PROVE Receipts'
  <2>1. Loads(r, "system", "one", SeenToSend,
              [NoMessage EXCEPT !.system = TRUE, !.to = Sides], FALSE)
    BY <1>3 DEF SendSystemMessage
  <2>2. UNCHANGED <<message, opened>>
    BY <1>3 DEF SendSystemMessage
  <2>3. \E msg : /\ IsMessage(msg) /\ ~msg.read
                 /\ Loads(r, "system", "one", SeenToSend, msg, FALSE)
    BY <2>1, Drafts
  <2> QED
    BY <2>2, <2>3, LoadsHonestly
<1>4. ASSUME NEW r \in Requests, NEW m \in Messages, Post(r, m) PROVE Receipts'
  BY <1>4, PostEffect
<1>5. ASSUME NEW r \in Requests, CommitMessage(r) PROVE Receipts'
  BY <1>5, CommitEffect
<1>6. ASSUME NEW r \in Requests, Abandon(r) PROVE Receipts'
  <2>1. Ends(r) /\ UNCHANGED <<message, opened>>
    BY <1>6 DEF Abandon
  <2> QED
    BY <2>1, EndsEffect, RequestMoves DEF Receipts
<1>7. ASSUME NEW r \in Requests, ZeroUnread(r) PROVE Receipts'
  <2>1. /\ request[r].stage = "loaded" /\ request[r].op = "read"
        /\ Goes(r, "zeroed") /\ UNCHANGED <<message, opened>>
    BY <1>7 DEF ZeroUnread
  <2> DEFINE k == [request[r] EXCEPT !.stage = "zeroed"]
  <2>2. request' = [q \in Requests |-> IF q = r THEN k ELSE request[q]]
    BY <2>1 DEF Goes, Receipts, ChatShape
  <2>3. request[r] = [f \in RequestFields |-> request[r][f]]
    BY DEF Receipts, ChatShape
  <2>4. k = [f \in RequestFields |-> IF f = "stage" THEN "zeroed" ELSE request[r][f]]
    BY <2>3 DEF RequestFields
  <2>5. /\ k = [f \in RequestFields |-> k[f]] /\ k.stage = "zeroed"
        /\ k.id = request[r].id /\ k.msg = request[r].msg /\ k.by = request[r].by
    BY <2>4 DEF RequestFields
  <2> HIDE DEF k
  <2>6. Honest(r)'
    BY <2>1, <2>2, <2>5 DEF Receipts, Honest
  <2> QED
    BY <2>1, <2>2, <2>5, <2>6, RequestMoves
<1>8. ASSUME NEW r \in Requests, GetMessages(r) PROVE Receipts'
  BY <1>8, ReadEffect
<1>9. ASSUME UNCHANGED <<message, request, opened>> PROVE Receipts'
  BY <1>9 DEF Receipts, ChatShape, Honest, ReceiptsHonest
<1> QED
  BY <1>1, <1>2, <1>3, <1>4, <1>5, <1>6, <1>7, <1>8, <1>9
     DEF ChatNext, chatVars, RefuseMessage

LEMMA ReceiptsStart == ChatInit => Receipts
<1> SUFFICES ASSUME ChatInit PROVE Receipts
  OBVIOUS
<1>1. /\ Idle = [f \in RequestFields |-> Idle[f]]
      /\ Idle.id = NoOne /\ Idle.stage = "idle" /\ Idle.op = "none"
      /\ Idle.msg = NoMessage
  BY DEF Idle, RequestFields
<1>2. IsMessage(NoMessage) /\ ~NoMessage.read
  BY Drafts
<1>3. ChatShape
  BY <1>1, <1>2 DEF ChatInit, ChatShape
<1>4. \A r \in Requests : Honest(r)
  BY <1>1, <1>2 DEF ChatInit, Honest
<1>5. /\ \A m \in Messages : ~message[m].sent /\ ~message[m].read
      /\ \A s \in Sides : opened[s] = {}
  BY <1>2 DEF ChatInit, NoMessage
<1> QED
  BY <1>3, <1>4, <1>5 DEF Receipts, ReceiptsHonest

\* However reads and sends overlap, a participant's message is marked as read
\* exactly if the other participant has opened the conversation since it was
\* sent (get_messages, which marks more than the page it returns).
THEOREM ReceiptsAreHonest == ChatSpec => []ReceiptsHonest
<1>1. Receipts => ReceiptsHonest
  BY DEF Receipts
<1> QED
  BY <1>1, ReceiptsStart, ReceiptsStep, PTL DEF ChatSpec

---------------------------------------------------------------------------
(* Counters of a conversation.                                             *)

\* A request in hand: who offends has offended, and who reads found a
\* conversation.
Tracked(r) ==
  LET k == request[r] IN
  /\ k.offends => k.by \in Sides /\ offences[k.by] >= 1
  /\ k.op = "read" \/ k.stage = "zeroed" => thread.exists

Chat == Receipts /\ ChatInv /\ UnreadCovered /\ \A r \in Requests : Tracked(r)

\* What requests put in hand.
LEMMA DraftTypes ==
  ASSUME ChatTypeOK
  PROVE  /\ NoThread \in Conversation /\ SeenToSend \in Conversation
         /\ \A s \in Sides : SeenToRead(s) \in Conversation
         /\ NoMessage \in Message /\ \A p \in People : Draft(p) \in Message
         /\ [NoMessage EXCEPT !.system = TRUE, !.to = Sides] \in Message
<1>1. NoThread \in Conversation
  BY DEF NoThread, Conversation
<1>2. PICK u \in Conversation : u = thread
  BY DEF ChatTypeOK
<1>3. SeenToSend \in Conversation
  BY <1>1, <1>2 DEF SeenToSend, Conversation
<1>4. ASSUME NEW s \in Sides PROVE SeenToRead(s) \in Conversation
  <2>1. thread.unread[s] \in Nat
    BY <1>2, <1>4 DEF Conversation
  <2>2. PICK n \in Nat : n = thread.unread[s]
    BY <2>1
  <2>3. SeenToRead(s) = [NoThread EXCEPT !.exists = TRUE, !.unread[s] = n]
    BY <2>2 DEF SeenToRead
  <2>4. NoThread.unread \in [Sides -> Nat]
    BY <1>1 DEF Conversation
  <2>5. [NoThread.unread EXCEPT ![s] = n] \in [Sides -> Nat]
    BY <1>4, <2>4
  <2>6. [NoThread EXCEPT !.exists = TRUE, !.unread[s] = n]
          = [NoThread EXCEPT !.exists = TRUE,
                             !.unread = [NoThread.unread EXCEPT ![s] = n]]
    OBVIOUS
  <2> QED
    BY <1>1, <2>3, <2>5, <2>6 DEF Conversation
<1>5. NoMessage \in Message
  BY DEF NoMessage, Message, People, Sides
<1>6. ASSUME NEW p \in People PROVE Draft(p) \in Message
  BY <1>5, <1>6 DEF Draft, Message, Sides
<1>7. [NoMessage EXCEPT !.system = TRUE, !.to = Sides] \in Message
  BY <1>5 DEF Message
<1> QED
  BY <1>1, <1>3, <1>4, <1>5, <1>6, <1>7

LEMMA LoadsType ==
  ASSUME ChatTypeOK, NEW r \in Requests, NEW op \in Ops, NEW p \in People,
         NEW seen \in Conversation, NEW msg \in Message, NEW offends \in BOOLEAN,
         Loads(r, op, p, seen, msg, offends)
  PROVE  /\ request' \in [Requests -> Request]
         /\ \A q \in Requests \ {r} : request'[q] = request[q]
         /\ request'[r].op = op /\ request'[r].by = p /\ request'[r].offends = offends
         /\ request'[r].stage = "loaded"
<1> DEFINE k == [Idle EXCEPT !.stage = "loaded", !.op = op, !.by = p,
                             !.seen = seen, !.msg = msg, !.offends = offends]
<1>1. Idle \in Request
  BY DraftTypes DEF Idle, Request, Ops, People, Sides
<1>2. k \in Request /\ k.op = op /\ k.by = p /\ k.offends = offends /\ k.stage = "loaded"
  BY <1>1 DEF Request
<1>3. request' = [request EXCEPT ![r] = k]
  BY DEF Loads
<1>4. request \in [Requests -> Request]
  BY DEF ChatTypeOK
<1> HIDE DEF k
<1>5. request' \in [Requests -> Request]
  BY <1>2, <1>3, <1>4
<1>6. request'[r] = k
  BY <1>3, <1>4
<1>7. \A q \in Requests \ {r} : request'[q] = request[q]
  BY <1>3, <1>4
<1> QED
  BY <1>2, <1>5, <1>6, <1>7

LEMMA EndsType ==
  ASSUME ChatTypeOK, NEW r \in Requests, Ends(r)
  PROVE  /\ request' \in [Requests -> Request]
         /\ \A q \in Requests \ {r} : request'[q] = request[q]
         /\ request'[r].op = "none" /\ ~request'[r].offends /\ request'[r].stage = "idle"
<1>1. Idle \in Request /\ Idle.op = "none" /\ ~Idle.offends /\ Idle.stage = "idle"
  BY DraftTypes DEF Idle, Request, Ops, People, Sides
<1> QED
  BY <1>1 DEF Ends, ChatTypeOK

\* A step of one request that writes no row keeps the counters.
LEMMA CountersKept ==
  ASSUME Chat, Receipts', NEW r \in Requests, request' \in [Requests -> Request],
         \A q \in Requests \ {r} : request'[q] = request[q], Tracked(r)',
         UNCHANGED <<scene, thread, message, violations, opened>>,
         offences' \in [Sides -> 0 .. MaxOffences],
         \A s \in Sides : offences'[s] >= offences[s]
  PROVE  Chat'
<1>1. ChatTypeOK'
  BY DEF Chat, ChatInv, ChatTypeOK
<1>2. CountsMatch'
  <2>1. ASSUME NEW s \in Sides PROVE violations[s] <= 1 /\ violations[s] <= offences'[s]
    <3>1. /\ violations[s] <= 1 /\ violations[s] <= offences[s]
          /\ violations[s] \in Nat /\ offences[s] \in Nat /\ offences'[s] \in Nat
      BY ConversationsAssumption DEF Chat, ChatInv, CountsMatch, ChatTypeOK
    <3> QED
      BY <3>1
  <2> QED
    BY <2>1 DEF Chat, ChatInv, CountsMatch
<1>3. UnreadCovered'
  BY DEF Chat, UnreadCovered, Unread
<1>4. ASSUME NEW q \in Requests \ {r} PROVE Tracked(q)'
  <2>1. request'[q] = request[q] /\ Tracked(q) /\ UNCHANGED thread
    BY <1>4 DEF Chat
  <2>2. ASSUME NEW s \in Sides, offences[s] >= 1 PROVE offences'[s] >= 1
    <3>1. offences[s] \in Nat /\ offences'[s] \in Nat
      BY ConversationsAssumption DEF Chat, ChatInv, ChatTypeOK
    <3> QED
      BY <2>2, <3>1
  <2> QED
    BY <2>1, <2>2 DEF Tracked
<1> QED
  BY <1>1, <1>2, <1>3, <1>4 DEF Chat, ChatInv

LEMMA LoadStep ==
  ASSUME Chat, Receipts', NEW r \in Requests, NEW op \in Ops, NEW p \in People,
         NEW seen \in Conversation, NEW msg \in Message, NEW offends \in BOOLEAN,
         Loads(r, op, p, seen, msg, offends),
         op = "read" => thread.exists,
         offends => p \in Sides /\ offences'[p] >= 1,
         UNCHANGED <<scene, thread, message, violations, opened>>,
         offences' \in [Sides -> 0 .. MaxOffences],
         \A s \in Sides : offences'[s] >= offences[s]
  PROVE  Chat'
<1>1. /\ request' \in [Requests -> Request]
      /\ \A q \in Requests \ {r} : request'[q] = request[q]
      /\ request'[r].op = op /\ request'[r].by = p /\ request'[r].offends = offends
      /\ request'[r].stage = "loaded"
  BY LoadsType DEF Chat, ChatInv
<1>2. Tracked(r)'
  BY <1>1 DEF Tracked
<1> QED
  BY <1>1, <1>2, CountersKept

\* One more offence of a participant.
LEMMA OffenceCounted ==
  ASSUME ChatTypeOK, NEW p \in Sides, offences[p] < MaxOffences,
         offences' = [offences EXCEPT ![p] = @ + 1]
  PROVE  /\ offences' \in [Sides -> 0 .. MaxOffences]
         /\ \A s \in Sides : offences'[s] >= offences[s]
         /\ offences'[p] >= 1
<1>1. offences \in [Sides -> 0 .. MaxOffences]
  BY DEF ChatTypeOK
<1>2. /\ offences[p] \in Nat /\ offences[p] + 1 \in 0 .. MaxOffences
      /\ \A s \in Sides : offences[s] \in Nat
  BY <1>1, ConversationsAssumption
<1>3. \A s \in Sides : offences'[s] = IF s = p THEN offences[p] + 1 ELSE offences[s]
  BY <1>1
<1> QED
  BY <1>1, <1>2, <1>3

\* The message is added to the thread and to the badges it raises.
LEMMA CommitCounts ==
  ASSUME Chat, Receipts', NEW r \in Requests, CommitMessage(r)
  PROVE  Chat'
<1> DEFINE n == request[r].id
           y == request[r].msg
           x == [y EXCEPT !.sent = TRUE]
<1>1. /\ ChatTypeOK /\ CountsMatch /\ UnreadCovered /\ Tracked(r)
      /\ Receipts
  BY DEF Chat, ChatInv
<1>2. /\ request[r] \in Request /\ y \in Message /\ request[r].by \in People
      /\ request[r].offends \in BOOLEAN
  BY <1>1 DEF ChatTypeOK, Request
<1>3. n \in Messages /\ ~message[n].sent /\ request[r].stage = "posted"
  BY <1>1 DEF CommitMessage, Receipts, Honest
<1>4. /\ x \in Message /\ x.sent /\ x.to = y.to /\ x.from = y.from
      /\ y.to \subseteq Sides
  BY <1>2 DEF Message
<1>5. /\ message' = [message EXCEPT ![n] = x]
      /\ thread' = [exists |-> TRUE, count |-> thread.count + 1,
                    unread |-> [s \in Sides |-> IF s \in y.to THEN thread.unread[s] + 1
                                                ELSE thread.unread[s]]]
      /\ violations' = IF request[r].offends
                       THEN [violations EXCEPT ![request[r].by] = 1] ELSE violations
      /\ Ends(r) /\ UNCHANGED <<scene, opened, offences>>
  BY DEF CommitMessage, Raised
<1>6. message \in [Messages -> Message]
  BY <1>1 DEF ChatTypeOK
<1> HIDE DEF x, y, n
<1>7. /\ message' \in [Messages -> Message] /\ message'[n] = x
      /\ \A m \in Messages \ {n} : message'[m] = message[m]
  BY <1>3, <1>4, <1>5, <1>6
<1>8. /\ request' \in [Requests -> Request]
      /\ \A q \in Requests \ {r} : request'[q] = request[q]
      /\ request'[r].op = "none" /\ ~request'[r].offends /\ request'[r].stage = "idle"
  BY <1>1, <1>5, EndsType
<1>9. thread \in Conversation /\ thread.count \in Nat
      /\ \A s \in Sides : thread.unread[s] \in Nat
  BY <1>1 DEF ChatTypeOK, Conversation
<1>10. /\ thread' \in Conversation /\ thread'.exists /\ thread'.count = thread.count + 1
       /\ \A s \in Sides : thread'.unread[s] = IF s \in y.to THEN thread.unread[s] + 1
                                                ELSE thread.unread[s]
  BY <1>5, <1>9 DEF Conversation
<1>11. /\ violations' \in [Sides -> Nat]
       /\ \A s \in Sides : violations'[s] <= 1 /\ violations'[s] <= offences'[s]
  <2>1. /\ violations \in [Sides -> Nat] /\ offences \in [Sides -> Nat]
        /\ \A s \in Sides : violations[s] <= 1 /\ violations[s] <= offences[s]
    BY <1>1, ConversationsAssumption DEF ChatTypeOK, CountsMatch
  <2>2. CASE request[r].offends
    <3>1. request[r].by \in Sides /\ offences[request[r].by] >= 1
      BY <1>1, <2>2 DEF Tracked
    <3> QED
      BY <1>5, <2>1, <2>2, <3>1
  <2>3. CASE ~request[r].offends
    BY <1>5, <2>1, <2>3
  <2> QED
    BY <2>2, <2>3
<1>12. thread'.count = Cardinality({m \in Messages : message'[m].sent})
  <2> DEFINE S == {m \in Messages : message[m].sent}
  <2>1. thread.count = Cardinality(S)
    BY <1>1 DEF CountsMatch
  <2>2. {m \in Messages : message'[m].sent} = S \cup {n}
    BY <1>3, <1>4, <1>7
  <2>3. n \notin S /\ IsFiniteSet(S)
    BY <1>3, FS_Subset, ConversationsAssumption
  <2>4. Cardinality(S \cup {n}) = Cardinality(S) + 1
    BY <2>3, FS_AddElement
  <2> QED
    BY <1>10, <2>1, <2>2, <2>4
<1>13. ASSUME NEW s \in Sides PROVE Cardinality(Unread(s)') <= thread'.unread[s]
  <2>1. /\ IsFiniteSet(Unread(s)) /\ n \notin Unread(s)
        /\ Cardinality(Unread(s)) \in Nat
        /\ Cardinality(Unread(s)) <= thread.unread[s]
    BY <1>1, <1>3, <1>13, FS_Subset, FS_CardinalityType, ConversationsAssumption
       DEF Unread, UnreadCovered
  <2>2. Cardinality(Unread(s) \cup {n}) = Cardinality(Unread(s)) + 1
    BY <2>1, FS_AddElement
  <2>3. CASE s \in y.to
    <3>1. Unread(s)' = Unread(s) \/ Unread(s)' = Unread(s) \cup {n}
      BY <1>3, <1>7, <2>1 DEF Unread
    <3> QED
      <4>1. thread'.unread[s] = thread.unread[s] + 1 /\ thread.unread[s] \in Nat
        BY <1>9, <1>10, <1>13, <2>3
      <4>2. \/ Cardinality(Unread(s)') = Cardinality(Unread(s))
            \/ Cardinality(Unread(s)') = Cardinality(Unread(s)) + 1
        BY <2>2, <3>1
      <4> QED
        BY <2>1, <4>1, <4>2
  <2>4. CASE s \notin y.to
    <3>1. Unread(s)' = Unread(s)
      <4>1. \A m \in Messages \ {n} : m \in Unread(s)' <=> m \in Unread(s)
        BY <1>7 DEF Unread
      <4>2. n \notin Unread(s)'
        BY <1>4, <1>7, <2>4 DEF Unread
      <4> QED
        BY <2>1, <4>1, <4>2 DEF Unread
    <3> QED
      BY <1>10, <1>13, <2>1, <2>4, <3>1
  <2> QED
    BY <2>3, <2>4
<1>14. ChatTypeOK'
  BY <1>1, <1>5, <1>7, <1>8, <1>10, <1>11 DEF ChatTypeOK
<1>15. CountsMatch'
  BY <1>10, <1>11, <1>12 DEF CountsMatch
<1>16. UnreadCovered'
  BY <1>13 DEF UnreadCovered
<1>17. \A q \in Requests : Tracked(q)'
  <2>1. Tracked(r)'
    BY <1>8, <1>10 DEF Tracked
  <2>2. ASSUME NEW q \in Requests \ {r} PROVE Tracked(q)'
    BY <1>5, <1>8, <1>10, <2>2 DEF Chat, Tracked
  <2> QED
    BY <2>1, <2>2
<1> QED
  BY <1>14, <1>15, <1>16, <1>17 DEF Chat, ChatInv

\* Who reads has nothing unread left; the other's badge is not touched.
LEMMA ReadCounts ==
  ASSUME Chat, Receipts', NEW r \in Requests, GetMessages(r)
  PROVE  Chat'
<1> DEFINE s == request[r].by
<1>1. ChatTypeOK /\ CountsMatch /\ UnreadCovered /\ Tracked(r) /\ Receipts
  BY DEF Chat, ChatInv
<1>2. request[r].stage = "zeroed" /\ s \in Sides /\ thread.exists
  BY <1>1 DEF GetMessages, Receipts, Honest, Tracked
<1>3. /\ thread' = IF request[r].seen.unread[s] # 0
                   THEN [thread EXCEPT !.unread[s] = 0] ELSE thread
      /\ message' = [m \in Messages |->
                        IF m \in MarkedRead(s) THEN [message[m] EXCEPT !.read = TRUE]
                        ELSE message[m]]
      /\ opened' = [opened EXCEPT ![s] = {m \in Messages : message[m].sent}]
      /\ Ends(r) /\ UNCHANGED <<scene, violations, offences>>
  BY DEF GetMessages
<1> HIDE DEF s
<1>4. ASSUME NEW m \in Messages
      PROVE  /\ message'[m] \in Message
             /\ message'[m].sent = message[m].sent /\ message'[m].from = message[m].from
             /\ message'[m].to = message[m].to
             /\ message[m].read => message'[m].read
             /\ m \in MarkedRead(s) => message'[m].read
  <2>1. message[m] \in Message
    BY <1>1 DEF ChatTypeOK
  <2>2. message'[m] = IF m \in MarkedRead(s) THEN [message[m] EXCEPT !.read = TRUE]
                      ELSE message[m]
    BY <1>3
  <2> DEFINE x == [message[m] EXCEPT !.read = TRUE]
  <2>3. /\ x \in Message /\ x.read /\ x.sent = message[m].sent
        /\ x.from = message[m].from /\ x.to = message[m].to
    BY <2>1 DEF Message
  <2> HIDE DEF x
  <2>4. message'[m] = x \/ (m \notin MarkedRead(s) /\ message'[m] = message[m])
    BY <2>2 DEF x
  <2> QED
    BY <2>1, <2>3, <2>4
<1>5. message' \in [Messages -> Message]
  BY <1>3, <1>4
<1>6. /\ request' \in [Requests -> Request]
      /\ \A q \in Requests \ {r} : request'[q] = request[q]
      /\ request'[r].op = "none" /\ ~request'[r].offends /\ request'[r].stage = "idle"
  BY <1>1, <1>3, EndsType
<1>7. /\ thread' \in Conversation /\ thread'.exists /\ thread'.count = thread.count
      /\ thread'.unread[s] \in Nat
      /\ \A t \in Sides \ {s} : thread'.unread[t] = thread.unread[t]
  <2>1. thread \in Conversation
    BY <1>1 DEF ChatTypeOK
  <2>2. PICK th \in Conversation : th = thread
    BY <2>1
  <2>3. [th EXCEPT !.unread[s] = 0] = [th EXCEPT !.unread = [th.unread EXCEPT ![s] = 0]]
    OBVIOUS
  <2>4. th.unread \in [Sides -> Nat]
    BY DEF Conversation
  <2> DEFINE u == [th.unread EXCEPT ![s] = 0]
  <2>5. u \in [Sides -> Nat] /\ u[s] = 0 /\ \A t \in Sides \ {s} : u[t] = th.unread[t]
    BY <1>2, <2>4
  <2> HIDE DEF u
  <2> DEFINE z == [th EXCEPT !.unread = u]
  <2>6. z \in Conversation /\ z.exists = th.exists /\ z.count = th.count /\ z.unread = u
    BY <2>5 DEF Conversation
  <2> HIDE DEF z
  <2>7. thread' = z \/ thread' = th
    BY <1>3, <2>2, <2>3 DEF z, u
  <2> QED
    BY <1>2, <2>2, <2>4, <2>5, <2>6, <2>7
<1>8. opened' \in [Sides -> SUBSET Messages]
  <2>1. {m \in Messages : message[m].sent} \in SUBSET Messages
    OBVIOUS
  <2> QED
    BY <1>1, <1>2, <1>3, <2>1 DEF ChatTypeOK
<1>9. CountsMatch'
  <2>1. {m \in Messages : message'[m].sent} = {m \in Messages : message[m].sent}
    BY <1>4
  <2> QED
    BY <1>1, <1>3, <1>7, <2>1 DEF CountsMatch
<1>10. ASSUME NEW t \in Sides PROVE Cardinality(Unread(t)') <= thread'.unread[t]
  <2>1. CASE t = s
    <3>1. Unread(t)' = {}
      BY <1>4, <2>1 DEF Unread, MarkedRead
    <3>2. Cardinality(Unread(t)') = 0
      BY <3>1, FS_EmptySet
    <3> QED
      BY <1>7, <2>1, <3>2
  <2>2. CASE t # s
    <3>1. Unread(t)' \subseteq Unread(t) /\ IsFiniteSet(Unread(t))
      BY <1>4, FS_Subset, ConversationsAssumption DEF Unread
    <3>2. /\ Cardinality(Unread(t)') <= Cardinality(Unread(t))
          /\ Cardinality(Unread(t)') \in Nat /\ Cardinality(Unread(t)) \in Nat
      BY <3>1, FS_Subset, FS_CardinalityType
    <3>3. Cardinality(Unread(t)) <= thread.unread[t] /\ thread.unread[t] \in Nat
      BY <1>1, <1>10 DEF UnreadCovered, ChatTypeOK, Conversation
    <3> QED
      BY <1>7, <1>10, <2>2, <3>2, <3>3
  <2> QED
    BY <2>1, <2>2
<1>11. ChatTypeOK'
  BY <1>1, <1>3, <1>5, <1>6, <1>7, <1>8 DEF ChatTypeOK
<1>12. \A q \in Requests : Tracked(q)'
  <2>1. Tracked(r)'
    BY <1>6, <1>7 DEF Tracked
  <2>2. ASSUME NEW q \in Requests \ {r} PROVE Tracked(q)'
    BY <1>3, <1>6, <1>7, <2>2 DEF Chat, Tracked
  <2> QED
    BY <2>1, <2>2
<1>13. UnreadCovered'
  BY <1>10 DEF UnreadCovered
<1> QED
  BY <1>9, <1>11, <1>12, <1>13 DEF Chat, ChatInv

LEMMA ChatStep == Chat /\ [ChatNext]_chatVars => Chat'
<1> SUFFICES ASSUME Chat, [ChatNext]_chatVars PROVE Chat'
  OBVIOUS
<1>1. ChatTypeOK /\ Receipts /\ offences \in [Sides -> 0 .. MaxOffences]
  BY DEF Chat, ChatInv, ChatTypeOK
<1>2. Receipts'
  BY <1>1, ReceiptsStep
<1>3. \A s \in Sides : offences[s] >= offences[s]
  BY <1>1, ConversationsAssumption
<1>4. ASSUME NEW r \in Requests, NEW p \in People,
             StartConversation(r, p) \/ SendMessage(r, p)
      PROVE  Chat'
  <2>1. \E op \in {"start", "send"} : Loads(r, op, p, SeenToSend, Draft(p), FALSE)
    BY <1>4 DEF StartConversation, SendMessage
  <2>2. UNCHANGED <<scene, thread, message, violations, opened, offences>>
    BY <1>4 DEF StartConversation, SendMessage
  <2>3. Draft(p) \in Message /\ SeenToSend \in Conversation
    BY <1>1, <1>4, DraftTypes
  <2> QED
    BY <1>1, <1>2, <1>3, <2>1, <2>2, <2>3, LoadStep DEF Ops
<1>5. ASSUME NEW r \in Requests, NEW p \in People, SendMasked(r, p) PROVE Chat'
  <2>1. /\ Loads(r, "send", p, SeenToSend, Draft(p), TRUE) /\ p \in Sides
        /\ offences[p] < MaxOffences /\ offences' = [offences EXCEPT ![p] = @ + 1]
        /\ UNCHANGED <<scene, thread, message, violations, opened>>
    BY <1>5 DEF SendMasked
  <2>2. /\ offences' \in [Sides -> 0 .. MaxOffences]
        /\ \A s \in Sides : offences'[s] >= offences[s]
        /\ offences'[p] >= 1
    BY <1>1, <2>1, OffenceCounted
  <2>3. Draft(p) \in Message /\ SeenToSend \in Conversation
    BY <1>1, <1>5, DraftTypes
  <2> QED
    BY <1>2, <2>1, <2>2, <2>3, LoadStep DEF Ops
<1>6. ASSUME NEW r \in Requests, NEW p \in People, LoadThread(r, p) PROVE Chat'
  <2>1. /\ Loads(r, "read", p, SeenToRead(p), NoMessage, FALSE) /\ p \in Sides
        /\ thread.exists
        /\ UNCHANGED <<scene, thread, message, violations, opened, offences>>
    BY <1>6 DEF LoadThread
  <2>2. NoMessage \in Message /\ SeenToRead(p) \in Conversation
    BY <1>1, <2>1, DraftTypes
  <2> QED
    BY <1>1, <1>2, <1>3, <2>1, <2>2, LoadStep DEF Ops
<1>7. ASSUME NEW p \in Sides, RefuseMessage(p) PROVE Chat'
  <2>1. /\ offences[p] < MaxOffences /\ offences' = [offences EXCEPT ![p] = @ + 1]
        /\ UNCHANGED <<scene, thread, message, violations, request, opened>>
    BY <1>7 DEF RefuseMessage
  <2>2. /\ offences' \in [Sides -> 0 .. MaxOffences]
        /\ \A s \in Sides : offences'[s] >= offences[s]
    BY <1>1, <2>1, OffenceCounted
  <2>3. ChatTypeOK'
    BY <1>1, <2>1, <2>2 DEF ChatTypeOK
  <2>4. ASSUME NEW s \in Sides PROVE violations[s] <= 1 /\ violations[s] <= offences'[s]
    <3>1. /\ violations[s] <= 1 /\ violations[s] <= offences[s] /\ violations[s] \in Nat
          /\ offences[s] \in Nat /\ offences'[s] \in Nat /\ offences'[s] >= offences[s]
      BY <1>1, <2>2, ConversationsAssumption DEF Chat, ChatInv, CountsMatch, ChatTypeOK
    <3> QED
      BY <3>1
  <2>5. CountsMatch'
    BY <2>1, <2>4 DEF Chat, ChatInv, CountsMatch
  <2>6. UnreadCovered'
    BY <2>1 DEF Chat, UnreadCovered, Unread
  <2>7. ASSUME NEW q \in Requests PROVE Tracked(q)'
    <3>1. Tracked(q) /\ request'[q] = request[q] /\ thread' = thread
      BY <2>1 DEF Chat
    <3>2. ASSUME NEW s \in Sides, offences[s] >= 1 PROVE offences'[s] >= 1
      <4>1. offences[s] \in Nat /\ offences'[s] \in Nat /\ offences'[s] >= offences[s]
        BY <1>1, <2>2, ConversationsAssumption
      <4> QED
        BY <3>2, <4>1
    <3> QED
      BY <3>1, <3>2 DEF Tracked
  <2> QED
    BY <1>2, <2>3, <2>5, <2>6, <2>7 DEF Chat, ChatInv
<1>8. ASSUME NEW r \in Requests, SendSystemMessage(r) PROVE Chat'
  <2> DEFINE y == [NoMessage EXCEPT !.system = TRUE, !.to = Sides]
  <2>1. Loads(r, "system", "one", SeenToSend, y, FALSE)
    BY <1>8 DEF SendSystemMessage
  <2>2. UNCHANGED <<scene, thread, message, violations, opened, offences>>
    BY <1>8 DEF SendSystemMessage
  <2>3. y \in Message /\ SeenToSend \in Conversation
    BY <1>1, DraftTypes
  <2>4. "one" \in People /\ "system" \in Ops
    BY DEF People, Sides, Ops
  <2> HIDE DEF y
  <2> QED
    BY <1>1, <1>2, <1>3, <2>1, <2>2, <2>3, <2>4, LoadStep
<1>9. ASSUME NEW r \in Requests, NEW m \in Messages, Post(r, m) PROVE Chat'
  <2> DEFINE k == [request[r] EXCEPT !.stage = "posted", !.id = m]
  <2>1. /\ request[r].op \in {"start", "send", "system"}
        /\ request' = [request EXCEPT ![r] = k]
        /\ UNCHANGED <<scene, thread, message, violations, opened, offences>>
    BY <1>9 DEF Post
  <2>2. request \in [Requests -> Request] /\ request[r] \in Request
    BY <1>1 DEF ChatTypeOK
  <2>3. /\ k \in Request /\ k.stage = "posted" /\ k.op = request[r].op
        /\ k.by = request[r].by /\ k.offends = request[r].offends
    BY <2>2 DEF Request
  <2> HIDE DEF k
  <2>4. /\ request' \in [Requests -> Request] /\ request'[r] = k
        /\ \A q \in Requests \ {r} : request'[q] = request[q]
    BY <2>1, <2>2, <2>3
  <2>5. Tracked(r)'
    BY <2>1, <2>3, <2>4 DEF Chat, Tracked
  <2> QED
    BY <1>1, <1>2, <1>3, <2>1, <2>4, <2>5, CountersKept
<1>10. ASSUME NEW r \in Requests, CommitMessage(r) PROVE Chat'
  BY <1>2, <1>10, CommitCounts
<1>11. ASSUME NEW r \in Requests, Abandon(r) PROVE Chat'
  <2>1. Ends(r) /\ UNCHANGED <<scene, thread, message, violations, opened, offences>>
    BY <1>11 DEF Abandon
  <2>2. /\ request' \in [Requests -> Request]
        /\ \A q \in Requests \ {r} : request'[q] = request[q]
        /\ request'[r].op = "none" /\ ~request'[r].offends /\ request'[r].stage = "idle"
    BY <1>1, <2>1, EndsType
  <2>3. Tracked(r)'
    BY <2>2 DEF Tracked
  <2> QED
    BY <1>1, <1>2, <1>3, <2>1, <2>2, <2>3, CountersKept
<1>12. ASSUME NEW r \in Requests, ZeroUnread(r) PROVE Chat'
  <2> DEFINE k == [request[r] EXCEPT !.stage = "zeroed"]
  <2>1. /\ request[r].op = "read" /\ request' = [request EXCEPT ![r] = k]
        /\ UNCHANGED <<scene, thread, message, violations, opened, offences>>
    BY <1>12 DEF ZeroUnread, Goes
  <2>2. request \in [Requests -> Request] /\ request[r] \in Request
    BY <1>1 DEF ChatTypeOK
  <2>3. /\ k \in Request /\ k.by = request[r].by /\ k.offends = request[r].offends
    BY <2>2 DEF Request
  <2> HIDE DEF k
  <2>4. /\ request' \in [Requests -> Request] /\ request'[r] = k
        /\ \A q \in Requests \ {r} : request'[q] = request[q]
    BY <2>1, <2>2, <2>3
  <2>5. Tracked(r)'
    BY <2>1, <2>3, <2>4 DEF Chat, Tracked
  <2> QED
    BY <1>1, <1>2, <1>3, <2>1, <2>4, <2>5, CountersKept
<1>13. ASSUME NEW r \in Requests, GetMessages(r) PROVE Chat'
  BY <1>2, <1>13, ReadCounts
<1>14. CASE UNCHANGED chatVars
  <2>1. UNCHANGED <<scene, thread, message, violations, request, opened, offences>>
    BY <1>14 DEF chatVars
  <2>2. ChatTypeOK'
    BY <1>1, <2>1 DEF ChatTypeOK
  <2>3. CountsMatch' /\ UnreadCovered'
    BY <2>1 DEF Chat, ChatInv, CountsMatch, UnreadCovered, Unread
  <2>4. \A r \in Requests : Tracked(r)'
    BY <2>1 DEF Chat, Tracked
  <2> QED
    BY <1>2, <2>2, <2>3, <2>4 DEF Chat, ChatInv
<1> QED
  BY <1>4, <1>5, <1>6, <1>7, <1>8, <1>9, <1>10, <1>11, <1>12, <1>13, <1>14 DEF ChatNext

LEMMA ChatStarts == ChatInit => Chat
<1> SUFFICES ASSUME ChatInit PROVE Chat
  OBVIOUS
<1>1. /\ Idle \in Request /\ Idle.op = "none" /\ ~Idle.offends /\ Idle.stage = "idle"
      /\ NoThread \in Conversation /\ NoMessage \in Message /\ ~NoMessage.sent
      /\ NoThread.count = 0 /\ \A s \in Sides : NoThread.unread[s] = 0
  BY DEF Idle, Request, Ops, People, Sides, NoThread, Conversation, NoMessage, Message
<1>2. ChatTypeOK
  BY <1>1, ConversationsAssumption DEF ChatInit, ChatTypeOK
<1>3. {m \in Messages : message[m].sent} = {} /\ \A s \in Sides : Unread(s) = {}
  BY <1>1 DEF ChatInit, Unread
<1>4. CountsMatch /\ UnreadCovered
  <2>1. /\ Cardinality({m \in Messages : message[m].sent}) = 0
        /\ \A s \in Sides : Cardinality(Unread(s)) = 0
    BY <1>3, FS_EmptySet
  <2>2. /\ thread = NoThread
        /\ \A s \in Sides : violations[s] = 0 /\ offences[s] = 0
    BY DEF ChatInit
  <2> QED
    BY <1>1, <2>1, <2>2 DEF CountsMatch, UnreadCovered
<1>5. \A r \in Requests : Tracked(r)
  BY <1>1 DEF ChatInit, Tracked
<1> QED
  BY <1>2, <1>4, <1>5, ReceiptsStart DEF Chat, ChatInv

\* However sends and reads overlap, and whatever is rolled back, a message that
\* nobody read is counted on the badge of the one it was written to.
THEOREM UnreadIsCovered == ChatSpec => [](ChatInv /\ UnreadCovered)
<1>1. Chat => ChatInv /\ UnreadCovered
  BY DEF Chat
<1> QED
  BY <1>1, ChatStarts, ChatStep, PTL DEF ChatSpec

---------------------------------------------------------------------------
(* Notifications: the numbers that requests return.                        *)

\* What a request has in hand is what it is given, and the others keep theirs.
LEMMA MarkMoves ==
  ASSUME NoticesTypeOK, NEW r \in Marks, NEW k \in Mark,
         mark' = [mark EXCEPT ![r] = k]
  PROVE  /\ mark' \in [Marks -> Mark] /\ mark'[r] = k
         /\ \A q \in Marks \ {r} : mark'[q] = mark[q]
  BY DEF NoticesTypeOK

\* Rows that requests other than r have pushed and not committed.
Elsewhere(r) == UNION {mark[q].done : q \in {p \in Marks \ {r} : mark[p].told}}

\* What is pushed: by one request, and by the others.
LEMMA AnnouncedMoves ==
  ASSUME NEW r \in Marks, \A q \in Marks \ {r} : mark'[q] = mark[q]
  PROVE  /\ Elsewhere(r)' = Elsewhere(r)
         /\ Announced = Elsewhere(r) \cup (IF mark[r].told THEN mark[r].done ELSE {})
         /\ Announced' = Elsewhere(r) \cup (IF mark'[r].told THEN mark'[r].done ELSE {})
<1>1. Elsewhere(r)' = Elsewhere(r)
  BY DEF Elsewhere
<1>2. Announced = Elsewhere(r) \cup (IF mark[r].told THEN mark[r].done ELSE {})
  BY DEF Elsewhere, Announced
<1>3. Announced' = Elsewhere(r)' \cup (IF mark'[r].told THEN mark'[r].done ELSE {})
  BY DEF Elsewhere, Announced
<1> QED
  BY <1>1, <1>2, <1>3

\* Disjoint rows add up.
LEMMA RowsAddUp ==
  ASSUME NEW A \in SUBSET Notices, NEW B \in SUBSET Notices, A \cap B = {}
  PROVE  /\ Cardinality(A) \in Nat /\ Cardinality(B) \in Nat
         /\ Cardinality(A \cup B) = Cardinality(A) + Cardinality(B)
<1>1. IsFiniteSet(A) /\ IsFiniteSet(B)
  BY FS_Subset, NoticesAssumption
<1>2. Cardinality(A \cup B) = Cardinality(A) + Cardinality(B) - Cardinality(A \cap B)
  BY <1>1, FS_Union
<1>3. Cardinality(A \cap B) = 0
  BY FS_EmptySet
<1>4. Cardinality(A) \in Nat /\ Cardinality(B) \in Nat
  BY <1>1, FS_CardinalityType
<1> QED
  BY <1>2, <1>3, <1>4

LEMMA NoticesStep == NoticesInv /\ [NoticesNext]_noticeVars => NoticesInv'
<1> SUFFICES ASSUME NoticesInv, [NoticesNext]_noticeVars PROVE NoticesInv'
  OBVIOUS
<1> DEFINE InHand(r) == \A n \in mark[r].done :
                          /\ notice[n] = "unread"
                          /\ \A q \in Marks \ {r} : n \notin mark[q].done
           Waits(r) == mark[r].told => mark[r].op # "idle" /\ mark[r].todo = {}
<1>1. /\ NoticesTypeOK /\ archived \subseteq old /\ ReportedOnce
      /\ \A r \in Marks : InHand(r)
      /\ \A r \in Marks : Waits(r)
      /\ notice \in [Notices -> {"none", "unread", "read"}]
  BY DEF NoticesInv, NoticesTypeOK
<1>2. NoMark \in Mark /\ NoMark.done = {} /\ ~NoMark.told
  BY DEF NoMark, Mark
<1>3. \A r \in Marks : mark[r] \in Mark /\ mark[r].done \subseteq Notices
  BY <1>1 DEF NoticesTypeOK, Mark
<1>4. ASSUME NEW n \in Notices, CreateNotification(n) PROVE NoticesInv'
  <2>1. /\ notice' \in [Notices -> {"none", "unread", "read"}]
        /\ \A x \in Notices : notice'[x] = IF x = n THEN "unread" ELSE notice[x]
        /\ notice[n] = "none"
        /\ UNCHANGED <<old, archived, mark, pushed, undone>>
    BY <1>1, <1>4 DEF CreateNotification
  <2>2. ReadNotices' = ReadNotices
    BY <2>1 DEF ReadNotices
  <2>3. ReportedOnce'
    BY <1>1, <2>1, <2>2 DEF ReportedOnce, Announced
  <2>4. NoticesTypeOK'
    BY <1>1, <2>1 DEF NoticesTypeOK
  <2> QED
    BY <1>1, <1>3, <2>1, <2>3, <2>4 DEF NoticesInv
<1>5. ASSUME UNCHANGED <<notice, mark, pushed, undone>>,
             old' \subseteq Notices, archived' \subseteq old'
      PROVE  NoticesInv'
  <2>1. ReportedOnce'
    BY <1>1, <1>5 DEF ReportedOnce, ReadNotices, Announced
  <2> QED
    BY <1>1, <1>5, <2>1 DEF NoticesInv, NoticesTypeOK
<1>6. ASSUME NEW r \in Marks, NEW k \in Mark, mark' = [mark EXCEPT ![r] = k],
             UNCHANGED <<old, archived>>,
             notice' \in [Notices -> {"none", "unread", "read"}],
             pushed' \in Nat, undone' \in 0 .. MaxUndone,
             k.told => k.op # "idle" /\ k.todo = {},
             \A n \in k.done : \/ n \in mark[r].done
                               \/ notice[n] = "unread" /\ LockFreeOn(n),
             \A n \in Notices \ mark[r].done : notice'[n] = notice[n],
             \A n \in k.done : notice'[n] = notice[n],
             ReportedOnce'
      PROVE  NoticesInv'
  <2>1. /\ mark' \in [Marks -> Mark] /\ mark'[r] = k
        /\ \A q \in Marks \ {r} : mark'[q] = mark[q]
    BY <1>1, <1>6, MarkMoves
  <2>2. \A n \in k.done : \A q \in Marks \ {r} : n \notin mark[q].done
    BY <1>1, <1>6 DEF LockFreeOn
  <2>3. \A n \in k.done : notice'[n] = "unread"
    BY <1>1, <1>6
  <2>4. ASSUME NEW q \in Marks PROVE InHand(q)'
    <3>1. CASE q = r
      BY <2>1, <2>2, <2>3, <3>1
    <3>2. CASE q # r
      <4>1. \A n \in mark[q].done : n \in Notices \ mark[r].done
        BY <1>1, <1>3, <3>2
      <4>2. \A n \in mark[q].done : notice'[n] = "unread"
        BY <1>1, <1>6, <4>1
      <4>3. \A n \in mark[q].done : n \notin k.done
        BY <2>2, <3>2
      <4> QED
        BY <1>1, <2>1, <3>2, <4>2, <4>3
    <3> QED
      BY <3>1, <3>2
  <2>5. ASSUME NEW q \in Marks PROVE Waits(q)'
    BY <1>1, <1>6, <2>1
  <2>6. NoticesTypeOK'
    BY <1>1, <1>6, <2>1 DEF NoticesTypeOK
  <2> QED
    BY <1>1, <1>6, <2>4, <2>5, <2>6 DEF NoticesInv
<1>7. ASSUME NEW r \in Marks, NEW k \in Mark, mark' = [mark EXCEPT ![r] = k],
             UNCHANGED <<notice, old, archived, pushed, undone>>,
             ~mark[r].told, ~k.told,
             \A n \in k.done : \/ n \in mark[r].done
                               \/ notice[n] = "unread" /\ LockFreeOn(n)
      PROVE  NoticesInv'
  <2>1. mark'[r] = k /\ \A q \in Marks \ {r} : mark'[q] = mark[q]
    BY <1>1, <1>7, MarkMoves
  <2>2. Announced' = Announced
    BY <1>7, <2>1, AnnouncedMoves
  <2>3. ReportedOnce'
    BY <1>1, <1>7, <2>2 DEF ReportedOnce, ReadNotices
  <2>4. pushed' \in Nat /\ undone' \in 0 .. MaxUndone
    BY <1>1, <1>7 DEF NoticesTypeOK
  <2> QED
    BY <1>1, <1>6, <1>7, <2>3, <2>4
<1>8. ASSUME NEW r \in Marks, NEW op \in {"some", "all"}, NEW ids \in SUBSET Notices,
             StartMark(r, op, ids)
      PROVE  NoticesInv'
  <2> DEFINE k == [NoMark EXCEPT !.op = op, !.todo = {n \in ids : StillUnread(op, n)}]
  <2>1. k \in Mark /\ k.done = {} /\ ~k.told
    BY DEF Mark, NoMark
  <2>2. /\ mark' = [mark EXCEPT ![r] = k] /\ mark[r] = NoMark
        /\ UNCHANGED <<notice, old, archived, pushed, undone>>
    BY <1>8 DEF StartMark
  <2> HIDE DEF k
  <2> QED
    BY <1>2, <1>7, <2>1, <2>2
<1>9. ASSUME NEW r \in Marks, NEW n \in Notices, TakeRow(r, n) PROVE NoticesInv'
  <2> DEFINE k == [mark[r] EXCEPT !.todo = @ \ {n},
                     !.done = IF StillUnread(mark[r].op, n) THEN @ \cup {n} ELSE @]
  <2>0. ~mark[r].told
    BY <1>1, <1>9 DEF TakeRow
  <2>1. /\ k \in Mark /\ k.told = mark[r].told
        /\ k.done = IF StillUnread(mark[r].op, n) THEN mark[r].done \cup {n} ELSE mark[r].done
    BY <1>3 DEF Mark
  <2>2. /\ mark' = [mark EXCEPT ![r] = k]
        /\ UNCHANGED <<notice, old, archived, pushed, undone>>
        /\ LockFreeOn(n)
    BY <1>9 DEF TakeRow
  <2> HIDE DEF k
  <2>3. \A x \in k.done : x \in mark[r].done \/ (notice[x] = "unread" /\ LockFreeOn(x))
    BY <2>1, <2>2 DEF StillUnread
  <2> QED
    BY <1>7, <2>0, <2>1, <2>2, <2>3
<1>10. ASSUME NEW r \in Marks
       PROVE  /\ mark[r].done \subseteq Notices /\ Elsewhere(r) \subseteq Notices
              /\ Elsewhere(r) \cap mark[r].done = {}
              /\ ReadNotices \subseteq Notices /\ ReadNotices \cap mark[r].done = {}
  <2>1. /\ mark[r].done \subseteq Notices
        /\ \A q \in Marks \ {r} : mark[q].done \subseteq Notices
    BY <1>3
  <2>2. \A q \in Marks \ {r} : mark[q].done \cap mark[r].done = {}
    BY <1>1
  <2>3. Elsewhere(r) \subseteq Notices /\ Elsewhere(r) \cap mark[r].done = {}
    BY <2>1, <2>2 DEF Elsewhere
  <2> QED
    BY <1>1, <2>1, <2>3 DEF ReadNotices
<1>11. ASSUME NEW r \in Marks, PushRead(r) PROVE NoticesInv'
  <2> DEFINE k == [mark[r] EXCEPT !.told = TRUE]
             D == mark[r].done
  <2>1. k \in Mark /\ k.told /\ k.op = mark[r].op /\ k.todo = mark[r].todo /\ k.done = D
    BY <1>3 DEF Mark
  <2>2. /\ mark' = [mark EXCEPT ![r] = k] /\ UNCHANGED <<notice, old, archived, undone>>
        /\ pushed' = pushed + Cardinality(D)
        /\ mark[r].op # "idle" /\ mark[r].todo = {} /\ ~mark[r].told
    BY <1>11 DEF PushRead
  <2> HIDE DEF k
  <2>3. mark'[r] = k /\ \A q \in Marks \ {r} : mark'[q] = mark[q]
    BY <1>1, <2>1, <2>2, MarkMoves
  <2>4. Announced = Elsewhere(r) /\ Announced' = Elsewhere(r) \cup D
    BY <2>1, <2>2, <2>3, AnnouncedMoves
  <2>5. D \subseteq Notices /\ Elsewhere(r) \subseteq Notices /\ Elsewhere(r) \cap D = {}
    BY <1>10
  <2> HIDE DEF D
  <2>6. /\ Cardinality(Elsewhere(r)) \in Nat /\ Cardinality(D) \in Nat
        /\ Cardinality(Elsewhere(r) \cup D) = Cardinality(Elsewhere(r)) + Cardinality(D)
    BY <2>5, RowsAddUp
  <2>7. pushed \in Nat /\ undone \in 0 .. MaxUndone /\ undone \in Nat
    BY <1>1 DEF NoticesTypeOK
  <2>8. ReadNotices' = ReadNotices /\ Cardinality(ReadNotices) \in Nat
    <3>1. ReadNotices' = ReadNotices
      BY <2>2 DEF ReadNotices
    <3>2. ReadNotices \in SUBSET Notices /\ {} \in SUBSET Notices /\ ReadNotices \cap {} = {}
      BY DEF ReadNotices
    <3> QED
      BY <3>1, <3>2, RowsAddUp
  <2>9. pushed = Cardinality(ReadNotices) + Cardinality(Elsewhere(r)) + undone
    BY <1>1, <2>4 DEF ReportedOnce
  <2>10. ReportedOnce'
    BY <2>2, <2>4, <2>6, <2>7, <2>8, <2>9 DEF ReportedOnce
  <2>11. pushed' \in Nat /\ undone' \in 0 .. MaxUndone
    BY <2>2, <2>6, <2>7
  <2>12. notice' \in [Notices -> {"none", "unread", "read"}]
    BY <1>1, <2>2
  <2>13. \A n \in k.done : n \in mark[r].done
    BY <2>1 DEF D
  <2> QED
    BY <1>6, <2>1, <2>2, <2>10, <2>11, <2>12, <2>13
<1>12. ASSUME NEW r \in Marks, CommitMark(r) PROVE NoticesInv'
  <2> DEFINE D == mark[r].done
  <2>1. /\ notice' = [n \in Notices |-> IF n \in D THEN "read" ELSE notice[n]]
        /\ mark' = [mark EXCEPT ![r] = NoMark] /\ mark[r].told
        /\ UNCHANGED <<old, archived, pushed, undone>>
    BY <1>12 DEF CommitMark
  <2>2. mark'[r] = NoMark /\ \A q \in Marks \ {r} : mark'[q] = mark[q]
    BY <1>1, <1>2, <2>1, MarkMoves
  <2>3. Announced = Elsewhere(r) \cup D /\ Announced' = Elsewhere(r)
    BY <1>2, <2>1, <2>2, AnnouncedMoves
  <2>4. /\ D \subseteq Notices /\ Elsewhere(r) \subseteq Notices /\ Elsewhere(r) \cap D = {}
        /\ ReadNotices \subseteq Notices /\ ReadNotices \cap D = {}
    BY <1>10
  <2>5. notice' \in [Notices -> {"none", "unread", "read"}]
    BY <1>1, <2>1
  <2>6. \A n \in Notices \ mark[r].done : notice'[n] = notice[n]
    BY <2>1
  <2>7. ReadNotices' = ReadNotices \cup D
    BY <2>1, <2>4 DEF ReadNotices
  <2> HIDE DEF D
  <2>8. /\ Cardinality(Elsewhere(r)) \in Nat /\ Cardinality(D) \in Nat
        /\ Cardinality(Elsewhere(r) \cup D) = Cardinality(Elsewhere(r)) + Cardinality(D)
    BY <2>4, RowsAddUp
  <2>9. /\ Cardinality(ReadNotices) \in Nat
        /\ Cardinality(ReadNotices \cup D) = Cardinality(ReadNotices) + Cardinality(D)
    BY <2>4, RowsAddUp
  <2>10. pushed \in Nat /\ undone \in 0 .. MaxUndone /\ undone \in Nat
    BY <1>1 DEF NoticesTypeOK
  <2>11. pushed = Cardinality(ReadNotices) + Cardinality(Elsewhere(r) \cup D) + undone
    BY <1>1, <2>3 DEF ReportedOnce
  <2>12. ReportedOnce'
    BY <2>1, <2>3, <2>7, <2>8, <2>9, <2>10, <2>11 DEF ReportedOnce
  <2>13. pushed' \in Nat /\ undone' \in 0 .. MaxUndone
    BY <2>1, <2>10
  <2> QED
    BY <1>2, <1>6, <2>1, <2>5, <2>6, <2>12, <2>13
<1>13. ASSUME NEW r \in Marks, AbortMark(r) PROVE NoticesInv'
  <2>1. /\ mark' = [mark EXCEPT ![r] = NoMark]
        /\ UNCHANGED <<notice, old, archived, pushed>>
    BY <1>13 DEF AbortMark
  <2>2. mark'[r] = NoMark /\ \A q \in Marks \ {r} : mark'[q] = mark[q]
    BY <1>1, <1>2, <2>1, MarkMoves
  <2>3. CASE ~mark[r].told
    <3>1. undone' = undone
      BY <1>1, <1>13, <2>3 DEF AbortMark, NoticesTypeOK
    <3> QED
      BY <1>2, <1>7, <2>1, <2>3, <3>1
  <2>4. CASE mark[r].told
    <3> DEFINE D == mark[r].done
    <3>1. undone' = undone + Cardinality(D) /\ undone + Cardinality(D) <= MaxUndone
      BY <1>13, <2>4 DEF AbortMark
    <3>2. Announced = Elsewhere(r) \cup D /\ Announced' = Elsewhere(r)
      BY <1>2, <2>2, <2>4, AnnouncedMoves
    <3>3. D \subseteq Notices /\ Elsewhere(r) \subseteq Notices /\ Elsewhere(r) \cap D = {}
      BY <1>10
    <3> HIDE DEF D
    <3>4. /\ Cardinality(Elsewhere(r)) \in Nat /\ Cardinality(D) \in Nat
          /\ Cardinality(Elsewhere(r) \cup D) = Cardinality(Elsewhere(r)) + Cardinality(D)
      BY <3>3, RowsAddUp
    <3>5. pushed \in Nat /\ undone \in 0 .. MaxUndone /\ undone \in Nat
      BY <1>1 DEF NoticesTypeOK
    <3>6. ReadNotices' = ReadNotices /\ Cardinality(ReadNotices) \in Nat
      <4>1. ReadNotices' = ReadNotices
        BY <2>1 DEF ReadNotices
      <4>2. ReadNotices \in SUBSET Notices /\ {} \in SUBSET Notices /\ ReadNotices \cap {} = {}
        BY DEF ReadNotices
      <4> QED
        BY <4>1, <4>2, RowsAddUp
    <3>7. pushed = Cardinality(ReadNotices) + Cardinality(Elsewhere(r) \cup D) + undone
      BY <1>1, <3>2 DEF ReportedOnce
    <3>8. ReportedOnce'
      BY <2>1, <3>1, <3>2, <3>4, <3>5, <3>6, <3>7 DEF ReportedOnce
    <3>9. pushed' \in Nat /\ undone' \in 0 .. MaxUndone
      BY <2>1, <3>1, <3>4, <3>5, NoticesAssumption
    <3>10. notice' \in [Notices -> {"none", "unread", "read"}]
      BY <1>1, <2>1
    <3> QED
      BY <1>2, <1>6, <2>1, <3>8, <3>9, <3>10
  <2> QED
    BY <2>3, <2>4
<1>14. CASE UNCHANGED noticeVars
  BY <1>1, <1>5, <1>14 DEF noticeVars, NoticesTypeOK
<1>15. ASSUME NEW n \in Notices, NinetyDaysPass(n) PROVE NoticesInv'
  BY <1>1, <1>5, <1>15 DEF NinetyDaysPass, NoticesTypeOK
<1>16. CASE ArchiveOld
  BY <1>1, <1>5, <1>16 DEF ArchiveOld, NoticesTypeOK
<1> QED
  BY <1>4, <1>8, <1>9, <1>11, <1>12, <1>13, <1>14, <1>15, <1>16 DEF NoticesNext

LEMMA NoticesStart == NoticesInit => NoticesInv
<1> SUFFICES ASSUME NoticesInit PROVE NoticesInv
  OBVIOUS
<1>1. NoMark \in Mark /\ NoMark.done = {} /\ ~NoMark.told
  BY DEF NoMark, Mark
<1>2. ReadNotices = {} /\ Announced = {}
  BY <1>1 DEF NoticesInit, ReadNotices, Announced
<1>3. Cardinality(ReadNotices) = 0 /\ Cardinality(Announced) = 0
  BY <1>2, FS_EmptySet
<1>4. NoticesTypeOK
  BY <1>1, NoticesAssumption DEF NoticesInit, NoticesTypeOK
<1>5. ReportedOnce
  BY <1>3 DEF NoticesInit, ReportedOnce
<1> QED
  BY <1>1, <1>4, <1>5 DEF NoticesInit, NoticesInv

\* However a user's tabs overlap, no badge is lowered twice for one marking of a
\* notification: the numbers pushed (_push_read_event, before get_db commits) add
\* up to the rows read or about to be, and those whose marking was rolled back.
THEOREM NoticesAreReportedOnce == NoticesSpec => []ReportedOnce
<1>1. NoticesInv => ReportedOnce
  BY DEF NoticesInv
<1> QED
  BY <1>1, NoticesStart, NoticesStep, PTL DEF NoticesSpec

---------------------------------------------------------------------------
(* All of it.                                                              *)

\* The five parts, each with what its proof needs.
Sound == Chat /\ TicketInv /\ RtInv /\ Presence /\ Hosted /\ NoticesInv /\ SessionInv

\* Messages, tickets, presence, notifications and sessions keep all their
\* invariants, for any number of participants' requests, staff, connections,
\* workers and browsers, if requests that end every session do not overlap.
THEOREM CommunityIsSound ==
  ASSUME OneEnds
  PROVE  AllSpec => []CommunityInv
<1>1. AllInit => Sound
  BY ChatStarts, TicketStarts, RealtimeStarts, NoticesStart, SessionsBegin DEF AllInit, Sound
<1>2. Sound /\ [AllNext]_allVars => Sound'
  <2> SUFFICES ASSUME Sound, [AllNext]_allVars PROVE Sound'
    OBVIOUS
  <2>1. /\ [ChatNext]_chatVars /\ [TicketNext]_ticketVars
        /\ [RtNext]_rtVars /\ [NoticesNext]_noticeVars
        /\ [SessionNext]_sessionVars
    BY DEF AllNext, allVars
  <2> QED
    BY <2>1, ChatStep, TicketInvStep, RealtimeStep, NoticesStep, SessionStep DEF Sound
<1>3. Sound => CommunityInv
  <2>1. Presence => CountsBehave
    BY EmptyIsZero DEF Presence, CountsBehave
  <2> QED
    BY <2>1 DEF Sound, CommunityInv, Chat
<1> QED
  BY <1>1, <1>2, <1>3, PTL DEF AllSpec
============================================================================
