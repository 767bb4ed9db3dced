--------------------------- MODULE SupportTickets ---------------------------
(***************************************************************************)
(* The ticket of a support thread: staff claim, release, resolve and       *)
(* reopen it, and a reply of the user reopens it.  Every request reads the *)
(* ticket first.  What staff do is saved through the ORM: a column whose   *)
(* new value equals the one that was read is not written.                  *)
(***************************************************************************)
CONSTANTS
    Agents,             \* administrators and support
    TicketRequests,     \* requests of staff in flight
    Replies,            \* requests of the user in flight
    Nobody

ASSUME TicketsAssumption == Nobody \notin Agents

VARIABLES
    ticket,         \* support_status, support_assignee_id of the thread
    handling,       \* what each request of staff has in hand
    reply,          \* the status that each reply of the user has read
    waiting         \* history: a reply that no resolution follows

ticketVars == <<ticket, handling, reply, waiting>>

TicketStatus == {"none", "open", "in_progress", "resolved"}

Ticket == [status : TicketStatus, assignee : Agents \cup {Nobody}]

NoTicket == [status |-> "none", assignee |-> Nobody]

TicketOps == {"claim", "release", "resolve", "reopen"}

Handling == [op : TicketOps \cup {"none"}, by : Agents \cup {Nobody},
             seen : Ticket]

NoHandling == [op |-> "none", by |-> Nobody, seen |-> NoTicket]

TicketTypeOK ==
    /\ ticket \in Ticket
    /\ handling \in [TicketRequests -> Handling]
    /\ reply \in [Replies -> TicketStatus]
    /\ waiting \in BOOLEAN

TicketInit ==
    /\ ticket = NoTicket
    /\ handling = [r \in TicketRequests |-> NoHandling]
    /\ reply = [r \in Replies |-> "none"]
    /\ waiting = FALSE

---------------------------------------------------------------------------

\* contact_support finds an administrator and no thread with them yet.
ContactSupport ==
    /\ ticket.status = "none"
    /\ ticket' = [ticket EXCEPT !.status = "open"]
    /\ waiting' = TRUE
    /\ UNCHANGED <<handling, reply>>

LoadReply(r) ==
    /\ ticket.status # "none"
    /\ reply[r] = "none"
    /\ reply' = [reply EXCEPT ![r] = ticket.status]
    /\ UNCHANGED <<ticket, handling, waiting>>

\* Mutant: replies leave the ticket as it is.
Reopens_Never(seen) == FALSE

Reopens(seen) == seen = "resolved"

\* A reply that read the ticket before it was resolved does not reopen it.
CommitReply(r) ==
    /\ reply[r] # "none"
    /\ ticket' = IF Reopens(reply[r]) THEN [ticket EXCEPT !.status = "open"]
                 ELSE ticket
    /\ reply' = [reply EXCEPT ![r] = "none"]
    /\ waiting' = (waiting \/ reply[r] = "resolved" \/ ticket.status # "resolved")
    /\ UNCHANGED handling

LoadTicket(r, staff, op) ==
    /\ handling[r] = NoHandling
    /\ ticket.status # "none"
    /\ op = "release" => ticket.assignee = staff
    /\ handling' = [handling EXCEPT ![r] = [op |-> op, by |-> staff, seen |-> ticket]]
    /\ UNCHANGED <<ticket, reply, waiting>>

\* Mutant: every column is written back.
Written_All(new, seen, current) == new

Written(new, seen, current) == IF new = seen THEN current ELSE new

Save(r, op, status, assignee) ==
    LET seen == handling[r].seen IN
    /\ handling[r].op = op
    /\ ticket' = [status |-> Written(status, seen.status, ticket.status),
                  assignee |-> Written(assignee, seen.assignee, ticket.assignee)]
    /\ handling' = [handling EXCEPT ![r] = NoHandling]
    /\ UNCHANGED reply

\* A ticket that someone else has is transferred.
ClaimTicket(r) ==
    /\ Save(r, "claim", "in_progress", handling[r].by)
    /\ UNCHANGED waiting

\* Back to the queue, in the status it has.
ReleaseTicket(r) ==
    /\ Save(r, "release", handling[r].seen.status, Nobody)
    /\ UNCHANGED waiting

ResolveTicket(r) ==
    LET seen == handling[r].seen IN
    /\ Save(r, "resolve", "resolved",
            IF seen.assignee = Nobody THEN handling[r].by ELSE seen.assignee)
    /\ waiting' = (waiting /\ seen.status = "resolved")

ReopenTicket(r) ==
    /\ Save(r, "reopen", "open", handling[r].seen.assignee)
    /\ UNCHANGED waiting

TicketNext ==
    \/ ContactSupport
    \/ \E r \in Replies : LoadReply(r) \/ CommitReply(r)
    \/ \E r \in TicketRequests :
          \/ \E s \in Agents, op \in TicketOps : LoadTicket(r, s, op)
          \/ ClaimTicket(r)
          \/ ReleaseTicket(r)
          \/ ResolveTicket(r)
          \/ ReopenTicket(r)

TicketSpec == TicketInit /\ [][TicketNext]_ticketVars

---------------------------------------------------------------------------

\* A reply puts a resolved ticket back into the inbox, and only somebody who
\* resolves it takes it out again: no claim, release or transfer that had read
\* the ticket before.  (A reply that overlaps the resolution stays unseen.)
RepliesReopen == waiting => ticket.status # "resolved"

\* A request in hand has read a ticket that exists.
HandlesTicket ==
    \A r \in TicketRequests :
        handling[r].op # "none" => handling[r].by \in Agents /\ ticket.status # "none"

TicketInv == TicketTypeOK /\ HandlesTicket /\ RepliesReopen
============================================================================
