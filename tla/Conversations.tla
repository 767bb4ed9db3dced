---------------------------- MODULE Conversations ----------------------------
(***************************************************************************)
(* One conversation between two participants: its opening, the messages,   *)
(* the cached unread counters, read receipts and the filter for contact    *)
(* details.  A participant may be staff: then it is a support thread, and  *)
(* module SupportTickets has its ticket.                                   *)
(*                                                                         *)
(* A request reads the conversation, writes and commits.  The counters are *)
(* incremented in SQL, on the row as it is then; a reader's reset of its   *)
(* counter is written only if the counter it read was not zero.            *)
(***************************************************************************)
EXTENDS Naturals, FiniteSets

CONSTANTS
    Staff,              \* administrators and support who do not take part
    Requests,
    Messages,           \* messages rows that may be inserted
    NoOne,
    MaxOffences         \* bound on the messages the filter objects to

Sides == {"one", "two"}     \* participant_one, participant_two

ASSUME ConversationsAssumption ==
    /\ IsFiniteSet(Messages)
    /\ MaxOffences \in Nat
    /\ NoOne \notin Staff \cup Sides
    /\ Staff \cap Sides = {}

VARIABLES
    scene,          \* what the conversation is about; fixed
    thread,         \* the conversations row
    message,        \* messages rows
    violations,     \* users.chat_violations of the participants
    request,        \* what each request has in hand
    opened,         \* history: messages there were when each participant
                    \* opened the conversation
    offences        \* history: messages of each participant the filter met

chatVars == <<scene, thread, message, violations, request, opened, offences>>

Other(s) == IF s = "one" THEN "two" ELSE "one"

People == Sides \cup Staff

\* The participants may be staff ("admin"), know each other from a contract
\* ("worked"), or meet over a job, with its client, or over an order.
Scene == [context : {"bare", "job", "order"}, admin : Sides \cup {NoOne},
          client : Sides, jobOpen : BOOLEAN, proposed : BOOLEAN,
          worked : BOOLEAN, theirOrder : BOOLEAN]

Conversation == [exists : BOOLEAN, count : Nat, unread : [Sides -> Nat]]

NoThread == [exists |-> FALSE, count |-> 0, unread |-> [s \in Sides |-> 0]]

\* "to" are the participants whose counter the message raised.
Message == [sent : BOOLEAN, from : People, system : BOOLEAN,
            to : SUBSET Sides, read : BOOLEAN]

NoMessage == [sent |-> FALSE, from |-> "one", system |-> FALSE, to |-> {},
              read |-> FALSE]

Ops == {"none", "start", "send", "system", "read"}

\* "seen" is the row as read; "offends": the filter has masked the message.
Request == [stage : {"idle", "loaded", "posted", "zeroed"}, op : Ops,
            by : People, seen : Conversation, msg : Message,
            id : Messages \cup {NoOne}, offends : BOOLEAN]

Idle == [stage |-> "idle", op |-> "none", by |-> "one", seen |-> NoThread,
         msg |-> NoMessage, id |-> NoOne, offends |-> FALSE]

ChatTypeOK ==
    /\ scene \in Scene
    /\ thread \in Conversation
    /\ message \in [Messages -> Message]
    /\ violations \in [Sides -> Nat]
    /\ request \in [Requests -> Request]
    /\ opened \in [Sides -> SUBSET Messages]
    /\ offences \in [Sides -> 0 .. MaxOffences]

ChatInit ==
    /\ scene \in Scene
    /\ thread = NoThread
    /\ message = [m \in Messages |-> NoMessage]
    /\ violations = [s \in Sides |-> 0]
    /\ request = [r \in Requests |-> Idle]
    /\ opened = [s \in Sides |-> {}]
    /\ offences = [s \in Sides |-> 0]

---------------------------------------------------------------------------
(* Who may do what.                                                        *)

IsStaff(p) == p \in Staff \/ p = scene.admin

\* Staff involvement wins over an order, an order over everything else.
Kind ==
    IF scene.admin # NoOne THEN "support"
    ELSE IF scene.context = "order" THEN "order" ELSE "user"

\* _can_initiate, and the check of the order's parties.
MayStart(p) ==
    /\ scene.context = "order" => scene.theirOrder
    /\ \/ scene.admin # NoOne
       \/ scene.context = "order"
       \/ scene.context = "job" /\ p = scene.client /\ scene.proposed
       \/ scene.context = "job" /\ p # scene.client /\ scene.jobOpen
       \/ scene.context = "bare" /\ scene.worked

MayJoin(p) == p \in Sides \/ (IsStaff(p) /\ Kind \in {"support", "order"})

\* The row is locked from a request's first UPDATE of it to its commit; an
\* insertion locks its entry in the unique index.
RowFree ==
    \A r \in Requests :
        /\ request[r].stage # "posted"
        /\ request[r].stage = "zeroed" =>
              request[r].seen.unread[request[r].by] = 0

Goes(r, stage) == request' = [request EXCEPT ![r].stage = stage]

Ends(r) == request' = [request EXCEPT ![r] = Idle]

Loads(r, op, p, seen, msg, offends) ==
    request' = [request EXCEPT ![r] =
                   [Idle EXCEPT !.stage = "loaded", !.op = op, !.by = p,
                                !.seen = seen, !.msg = msg, !.offends = offends]]

\* Of the row that is read, what the request goes on to use.
SeenToSend == [NoThread EXCEPT !.exists = thread.exists]

SeenToRead(s) ==
    [NoThread EXCEPT !.exists = TRUE, !.unread[s] = thread.unread[s]]

---------------------------------------------------------------------------
(* Writing.                                                                *)

\* Whoever is not participant_one is taken for participant_two.
Draft(p) ==
    [NoMessage EXCEPT !.from = p, !.to = IF p = "one" THEN {"two"} ELSE {"one"}]

\* The first message, or another one to a conversation that exists.  It does
\* not pass the filter.
StartConversation(r, p) ==
    /\ request[r] = Idle
    /\ p \in Sides
    /\ ~thread.exists => MayStart(p)
    /\ Loads(r, "start", p, SeenToSend, Draft(p), FALSE)
    /\ UNCHANGED <<scene, thread, message, violations, opened, offences>>

SendMessage(r, p) ==
    /\ request[r] = Idle
    /\ thread.exists
    /\ MayJoin(p)
    /\ Loads(r, "send", p, SeenToSend, Draft(p), FALSE)
    /\ UNCHANGED <<scene, thread, message, violations, opened, offences>>

\* process_message meets contact details.  The first time they are masked.
SendMasked(r, p) ==
    /\ request[r] = Idle
    /\ thread.exists
    /\ p \in Sides /\ ~IsStaff(p)
    /\ violations[p] = 0
    /\ offences[p] < MaxOffences
    /\ Loads(r, "send", p, SeenToSend, Draft(p), TRUE)
    /\ offences' = [offences EXCEPT ![p] = @ + 1]
    /\ UNCHANGED <<scene, thread, message, violations, opened>>

\* The second time the message is refused, the third time its sender is
\* suspended: by an error, which rolls back the counter and the suspension.
RefuseMessage(p) ==
    /\ thread.exists
    /\ p \in Sides /\ ~IsStaff(p)
    /\ violations[p] > 0
    /\ offences[p] < MaxOffences
    /\ offences' = [offences EXCEPT ![p] = @ + 1]
    /\ UNCHANGED <<scene, thread, message, violations, request, opened>>

\* "Dispute opened", posted by the order's own request; or the acceptance of
\* a proposal, which opens the conversation if there is none.
SendSystemMessage(r) ==
    /\ request[r] = Idle
    /\ \/ thread.exists /\ Kind = "order"
       \/ scene.context = "job" /\ scene.proposed
    /\ Loads(r, "system", "one", SeenToSend,
             [NoMessage EXCEPT !.system = TRUE, !.to = Sides], FALSE)
    /\ UNCHANGED <<scene, thread, message, violations, opened, offences>>

\* INSERT and UPDATE.  (Module Realtime has the event that is published now.)
Post(r, m) ==
    LET k == request[r] IN
    /\ k.stage = "loaded" /\ k.op \in {"start", "send", "system"}
    /\ ~message[m].sent /\ \A q \in Requests : request[q].id # m
    /\ RowFree
    /\ ~k.seen.exists => ~thread.exists
    /\ request' = [request EXCEPT ![r].stage = "posted", ![r].id = m]
    /\ UNCHANGED <<scene, thread, message, violations, opened, offences>>

\* Mutant: the counter becomes a flag.
Raised_Flag(s) == 1

\* Conversation.unread_one + 1, in SQL.
Raised(s) == thread.unread[s] + 1

CommitMessage(r) ==
    LET k == request[r] IN
    /\ k.stage = "posted"
    /\ thread' = [exists |-> TRUE, count |-> thread.count + 1,
                  unread |-> [s \in Sides |-> IF s \in k.msg.to THEN Raised(s)
                                              ELSE thread.unread[s]]]
    /\ message' = [message EXCEPT ![k.id] = [k.msg EXCEPT !.sent = TRUE]]
    /\ violations' = IF k.offends THEN [violations EXCEPT ![k.by] = 1]
                     ELSE violations
    /\ Ends(r)
    /\ UNCHANGED <<scene, opened, offences>>

\* A failure, or a duplicate conversation: everything is rolled back.
Abandon(r) ==
    /\ request[r].stage # "idle"
    /\ Ends(r)
    /\ UNCHANGED <<scene, thread, message, violations, opened, offences>>

---------------------------------------------------------------------------
(* Reading.                                                                *)

LoadThread(r, s) ==
    /\ request[r] = Idle
    /\ thread.exists
    /\ s \in Sides
    /\ Loads(r, "read", s, SeenToRead(s), NoMessage, FALSE)
    /\ UNCHANGED <<scene, thread, message, violations, opened, offences>>

\* unread = 0, which is an UPDATE only if it was something else.
ZeroUnread(r) ==
    LET k == request[r] IN
    /\ k.stage = "loaded" /\ k.op = "read"
    /\ k.seen.unread[k.by] # 0 => RowFree
    /\ Goes(r, "zeroed")
    /\ UNCHANGED <<scene, thread, message, violations, opened, offences>>

\* Mutant: the reader's own messages are marked as well.
MarkedRead_Own(s) == {m \in Messages : message[m].sent /\ ~message[m].read}

MarkedRead(s) ==
    {m \in Messages : message[m].sent /\ message[m].from # s /\ ~message[m].read}

\* Everything the others wrote is marked, and one page of the messages is
\* returned: the newest ones, or older ones if the reader asks for them.
GetMessages(r) ==
    LET s == request[r].by IN
    /\ request[r].stage = "zeroed"
    /\ thread' = IF request[r].seen.unread[s] # 0
                 THEN [thread EXCEPT !.unread[s] = 0] ELSE thread
    /\ message' = [m \in Messages |->
                      IF m \in MarkedRead(s) THEN [message[m] EXCEPT !.read = TRUE]
                      ELSE message[m]]
    /\ opened' = [opened EXCEPT ![s] = {m \in Messages : message[m].sent}]
    /\ Ends(r)
    /\ UNCHANGED <<scene, violations, offences>>

ChatNext ==
    \/ \E r \in Requests, p \in People :
          \/ StartConversation(r, p)
          \/ SendMessage(r, p)
          \/ SendMasked(r, p)
          \/ LoadThread(r, p)
    \/ \E p \in Sides : RefuseMessage(p)
    \/ \E r \in Requests :
          \/ SendSystemMessage(r)
          \/ \E m \in Messages : Post(r, m)
          \/ CommitMessage(r)
          \/ Abandon(r)
          \/ ZeroUnread(r)
          \/ GetMessages(r)

ChatSpec == ChatInit /\ [][ChatNext]_chatVars

---------------------------------------------------------------------------

Unread(s) ==
    {m \in Messages : /\ message[m].sent /\ ~message[m].read
                      /\ s \in message[m].to /\ message[m].from # s}

\* A message addressed to a participant that nobody has read is on that
\* participant's badge: however sends and reads overlap, the counter covers
\* the unread messages.
UnreadCovered == \A s \in Sides : Cardinality(Unread(s)) <= thread.unread[s]

\* A participant's message carries a receipt exactly if the other participant
\* has opened the conversation since it was committed: no visit of anybody
\* else stands in for theirs, and none of theirs is lost on a message.  (The
\* page they were given need not have shown it.)
ReceiptsHonest ==
    \A m \in Messages :
        message[m].sent /\ message[m].from \in Sides =>
            (message[m].read <=> m \in opened[Other(message[m].from)])

\* message_filter_service.py: "3rd+: suspended".  Nothing the filter does to
\* a sender beyond the first warning is ever stored.
Escalates ==
    \A s \in Sides : offences[s] >= 3 => violations[s] >= 3

\* The counters count; a masked message is a first offence.
CountsMatch ==
    /\ thread.count = Cardinality({m \in Messages : message[m].sent})
    /\ \A s \in Sides : violations[s] <= 1 /\ violations[s] <= offences[s]
    /\ ~thread.exists => thread = NoThread

ChatInv == ChatTypeOK /\ CountsMatch
============================================================================
