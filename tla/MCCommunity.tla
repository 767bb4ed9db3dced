----------------------------- MODULE MCCommunity -----------------------------
(***************************************************************************)
(* Small instances of Conversations, SupportTickets, Realtime,             *)
(* Notifications and AccountSessions.  They share no state: a behaviour    *)
(* runs one of them, chosen at the start.                                  *)
(***************************************************************************)
EXTENDS Conversations, SupportTickets, Realtime, Notifications,
        AccountSessions, TLC

VARIABLE part

allVars == <<chatVars, ticketVars, rtVars, noticeVars, sessionVars, part>>

\* Of what a conversation can be about, what makes a difference.
Scenes ==
    {x \in Scene :
        /\ x.client = "one"
        /\ IF x.context = "job" THEN x.jobOpen # x.proposed
           ELSE x.jobOpen /\ x.proposed
        /\ x.context # "bare" => x.worked
        /\ x.context # "order" => x.theirOrder
        /\ x.admin # NoOne => x.context = "bare" /\ x.worked}

AllInit ==
    /\ ChatInit /\ TicketInit /\ RtInit /\ NoticesInit /\ SessionInit
    /\ \/ part = "chat" /\ scene \in Scenes
       \/ part \in {"ticket", "realtime", "notices", "sessions"}
          /\ scene = CHOOSE x \in Scenes : x.admin = "one"

AllNext ==
    \/ /\ part = "chat" /\ ChatNext
       /\ UNCHANGED <<ticketVars, rtVars, noticeVars, sessionVars, part>>
    \/ /\ part = "ticket" /\ TicketNext
       /\ UNCHANGED <<chatVars, rtVars, noticeVars, sessionVars, part>>
    \/ /\ part = "realtime" /\ RtNext
       /\ UNCHANGED <<chatVars, ticketVars, noticeVars, sessionVars, part>>
    \/ /\ part = "notices" /\ NoticesNext
       /\ UNCHANGED <<chatVars, ticketVars, rtVars, sessionVars, part>>
    \/ /\ part = "sessions" /\ SessionNext
       /\ UNCHANGED <<chatVars, ticketVars, rtVars, noticeVars, part>>

AllSpec == AllInit /\ [][AllNext]_allVars

\* The types and the auxiliary invariants, each of the part that runs.
CommunityInv ==
    /\ part = "chat" => ChatInv
    /\ part = "ticket" => TicketInv
    /\ part = "realtime" => RtInv /\ CountsBehave
    /\ part = "notices" => NoticesInv
    /\ part = "sessions" => SessionInv

\* Sockets are Notices and RefreshTokens too, and Messages are Marks and Calls.

Symmetry == Permutations(Messages) \cup Permutations(Sockets)
=============================================================================
