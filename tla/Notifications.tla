---------------------------- MODULE Notifications ----------------------------
(***************************************************************************)
(* A user's notifications: they are inserted, marked as read by requests   *)
(* that may overlap (several tabs and devices, one notification or all of  *)
(* them) and archived by the retention script.                             *)
(*                                                                         *)
(* An UPDATE collects the rows its condition holds for, then locks them    *)
(* one by one; a row that another transaction holds is waited for, and the *)
(* condition is tested again on what that one committed.  The number of    *)
(* rows goes to the user's other tabs, which lower their badge by it,      *)
(* before the transaction commits; an abort does not take it back.         *)
(***************************************************************************)
EXTENDS Naturals, FiniteSets

CONSTANTS
    Notices,            \* notifications rows that may be inserted
    Marks,              \* requests in flight
    MaxUndone           \* bound on the rows pushed in vain

ASSUME NoticesAssumption ==
    /\ IsFiniteSet(Notices) /\ IsFiniteSet(Marks)
    /\ MaxUndone \in Nat

VARIABLES
    notice,         \* committed is_read of each row
    old,            \* rows older than 90 days
    archived,       \* rows whose archived_at is set
    mark,           \* what each request has in hand
    pushed,         \* sum of the numbers that went to the other tabs
    undone          \* history: rows among them whose marking was rolled back

noticeVars == <<notice, old, archived, mark, pushed, undone>>

\* "all": mark_all_read, which leaves archived rows out.  "todo" are the rows
\* the UPDATE has collected, "done" those it has changed and holds; "told":
\* their number has been pushed.
Mark == [op : {"idle", "some", "all"}, todo : SUBSET Notices,
         done : SUBSET Notices, told : BOOLEAN]

NoMark == [op |-> "idle", todo |-> {}, done |-> {}, told |-> FALSE]

NoticesTypeOK ==
    /\ notice \in [Notices -> {"none", "unread", "read"}]
    /\ old \subseteq Notices
    /\ archived \subseteq Notices
    /\ mark \in [Marks -> Mark]
    /\ pushed \in Nat
    /\ undone \in 0 .. MaxUndone

NoticesInit ==
    /\ notice = [n \in Notices |-> "none"]
    /\ old = {}
    /\ archived = {}
    /\ mark = [r \in Marks |-> NoMark]
    /\ pushed = 0
    /\ undone = 0

---------------------------------------------------------------------------

\* notify and notify_background, when their transaction commits.
CreateNotification(n) ==
    /\ notice[n] = "none"
    /\ notice' = [notice EXCEPT ![n] = "unread"]
    /\ UNCHANGED <<old, archived, mark, pushed, undone>>

\* Mutant: the update does not ask whether a row is read already.
StillUnread_Unasked(op, n) == notice[n] # "none" /\ (op = "all" => n \notin archived)

\* The condition of the UPDATE.
StillUnread(op, n) == notice[n] = "unread" /\ (op = "all" => n \notin archived)

StartMark(r, op, ids) ==
    /\ mark[r] = NoMark
    /\ op = "all" => ids = Notices
    /\ mark' = [mark EXCEPT ![r] = [NoMark EXCEPT !.op = op,
                                !.todo = {n \in ids : StillUnread(op, n)}]]
    /\ UNCHANGED <<notice, old, archived, pushed, undone>>

LockFreeOn(n) == \A r \in Marks : n \notin mark[r].done

TakeRow(r, n) ==
    /\ n \in mark[r].todo
    /\ LockFreeOn(n)
    /\ mark' = [mark EXCEPT
                   ![r].todo = @ \ {n},
                   ![r].done = IF StillUnread(mark[r].op, n) THEN @ \cup {n} ELSE @]
    /\ UNCHANGED <<notice, old, archived, pushed, undone>>

\* The rowcount goes to the other tabs; the request has not committed yet.
PushRead(r) ==
    /\ mark[r].op # "idle" /\ mark[r].todo = {} /\ ~mark[r].told
    /\ pushed' = pushed + Cardinality(mark[r].done)
    /\ mark' = [mark EXCEPT ![r].told = TRUE]
    /\ UNCHANGED <<notice, old, archived, undone>>

CommitMark(r) ==
    /\ mark[r].told
    /\ notice' = [n \in Notices |-> IF n \in mark[r].done THEN "read" ELSE notice[n]]
    /\ mark' = [mark EXCEPT ![r] = NoMark]
    /\ UNCHANGED <<old, archived, pushed, undone>>

\* Also one of two requests that wait for each other's rows.
AbortMark(r) ==
    LET lost == IF mark[r].told THEN Cardinality(mark[r].done) ELSE 0 IN
    /\ mark[r].op # "idle"
    /\ undone + lost <= MaxUndone
    /\ undone' = undone + lost
    /\ mark' = [mark EXCEPT ![r] = NoMark]
    /\ UNCHANGED <<notice, old, archived, pushed>>

NinetyDaysPass(n) ==
    /\ notice[n] # "none" /\ n \notin old
    /\ old' = old \cup {n}
    /\ UNCHANGED <<notice, archived, mark, pushed, undone>>

\* run_retention: one UPDATE, which waits for the rows that are held.
ArchiveOld ==
    /\ ~(old \subseteq archived)
    /\ \A n \in old \ archived : LockFreeOn(n)
    /\ archived' = archived \cup old
    /\ UNCHANGED <<notice, old, mark, pushed, undone>>

NoticesNext ==
    \/ \E n \in Notices : CreateNotification(n) \/ NinetyDaysPass(n)
    \/ \E r \in Marks :
          \/ \E op \in {"some", "all"}, ids \in SUBSET Notices : StartMark(r, op, ids)
          \/ \E n \in Notices : TakeRow(r, n)
          \/ PushRead(r) \/ CommitMark(r) \/ AbortMark(r)
    \/ ArchiveOld

NoticesSpec == NoticesInit /\ [][NoticesNext]_noticeVars

---------------------------------------------------------------------------

ReadNotices == {n \in Notices : notice[n] = "read"}

\* Rows that are pushed and not committed yet.
Announced == UNION {mark[r].done : r \in {q \in Marks : mark[q].told}}

\* However requests overlap, the numbers that are pushed add up to the rows
\* that are read or about to be, and those whose marking was rolled back: no
\* badge is lowered twice for one marking of a notification.
ReportedOnce ==
    pushed = Cardinality(ReadNotices) + Cardinality(Announced) + undone

\* Rows in hand are unread and nobody else's.
NoticesInv ==
    /\ NoticesTypeOK
    /\ archived \subseteq old
    /\ \A r \in Marks : mark[r].told => mark[r].op # "idle" /\ mark[r].todo = {}
    /\ \A r \in Marks :
          \A n \in mark[r].done :
              /\ notice[n] = "unread"
              /\ \A q \in Marks \ {r} : n \notin mark[q].done
    /\ ReportedOnce
============================================================================
