----------------------------- MODULE AdminGuard -----------------------------
(***************************************************************************)
(* Administrators change each other's status and privileges.  An advisory  *)
(* lock serialises the changes, so that the count of the administrators    *)
(* who remain still holds when the change is written.                      *)
(*                                                                         *)
(* Accounts also leave by themselves, without that lock and without that   *)
(* count: deactivate_account and the erasure of personal data.             *)
(***************************************************************************)
EXTENDS Naturals

CONSTANTS
    Accounts,
    FirstAdmins,        \* administrators to begin with
    AdminRequests,      \* requests of administrators in flight
    AdminsMayLeave      \* whether administrators close their own account

ASSUME GuardAssumption ==
    /\ FirstAdmins \subseteq Accounts
    /\ AdminsMayLeave \in BOOLEAN

VARIABLES
    account,        \* users rows: status, is_superuser, is_support
    change          \* what each request has in hand

guardVars == <<account, change>>

AccountStatus == {"active", "suspended", "deactivated"}

AccountRow == [status : AccountStatus, super : BOOLEAN, support : BOOLEAN]

\* The new status, or the privilege that is flipped.
Changes == AccountStatus \cup {"superuser", "support"}

\* "seen" is the target as loaded.
Change == [stage : {"idle", "authorised", "locked", "checked"},
           what : Changes \cup {"none"}, target : Accounts \cup {"nobody"},
           super : BOOLEAN, support : BOOLEAN]

NoChange == [stage |-> "idle", what |-> "none", target |-> "nobody",
             super |-> FALSE, support |-> FALSE]

GuardTypeOK ==
    /\ account \in [Accounts -> AccountRow]
    /\ change \in [AdminRequests -> Change]

GuardInit ==
    /\ account = [u \in Accounts |-> [status |-> "active",
                                      super |-> u \in FirstAdmins,
                                      support |-> FALSE]]
    /\ change = [r \in AdminRequests |-> NoChange]

---------------------------------------------------------------------------

ActiveAdmin(u) == account[u].super /\ account[u].status = "active"

\* Mutant: pg_advisory_xact_lock is forgotten.
MutationLockFree_Always == TRUE

MutationLockFree ==
    \A r \in AdminRequests :
        ~(change[r].stage \in {"locked", "checked"} /\ change[r].what # "support")

ChangeGoes(r, stage) == change' = [change EXCEPT ![r].stage = stage]

EndChange(r) == change' = [change EXCEPT ![r] = NoChange]

\* get_current_admin; nobody changes their own account here.
Authorise(r, admin, target, what) ==
    /\ change[r] = NoChange
    /\ ActiveAdmin(admin)
    /\ admin # target
    /\ change' = [change EXCEPT ![r] =
                     [NoChange EXCEPT !.stage = "authorised", !.what = what,
                                      !.target = target]]
    /\ UNCHANGED account

LockAdmins(r) ==
    /\ change[r].stage = "authorised"
    /\ change[r].what # "support"
    /\ MutationLockFree
    /\ ChangeGoes(r, "locked")
    /\ UNCHANGED account

\* update_user_status counts only when an active administrator goes;
\* toggle_superuser whenever the privilege is taken.
NeedsOthers(what, u) ==
    IF what = "superuser" THEN account[u].super
    ELSE ActiveAdmin(u) /\ what # "active"

\* Mutant: the target counts itself.
OthersRemain_Self(u) == \E v \in Accounts : ActiveAdmin(v)

\* Users with id != target, is_superuser, ACTIVE.
OthersRemain(u) == \E v \in Accounts \ {u} : ActiveAdmin(v)

\* The target is loaded under the lock and the others are counted.
CheckRemaining(r) ==
    LET u == change[r].target IN
    /\ change[r].stage = "locked"
    /\ NeedsOthers(change[r].what, u) => OthersRemain(u)
    /\ change' = [change EXCEPT ![r].stage = "checked",
                                ![r].super = account[u].super]
    /\ UNCHANGED account

SetStatusOf(r) ==
    /\ change[r].stage = "checked"
    /\ change[r].what \in AccountStatus
    /\ account' = [account EXCEPT ![change[r].target].status = change[r].what]
    /\ EndChange(r)

\* A new administrator loses the support flag.
ToggleSuperuser(r) ==
    LET u == change[r].target IN
    /\ change[r].stage = "checked"
    /\ change[r].what = "superuser"
    /\ account' = [account EXCEPT
                      ![u].super = ~change[r].super,
                      ![u].support = IF change[r].super THEN @ ELSE FALSE]
    /\ EndChange(r)

\* toggle_support takes no lock.
LoadSupport(r) ==
    LET u == change[r].target IN
    /\ change[r].stage = "authorised"
    /\ change[r].what = "support"
    /\ ~account[u].super
    /\ change' = [change EXCEPT ![r].stage = "checked",
                                ![r].support = account[u].support]
    /\ UNCHANGED account

ToggleSupport(r) ==
    /\ change[r].stage = "checked"
    /\ change[r].what = "support"
    /\ account' = [account EXCEPT ![change[r].target].support = ~change[r].support]
    /\ EndChange(r)

AbandonChange(r) ==
    /\ change[r].stage # "idle"
    /\ EndChange(r)
    /\ UNCHANGED account

\* deactivate_account, hard_delete_account: the user's own decision.
Leave(u) ==
    /\ account[u].status = "active"
    /\ account[u].super => AdminsMayLeave
    /\ account' = [account EXCEPT ![u].status = "deactivated"]
    /\ UNCHANGED change

GuardNext ==
    \/ \E r \in AdminRequests :
          \/ \E a, u \in Accounts, what \in Changes : Authorise(r, a, u, what)
          \/ LockAdmins(r)
          \/ CheckRemaining(r)
          \/ SetStatusOf(r)
          \/ ToggleSuperuser(r)
          \/ LoadSupport(r)
          \/ ToggleSupport(r)
          \/ AbandonChange(r)
    \/ \E u \in Accounts : Leave(u)

GuardSpec == GuardInit /\ [][GuardNext]_guardVars

---------------------------------------------------------------------------

\* However administrators suspend and demote each other at once, one who can
\* log in remains.
AlwaysAnAdmin == \E u \in Accounts : ActiveAdmin(u)

\* One request at a time is between the lock and its commit.
OneMutates ==
    \A r, s \in AdminRequests :
        /\ change[r].stage \in {"locked", "checked"} /\ change[r].what # "support"
        /\ change[s].stage \in {"locked", "checked"} /\ change[s].what # "support"
        => r = s

\* What a request has counted still holds when it writes.
ChecksHold ==
    \A r \in AdminRequests :
        LET c == change[r] IN
        /\ c.stage # "idle" => c.target \in Accounts /\ c.what \in Changes
        /\ c.stage = "checked" /\ c.what # "support" =>
              /\ NeedsOthers(c.what, c.target) => OthersRemain(c.target)
              /\ c.what = "superuser" => c.super = account[c.target].super

GuardInv == GuardTypeOK /\ AlwaysAnAdmin /\ OneMutates /\ ChecksHold
============================================================================
