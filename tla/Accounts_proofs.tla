--------------------------- MODULE Accounts_proofs ---------------------------
(* One active administrator remains, for any number of accounts and of      *)
(* requests in flight, as long as no administrator closes their own        *)
(* account.  Sessions that were ended stay ended, but for what a refresh    *)
(* slips past the end, for any number of browsers, tokens and requests.    *)
EXTENDS AdminGuard, AccountSessions, TLAPS

---------------------------------------------------------------------------
(* Types.                                                                  *)

\* What a request writes into its own entry keeps the type of change.
LEMMA EndChangeType ==
  ASSUME GuardTypeOK, NEW r \in AdminRequests, EndChange(r)
  PROVE  /\ change' \in [AdminRequests -> Change]
         /\ change'[r] = NoChange
         /\ \A s \in AdminRequests \ {r} : change'[s] = change[s]
<1>1. NoChange \in Change
  BY DEF NoChange, Change, Changes
<1> QED
  BY <1>1 DEF GuardTypeOK, EndChange

\* Every step keeps the types.
LEMMA GuardTypeStep == GuardTypeOK /\ ChecksHold /\ [GuardNext]_guardVars => GuardTypeOK'
<1> SUFFICES ASSUME GuardTypeOK, ChecksHold, [GuardNext]_guardVars PROVE GuardTypeOK'
  OBVIOUS
<1>1. ASSUME NEW r \in AdminRequests, NEW a \in Accounts, NEW u \in Accounts,
             NEW what \in Changes, Authorise(r, a, u, what)
      PROVE  GuardTypeOK'
  <2>1. [NoChange EXCEPT !.stage = "authorised", !.what = what, !.target = u] \in Change
    BY DEF NoChange, Change
  <2> QED
    BY <1>1, <2>1 DEF Authorise, GuardTypeOK
<1>2. ASSUME NEW r \in AdminRequests, LockAdmins(r) PROVE GuardTypeOK'
  BY <1>2 DEF LockAdmins, ChangeGoes, GuardTypeOK, Change
<1>3. ASSUME NEW r \in AdminRequests, CheckRemaining(r) PROVE GuardTypeOK'
  <2>1. change[r].target \in Accounts
    BY <1>3 DEF CheckRemaining, ChecksHold
  <2>2. account[change[r].target].super \in BOOLEAN
    BY <2>1 DEF GuardTypeOK, AccountRow
  <2> QED
    BY <1>3, <2>2 DEF CheckRemaining, GuardTypeOK, Change
<1>4. ASSUME NEW r \in AdminRequests, SetStatusOf(r) PROVE GuardTypeOK'
  BY <1>4, EndChangeType DEF SetStatusOf, GuardTypeOK, AccountRow
<1>5. ASSUME NEW r \in AdminRequests, ToggleSuperuser(r) PROVE GuardTypeOK'
  <2> DEFINE u == change[r].target
             row == [account[u] EXCEPT !.super = ~change[r].super,
                                       !.support = IF change[r].super THEN @ ELSE FALSE]
  <2>1. change[r].super \in BOOLEAN
    BY DEF GuardTypeOK, Change
  <2>2. u \in Accounts => row \in AccountRow
    BY <2>1 DEF GuardTypeOK, AccountRow
  <2>3. u \in Accounts
    BY <1>5 DEF ToggleSuperuser, ChecksHold
  <2>4. account' = [account EXCEPT ![u] = row]
    BY <1>5 DEF ToggleSuperuser
  <2>5. account' \in [Accounts -> AccountRow]
    BY <2>2, <2>3, <2>4 DEF GuardTypeOK
  <2> QED
    BY <1>5, <2>5, EndChangeType DEF ToggleSuperuser, GuardTypeOK
<1>6. ASSUME NEW r \in AdminRequests, LoadSupport(r) PROVE GuardTypeOK'
  <2>1. change[r].target \in Accounts
    BY <1>6 DEF LoadSupport, ChecksHold
  <2>2. account[change[r].target].support \in BOOLEAN
    BY <2>1 DEF GuardTypeOK, AccountRow
  <2> QED
    BY <1>6, <2>2 DEF LoadSupport, GuardTypeOK, Change
<1>7. ASSUME NEW r \in AdminRequests, ToggleSupport(r) PROVE GuardTypeOK'
  BY <1>7, EndChangeType DEF ToggleSupport, GuardTypeOK, AccountRow
<1>8. ASSUME NEW r \in AdminRequests, AbandonChange(r) PROVE GuardTypeOK'
  BY <1>8, EndChangeType DEF AbandonChange, GuardTypeOK
<1>9. ASSUME NEW u \in Accounts, Leave(u) PROVE GuardTypeOK'
  BY <1>9 DEF Leave, GuardTypeOK, AccountRow, AccountStatus
<1>10. CASE UNCHANGED guardVars
  BY <1>10 DEF guardVars, GuardTypeOK
<1> QED
  BY <1>1, <1>2, <1>3, <1>4, <1>5, <1>6, <1>7, <1>8, <1>9, <1>10 DEF GuardNext

---------------------------------------------------------------------------
(* The lock, and what was counted under it.                                *)

\* A request between the lock and its commit.
Mutating(r) == change[r].stage \in {"locked", "checked"} /\ change[r].what # "support"

\* The lock admits one request at a time.
LEMMA LockStep == GuardTypeOK /\ OneMutates /\ [GuardNext]_guardVars => OneMutates'
<1> SUFFICES ASSUME GuardTypeOK, OneMutates, [GuardNext]_guardVars PROVE OneMutates'
  OBVIOUS
<1>1. ASSUME NEW r \in AdminRequests, LockAdmins(r) PROVE OneMutates'
  <2>1. \A s \in AdminRequests \ {r} : change'[s] = change[s] /\ ~Mutating(s)
    BY <1>1 DEF LockAdmins, MutationLockFree, ChangeGoes, GuardTypeOK, Mutating
  <2> QED
    BY <2>1 DEF OneMutates, Mutating
<1>2. ASSUME NEW r \in AdminRequests,
             CheckRemaining(r) \/ LoadSupport(r) \/ SetStatusOf(r) \/ ToggleSuperuser(r)
               \/ ToggleSupport(r) \/ AbandonChange(r)
      PROVE  OneMutates'
  <2>1. \A s \in AdminRequests : Mutating(s)' => Mutating(s)
    <3>1. CASE CheckRemaining(r)
      BY <3>1 DEF CheckRemaining, GuardTypeOK, Change, Mutating
    <3>2. CASE LoadSupport(r)
      BY <3>2 DEF LoadSupport, GuardTypeOK, Change, Mutating
    <3>3. CASE EndChange(r)
      BY <3>3, EndChangeType DEF NoChange, Mutating
    <3> QED
      BY <1>2, <3>1, <3>2, <3>3 DEF SetStatusOf, ToggleSuperuser, ToggleSupport, AbandonChange
  <2> QED
    BY <2>1 DEF OneMutates, Mutating
<1>3. ASSUME NEW r \in AdminRequests, NEW a \in Accounts, NEW u \in Accounts,
             NEW what \in Changes, Authorise(r, a, u, what)
      PROVE  OneMutates'
  <2>1. \A s \in AdminRequests : Mutating(s)' => Mutating(s)
    BY <1>3 DEF Authorise, GuardTypeOK, NoChange, Mutating
  <2> QED
    BY <2>1 DEF OneMutates, Mutating
<1>4. ASSUME UNCHANGED change PROVE OneMutates'
  BY <1>4 DEF OneMutates
<1> QED
  BY <1>1, <1>2, <1>3, <1>4 DEF GuardNext, Leave, guardVars

\* ChecksHold, of one request.
Held(s) ==
  LET c == change[s] IN
  /\ c.stage # "idle" => c.target \in Accounts /\ c.what \in Changes
  /\ c.stage = "checked" /\ c.what # "support" =>
        /\ NeedsOthers(c.what, c.target) => OthersRemain(c.target)
        /\ c.what = "superuser" => c.super = account[c.target].super

LEMMA HeldAll == /\ ChecksHold <=> \A s \in AdminRequests : Held(s)
                 /\ ChecksHold' <=> \A s \in AdminRequests : Held(s)'
  BY DEF ChecksHold, Held

\* While nobody becomes or ceases to be an administrator, what a request counted
\* still holds.
LEMMA HeldKept ==
  ASSUME NEW s \in AdminRequests, Held(s), change'[s] = change[s],
         \A u \in Accounts : /\ account'[u].super = account[u].super
                             /\ ActiveAdmin(u)' <=> ActiveAdmin(u)
  PROVE  Held(s)'
<1> DEFINE c == change[s]
<1>1. CASE c.stage = "idle"
  BY <1>1 DEF Held
<1>2. CASE c.stage # "idle"
  <2>1. c.target \in Accounts
    BY <1>2 DEF Held
  <2>2. NeedsOthers(c.what, c.target)' <=> NeedsOthers(c.what, c.target)
    BY <2>1 DEF NeedsOthers
  <2>3. OthersRemain(c.target)' <=> OthersRemain(c.target)
    BY <2>1 DEF OthersRemain
  <2> QED
    BY <1>2, <2>1, <2>2, <2>3 DEF Held
<1> QED
  BY <1>1, <1>2

\* What a request has counted is not changed by others before it writes.
LEMMA ChecksStep ==
  ASSUME AdminsMayLeave = FALSE
  PROVE  GuardTypeOK /\ OneMutates /\ ChecksHold /\ [GuardNext]_guardVars => ChecksHold'
<1> SUFFICES ASSUME GuardTypeOK, OneMutates, ChecksHold, [GuardNext]_guardVars
             PROVE  ChecksHold'
  OBVIOUS
<1>0. \A s \in AdminRequests : Held(s)
  BY HeldAll
<1> SUFFICES ASSUME NEW s \in AdminRequests PROVE Held(s)'
  BY HeldAll
<1>1. ASSUME NEW r \in AdminRequests, NEW a \in Accounts, NEW u \in Accounts,
             NEW what \in Changes, Authorise(r, a, u, what)
      PROVE  Held(s)'
  <2>1. CASE s = r
    BY <1>1, <2>1 DEF Authorise, GuardTypeOK, NoChange, Held
  <2>2. CASE s # r
    BY <1>1, <2>2, <1>0, HeldKept DEF Authorise, GuardTypeOK, ActiveAdmin
  <2> QED
    BY <2>1, <2>2
<1>2. ASSUME NEW r \in AdminRequests, LockAdmins(r) PROVE Held(s)'
  <2>1. CASE s = r
    BY <1>2, <2>1, <1>0 DEF Held, LockAdmins, ChangeGoes, GuardTypeOK
  <2>2. CASE s # r
    BY <1>2, <2>2, <1>0, HeldKept DEF LockAdmins, ChangeGoes, GuardTypeOK, ActiveAdmin
  <2> QED
    BY <2>1, <2>2
<1>3. ASSUME NEW r \in AdminRequests, CheckRemaining(r) PROVE Held(s)'
  <2>1. CASE s = r
    BY <1>3, <2>1, <1>0 DEF Held, CheckRemaining, GuardTypeOK, NeedsOthers, OthersRemain,
       ActiveAdmin
  <2>2. CASE s # r
    BY <1>3, <2>2, <1>0, HeldKept DEF CheckRemaining, GuardTypeOK, ActiveAdmin
  <2> QED
    BY <2>1, <2>2
<1>4. ASSUME NEW r \in AdminRequests, SetStatusOf(r) \/ ToggleSuperuser(r) PROVE Held(s)'
  <2>1. EndChange(r) /\ Mutating(r)
    BY <1>4 DEF SetStatusOf, ToggleSuperuser, Mutating, AccountStatus
  <2>2. CASE s = r
    BY <2>1, <2>2, EndChangeType DEF NoChange, Held
  <2>3. CASE s # r
    <3>1. change'[s] = change[s] /\ ~Mutating(s)
      BY <2>1, <2>3, EndChangeType DEF OneMutates, Mutating
    <3> QED
      BY <3>1, <1>0 DEF Held, Mutating
  <2> QED
    BY <2>2, <2>3
<1>5. ASSUME NEW r \in AdminRequests, LoadSupport(r) PROVE Held(s)'
  <2>1. CASE s = r
    BY <1>5, <2>1, <1>0 DEF Held, LoadSupport, GuardTypeOK
  <2>2. CASE s # r
    BY <1>5, <2>2, <1>0, HeldKept DEF LoadSupport, GuardTypeOK, ActiveAdmin
  <2> QED
    BY <2>1, <2>2
<1>6. ASSUME NEW r \in AdminRequests, ToggleSupport(r) PROVE Held(s)'
  <2>1. \A u \in Accounts : /\ account'[u].super = account[u].super
                             /\ ActiveAdmin(u)' <=> ActiveAdmin(u)
    BY <1>6 DEF ToggleSupport, GuardTypeOK, AccountRow, ActiveAdmin
  <2>2. CASE s = r
    BY <1>6, <2>2, EndChangeType DEF ToggleSupport, NoChange, Held
  <2>3. CASE s # r
    BY <1>6, <2>1, <2>3, EndChangeType, <1>0, HeldKept DEF ToggleSupport
  <2> QED
    BY <2>2, <2>3
<1>7. ASSUME NEW r \in AdminRequests, AbandonChange(r) PROVE Held(s)'
  <2>1. CASE s = r
    BY <1>7, <2>1, EndChangeType DEF AbandonChange, NoChange, Held
  <2>2. CASE s # r
    BY <1>7, <2>2, EndChangeType, <1>0, HeldKept DEF AbandonChange, ActiveAdmin
  <2> QED
    BY <2>1, <2>2
<1>8. ASSUME NEW u \in Accounts, Leave(u) PROVE Held(s)'
  <2>1. \A v \in Accounts : /\ account'[v].super = account[v].super
                             /\ ActiveAdmin(v)' <=> ActiveAdmin(v)
    BY <1>8 DEF Leave, GuardTypeOK, AccountRow, ActiveAdmin
  <2> QED
    BY <1>8, <2>1, <1>0, HeldKept DEF Leave
<1>9. CASE UNCHANGED guardVars
  BY <1>9, <1>0, HeldKept DEF guardVars, ActiveAdmin
<1> QED
  BY <1>1, <1>2, <1>3, <1>4, <1>5, <1>6, <1>7, <1>8, <1>9 DEF GuardNext

---------------------------------------------------------------------------
(* The administrator who remains.                                          *)

\* A step that takes the last administrator's rights would have been refused.
LEMMA AdminStep ==
  ASSUME AdminsMayLeave = FALSE
  PROVE  GuardTypeOK /\ ChecksHold /\ AlwaysAnAdmin /\ [GuardNext]_guardVars => AlwaysAnAdmin'
<1> SUFFICES ASSUME GuardTypeOK, ChecksHold, AlwaysAnAdmin, [GuardNext]_guardVars
             PROVE  AlwaysAnAdmin'
  OBVIOUS
<1>1. ASSUME UNCHANGED account PROVE AlwaysAnAdmin'
  BY <1>1 DEF AlwaysAnAdmin, ActiveAdmin
<1>2. ASSUME NEW r \in AdminRequests, SetStatusOf(r) \/ ToggleSuperuser(r)
      PROVE  AlwaysAnAdmin'
  <2>0. PICK u \in Accounts : u = change[r].target
    BY <1>2 DEF SetStatusOf, ToggleSuperuser, ChecksHold
  <2>1. /\ u = change[r].target
        /\ change[r].what \in AccountStatus \cup {"superuser"}
        /\ NeedsOthers(change[r].what, u) => OthersRemain(u)
        /\ change[r].what = "superuser" => change[r].super = account[u].super
    BY <1>2, <2>0 DEF SetStatusOf, ToggleSuperuser, ChecksHold, AccountStatus
  <2>2. \A v \in Accounts \ {u} : account'[v] = account[v]
    BY <1>2, <2>1 DEF SetStatusOf, ToggleSuperuser, GuardTypeOK
  <2>3. CASE OthersRemain(u)
    BY <2>2, <2>3 DEF OthersRemain, AlwaysAnAdmin, ActiveAdmin
  <2>4. CASE ~NeedsOthers(change[r].what, u)
    <3>1. CASE ActiveAdmin(u)
      <4>1. change[r].what # "superuser" /\ change[r].what = "active"
        BY <2>4, <3>1 DEF NeedsOthers, ActiveAdmin
      <4>2. account' = [account EXCEPT ![u].status = "active"]
        BY <1>2, <2>0, <4>1 DEF SetStatusOf, ToggleSuperuser
      <4>3. account'[u].status = "active" /\ account'[u].super = account[u].super
        BY <2>1, <4>2 DEF GuardTypeOK, AccountRow
      <4>4. ActiveAdmin(u)'
        BY <3>1, <4>3 DEF ActiveAdmin
      <4> QED
        BY <2>1, <4>4 DEF AlwaysAnAdmin
    <3>2. CASE ~ActiveAdmin(u)
      <4>1. PICK v \in Accounts : ActiveAdmin(v)
        BY DEF AlwaysAnAdmin
      <4> QED
        BY <2>2, <3>2, <4>1 DEF AlwaysAnAdmin, ActiveAdmin
    <3> QED
      BY <3>1, <3>2
  <2> QED
    BY <2>1, <2>3, <2>4
<1>3. ASSUME NEW r \in AdminRequests, ToggleSupport(r) PROVE AlwaysAnAdmin'
  BY <1>3 DEF ToggleSupport, GuardTypeOK, AccountRow, AlwaysAnAdmin, ActiveAdmin
<1>4. ASSUME NEW u \in Accounts, Leave(u) PROVE AlwaysAnAdmin'
  BY <1>4 DEF Leave, GuardTypeOK, AccountRow, AlwaysAnAdmin, ActiveAdmin
<1> QED
  BY <1>1, <1>2, <1>3, <1>4
  DEF GuardNext, Authorise, LockAdmins, CheckRemaining, LoadSupport, AbandonChange, guardVars

\* The first administrators are active, and nothing is in hand.
LEMMA GuardBegins ==
  ASSUME FirstAdmins # {}
  PROVE  GuardInit => GuardInv
<1> SUFFICES ASSUME GuardInit PROVE GuardInv
  OBVIOUS
<1>1. NoChange \in Change
  BY DEF NoChange, Change
<1>2. GuardTypeOK
  BY <1>1 DEF GuardInit, GuardTypeOK, AccountRow, AccountStatus
<1>3. AlwaysAnAdmin
  BY GuardAssumption DEF GuardInit, AlwaysAnAdmin, ActiveAdmin
<1>4. \A r \in AdminRequests : change[r].stage = "idle"
  BY DEF GuardInit, NoChange
<1> QED
  BY <1>2, <1>3, <1>4 DEF GuardInv, OneMutates, ChecksHold

\* Whatever administrators do to each other at the same time, one of them remains
\* (update_user_status, toggle_superuser), if there is one to begin with and none
\* closes their own account.
THEOREM OneAdminRemains ==
  ASSUME FirstAdmins # {}, AdminsMayLeave = FALSE
  PROVE  GuardSpec => []AlwaysAnAdmin
<1>1. GuardInit => GuardInv
  BY GuardBegins
<1>2. GuardInv /\ [GuardNext]_guardVars => GuardInv'
  BY GuardTypeStep, LockStep, ChecksStep, AdminStep DEF GuardInv
<1>3. GuardInv => AlwaysAnAdmin
  BY DEF GuardInv
<1> QED
  BY <1>1, <1>2, <1>3, PTL DEF GuardSpec

\* The lock keeps the changes apart and their counts true (_ADMIN_MUTATION_LOCK).
THEOREM ChangesTakeTurns ==
  ASSUME FirstAdmins # {}, AdminsMayLeave = FALSE
  PROVE  GuardSpec => []GuardInv
<1>1. GuardInit => GuardInv
  BY GuardBegins
<1>2. GuardInv /\ [GuardNext]_guardVars => GuardInv'
  BY GuardTypeStep, LockStep, ChecksStep, AdminStep DEF GuardInv
<1> QED
  BY <1>1, <1>2, PTL DEF GuardSpec

---------------------------------------------------------------------------
(* Sessions.                                                               *)

\* Revoking rows keeps their type and activates none.
LEMMA RevokeType ==
  ASSUME SessionTypeOK, NEW T
  PROVE  /\ Revoke(T) \in [RefreshTokens -> TokenRow]
         /\ \A t \in RefreshTokens :
               Revoke(T)[t].status = "active" => token[t].status = "active" /\ t \notin T
<1>1. ASSUME NEW t \in RefreshTokens
      PROVE  /\ [token[t] EXCEPT !.status = "revoked", !.fresh = TRUE] \in TokenRow
             /\ [token[t] EXCEPT !.status = "revoked", !.fresh = TRUE].status = "revoked"
             /\ token[t] \in TokenRow
  BY DEF SessionTypeOK, TokenRow
<1>2. Revoke(T) \in [RefreshTokens -> TokenRow]
  BY <1>1 DEF Revoke
<1> QED
  BY <1>1, <1>2 DEF Revoke

\* A request that loads the user has one entry changed, which has the type.
LEMMA LoadType ==
  ASSUME SessionTypeOK, NEW c \in Calls \cup EndCalls,
         NEW op \in {"login", "otp", "refresh", "end"}, NEW b \in Browsers,
         NEW o \in Otps \cup {"none"}, NEW t \in RefreshTokens \cup {NoToken},
         LoadCall(c, op, b, t, o)
  PROVE  /\ call' \in [Calls \cup EndCalls -> Call]
         /\ call'[c].stage = "loaded" /\ call'[c].op = op /\ call'[c].version = version
         /\ call'[c].old = t
         /\ \A d \in (Calls \cup EndCalls) \ {c} : call'[d] = call[d]
<1> DEFINE k == [NoCall EXCEPT !.stage = "loaded", !.op = op, !.browser = b,
                               !.old = t, !.version = version, !.otp = o]
<1>1. k \in Call /\ k.stage = "loaded" /\ k.op = op /\ k.version = version /\ k.old = t
  BY DEF SessionTypeOK, NoCall, Call
<1>2. call' = [call EXCEPT ![c] = k]
  BY DEF LoadCall
<1> HIDE DEF k
<1> QED
  BY <1>1, <1>2 DEF SessionTypeOK

\* So has one that ends.
LEMMA EndCallType ==
  ASSUME SessionTypeOK, NEW c \in Calls \cup EndCalls, EndCall(c)
  PROVE  /\ call' \in [Calls \cup EndCalls -> Call]
         /\ call'[c] = NoCall
         /\ \A d \in (Calls \cup EndCalls) \ {c} : call'[d] = call[d]
<1>1. NoCall \in Call
  BY SessionsAssumption DEF NoCall, Call, Versions
<1> QED
  BY <1>1 DEF SessionTypeOK, EndCall

\* Every step keeps the types.
LEMMA SessionTypeStep == SessionTypeOK /\ [SessionNext]_sessionVars => SessionTypeOK'
<1> SUFFICES ASSUME SessionTypeOK, [SessionNext]_sessionVars PROVE SessionTypeOK'
  OBVIOUS
<1>1. ASSUME NEW c \in Calls, NEW b \in Browsers, Login(c, b) PROVE SessionTypeOK'
  BY <1>1, LoadType DEF Login, Unmoved, endHistory, SessionTypeOK
<1>2. ASSUME NEW c \in Calls, NEW b \in Browsers, Refresh(c, b) PROVE SessionTypeOK'
  <2>1. PICK t \in Usable(browser[b].refresh) : LoadCall(c, "refresh", b, t, "none")
    BY <1>2 DEF Refresh
  <2>2. t \in RefreshTokens
    BY <1>2, <2>1 DEF Refresh, Usable, Replacements, Active
  <2> QED
    BY <1>2, <2>1, <2>2, LoadType DEF Refresh, Unmoved, endHistory, SessionTypeOK
<1>3. ASSUME NEW c \in Calls, NEW b \in Browsers, NEW o \in Otps, LoginByOtp(c, b, o)
      PROVE  SessionTypeOK'
  BY <1>3, LoadType DEF LoginByOtp, Unmoved, endHistory, SessionTypeOK
<1>4. ASSUME NEW c \in Calls, NEW t \in RefreshTokens, Issue(c, t) PROVE SessionTypeOK'
  <2> DEFINE row == [status |-> "active", fresh |-> FALSE, browser |-> call[c].browser]
             k == [call[c] EXCEPT !.stage = "answered", !.new = t]
  <2>0. call[c] \in Call
    BY DEF SessionTypeOK
  <2>1. row \in TokenRow /\ k \in Call
    BY <2>0 DEF Call, TokenRow
  <2>2. token' = [Revoke({call[c].old}) EXCEPT ![t] = row]
    BY <1>4 DEF Issue
  <2>3. call' = [call EXCEPT ![c] = k]
    BY <1>4 DEF Issue
  <2> HIDE DEF row, k
  <2>4. token' \in [RefreshTokens -> TokenRow]
    BY <2>1, <2>2, RevokeType
  <2>5. call' \in [Calls \cup EndCalls -> Call]
    BY <2>1, <2>3 DEF SessionTypeOK
  <2>6. otp' \in [Otps -> {"none", "sent", "used"}] /\ ended' \in BOOLEAN
    BY <1>4 DEF Issue, SessionTypeOK
  <2>8. late' \subseteq Calls /\ slipped' \subseteq RefreshTokens
    BY <1>4 DEF Issue, SessionTypeOK
  <2>7. UNCHANGED <<userStatus, version, browser>>
    BY <1>4 DEF Issue
  <2> QED
    BY <2>4, <2>5, <2>6, <2>7, <2>8 DEF SessionTypeOK
<1>5. ASSUME NEW c \in Calls, Answer(c) PROVE SessionTypeOK'
  <2> DEFINE row == [refresh |-> call[c].new, access |-> call[c].version]
  <2>1. row \in Cookies
    BY DEF SessionTypeOK, Call, Cookies
  <2>2. browser' = [browser EXCEPT ![call[c].browser] = row]
    BY <1>5 DEF Answer
  <2> HIDE DEF row
  <2>3. browser' \in [Browsers -> Cookies]
    BY <2>1, <2>2 DEF SessionTypeOK
  <2> QED
    BY <1>5, <2>3, EndCallType DEF Answer, endHistory, SessionTypeOK
<1>6. ASSUME NEW c \in Calls \cup EndCalls, Drop(c) PROVE SessionTypeOK'
  BY <1>6, EndCallType DEF Drop, SessionTypeOK
<1>7. ASSUME NEW o \in Otps, SendOtp(o) PROVE SessionTypeOK'
  BY <1>7 DEF SendOtp, endHistory, SessionTypeOK
<1>8. ASSUME NEW b \in Browsers,
             RefreshRefused(b) \/ (\E w \in BOOLEAN : Logout(b, w))
               \/ (\E t \in RefreshTokens : RevokeSession(b, t))
               \/ RevokeOtherSessions(b) \/ DeleteAccount(b)
      PROVE  SessionTypeOK'
  <2>1. NoCookies \in Cookies
    BY DEF NoCookies, Cookies
  <2>2. browser' \in [Browsers -> Cookies]
    BY <1>8, <2>1 DEF RefreshRefused, Logout, RevokeSession,
       RevokeOtherSessions, DeleteAccount, SessionTypeOK
  <2>3. token' = token \/ \E T \in SUBSET (RefreshTokens \cup {NoToken}) : token' = Revoke(T)
    <3>1. Active \subseteq RefreshTokens
      BY DEF Active
    <3>2. browser[b].refresh \in RefreshTokens \cup {NoToken}
      BY DEF SessionTypeOK, Cookies
    <3> HIDE DEF Active, Revoke
    <3> QED
      BY <1>8, <3>1, <3>2 DEF RefreshRefused, Logout, RevokeSession,
         RevokeOtherSessions, DeleteAccount
  <2>4. token' \in [RefreshTokens -> TokenRow]
    BY <2>3, RevokeType DEF SessionTypeOK
  <2>5. userStatus' \in {"active", "suspended", "deactivated"}
    BY <1>8 DEF RefreshRefused, Logout, RevokeSession, RevokeOtherSessions, DeleteAccount,
       SessionTypeOK
  <2>6. UNCHANGED <<version, otp, call, ended, late, slipped>>
    BY <1>8 DEF RefreshRefused, Logout, RevokeSession, RevokeOtherSessions, DeleteAccount,
       endHistory
  <2> QED
    BY <2>2, <2>4, <2>5, <2>6 DEF SessionTypeOK
<1>9. ASSUME NEW c \in EndCalls, NEW b \in Browsers, LoadEndAll(c, b) \/ LoadReset(c, b)
      PROVE  SessionTypeOK'
  BY <1>9, LoadType DEF LoadEndAll, LoadReset, Unmoved, endHistory, SessionTypeOK
<1>10. ASSUME NEW c \in EndCalls, EndAll(c) PROVE SessionTypeOK'
  <2>1. call[c].version \in Versions
    BY DEF SessionTypeOK, Call
  <2>2. version' \in Versions
    BY <1>10, <2>1, SessionsAssumption DEF EndAll, Versions
  <2>3. token' \in [RefreshTokens -> TokenRow] /\ call' \in [Calls \cup EndCalls -> Call]
    BY <1>10, RevokeType, EndCallType DEF EndAll
  <2>4. late' \subseteq Calls /\ slipped' \subseteq RefreshTokens /\ ended' \in BOOLEAN
    BY <1>10 DEF EndAll
  <2>5. UNCHANGED <<userStatus, otp, browser>>
    BY <1>10 DEF EndAll
  <2> QED
    BY <2>2, <2>3, <2>4, <2>5 DEF SessionTypeOK
<1>11. ASSUME NEW s \in {"active", "suspended", "deactivated"}, SetUserStatus(s)
       PROVE  SessionTypeOK'
  BY <1>11 DEF SetUserStatus, endHistory, SessionTypeOK
<1>12. ASSUME NEW t \in RefreshTokens, GraceEnds(t) PROVE SessionTypeOK'
  BY <1>12 DEF GraceEnds, endHistory, SessionTypeOK, TokenRow
<1>13. ASSUME NEW c \in EndCalls, RevokeAll(c) PROVE SessionTypeOK'
  <2> DEFINE k == [call[c] EXCEPT !.stage = "revoking",
                                  !.seen = {t \in RefreshTokens : Exists(t)}]
  <2>1. call[c] \in Call
    BY DEF SessionTypeOK
  <2>2. k \in Call
    BY <2>1 DEF Call
  <2>3. call' = [call EXCEPT ![c] = k]
    BY <1>13 DEF RevokeAll
  <2> HIDE DEF k
  <2>4. call' \in [Calls \cup EndCalls -> Call]
    BY <2>2, <2>3 DEF SessionTypeOK
  <2> QED
    BY <1>13, <2>4 DEF RevokeAll, Unmoved, endHistory, SessionTypeOK
<1>14. CASE UNCHANGED sessionVars
  BY <1>14 DEF sessionVars, endHistory, SessionTypeOK
<1> QED
  BY <1>1, <1>2, <1>3, <1>4, <1>5, <1>6, <1>7, <1>8, <1>9, <1>10, <1>11, <1>12, <1>13,
     <1>14 DEF SessionNext

\* Versions are numbers.
LEMMA VersionNumbers ==
  ASSUME SessionTypeOK
  PROVE  /\ version \in Int
         /\ \A b \in Browsers : browser[b].access \in Int
         /\ \A c \in Calls \cup EndCalls : call[c].version \in Int
  BY SessionsAssumption DEF SessionTypeOK, Cookies, Call, Versions

\* What has slipped past an end is all that is active afterwards.
LEMMA ActiveSlipped ==
  ASSUME EndedMeansEnded, ended, NEW t \in RefreshTokens, token[t].status = "active"
  PROVE  t \in slipped
  BY DEF EndedMeansEnded, Active

\* A request that loads the user as it is adds nothing from the future; after
\* an end it rotates only what has slipped past it.
LEMMA LoadBehaves ==
  ASSUME SessionTypeOK, VersionsBehave, NEW c \in Calls, call[c].stage = "idle",
         NEW op \in {"login", "otp", "refresh"},
         ended /\ op = "refresh" => call'[c].old \in slipped,
         UNCHANGED Unmoved,
         /\ call'[c].stage = "loaded" /\ call'[c].op = op /\ call'[c].version = version
         /\ \A d \in (Calls \cup EndCalls) \ {c} : call'[d] = call[d]
  PROVE  VersionsBehave'
<1>1. UNCHANGED <<version, browser, ended, late, slipped>>
  BY DEF Unmoved, endHistory
<1>2. c \notin late /\ c \notin EndCalls
  BY SessionsAssumption DEF VersionsBehave
<1>3. /\ \A b \in Browsers : browser'[b].access <= version'
      /\ \A d \in Calls : call'[d].version <= version'
  BY <1>1, VersionNumbers DEF VersionsBehave
<1>4. /\ \A d \in Calls : call'[d].stage = "loaded" => call'[d].op # "end"
      /\ \A d \in Calls : call'[d].stage # "revoking"
  BY DEF VersionsBehave
<1>5. \A d \in EndCalls : call'[d].stage # "idle" => call'[d].version = version'
  BY <1>1, <1>2 DEF VersionsBehave
<1>6. \A d \in late' : call'[d].stage = "loaded" /\ call'[d].version # version'
  BY <1>1, <1>2 DEF VersionsBehave, SessionTypeOK
<1>7. ASSUME ended', NEW d \in Calls
      PROVE  /\ call'[d].stage = "loaded" =>
                   \/ call'[d].op \in {"login", "otp"}
                   \/ d \in late'
                   \/ call'[d].old \in slipped'
             /\ call'[d].stage = "answered" =>
                   call'[d].version # version' \/ call'[d].new \in slipped'
  BY <1>1, <1>7 DEF VersionsBehave
<1> QED
  BY <1>3, <1>4, <1>5, <1>6, <1>7 DEF VersionsBehave

\* Neither does a request that is over.
LEMMA OverBehaves ==
  ASSUME SessionTypeOK, VersionsBehave, NEW c \in Calls \cup EndCalls,
         UNCHANGED <<version, ended, slipped>>, EndCall(c), late' = late \ {c},
         \A b \in Browsers : browser'[b].access <= version
  PROVE  VersionsBehave'
<1>1. /\ call'[c] = NoCall
      /\ \A d \in (Calls \cup EndCalls) \ {c} : call'[d] = call[d]
  BY EndCallType
<1>2. NoCall.stage = "idle" /\ NoCall.version = 0 /\ 0 <= version
  BY SessionsAssumption DEF NoCall, SessionTypeOK, Versions
<1>3. \A d \in late' : call'[d].stage = "loaded" /\ call'[d].version # version'
  BY <1>1 DEF VersionsBehave, SessionTypeOK
<1> QED
  BY <1>1, <1>2, <1>3 DEF VersionsBehave

\* Nothing comes from the future, and nothing under way survives an end.
LEMMA VersionsStep ==
  ASSUME OneEnds, SessionTypeOK, VersionsBehave, EndedMeansEnded, [SessionNext]_sessionVars
  PROVE  VersionsBehave'
<1>0. NoCall.stage = "idle"
  BY DEF NoCall
<1>1. ASSUME NEW c \in Calls, NEW b \in Browsers, Login(c, b) PROVE VersionsBehave'
  BY <1>0, <1>1, LoadType, LoadBehaves DEF Login
<1>2. ASSUME NEW c \in Calls, NEW b \in Browsers, Refresh(c, b) PROVE VersionsBehave'
  <2>1. PICK t \in Usable(browser[b].refresh) : LoadCall(c, "refresh", b, t, "none")
    BY <1>2 DEF Refresh
  <2>2. t \in RefreshTokens /\ token[t].status = "active"
    BY <1>2, <2>1 DEF Refresh, Usable, Replacements, Active
  <2>3. ended => t \in slipped
    BY <2>2, ActiveSlipped
  <2>4. call[c].stage = "idle" /\ UNCHANGED Unmoved
    BY <1>0, <1>2 DEF Refresh
  <2> QED
    BY <2>1, <2>2, <2>3, <2>4, LoadType, LoadBehaves
<1>3. ASSUME NEW c \in Calls, NEW b \in Browsers, NEW o \in Otps, LoginByOtp(c, b, o)
      PROVE  VersionsBehave'
  BY <1>0, <1>3, LoadType, LoadBehaves DEF LoginByOtp
<1>4. ASSUME NEW c \in Calls, NEW t \in RefreshTokens, Issue(c, t) PROVE VersionsBehave'
  <2>1. /\ call'[c].stage = "answered" /\ call'[c].version = call[c].version
        /\ call'[c].new = t
        /\ \A d \in (Calls \cup EndCalls) \ {c} : call'[d] = call[d]
    BY <1>4 DEF Issue, SessionTypeOK, Call
  <2>2. /\ ended' => ended /\ call[c].op = "refresh"
        /\ call[c].stage = "loaded"
        /\ late' = late \ {c}
        /\ c \in late \/ call[c].old \in slipped => t \in slipped'
        /\ slipped \subseteq slipped'
    BY <1>4 DEF Issue
  <2>3. UNCHANGED <<version, browser>>
    BY <1>4 DEF Issue
  <2>4. c \notin EndCalls
    BY SessionsAssumption
  <2>5. ended' => t \in slipped'
    BY <2>2 DEF VersionsBehave
  <2>6. /\ \A b \in Browsers : browser'[b].access <= version'
        /\ \A d \in Calls : call'[d].version <= version'
        /\ \A d \in Calls : call'[d].stage = "loaded" => call'[d].op # "end"
        /\ \A d \in Calls : call'[d].stage # "revoking"
        /\ \A d \in EndCalls : call'[d].stage # "idle" => call'[d].version = version'
    BY <2>1, <2>3, <2>4 DEF VersionsBehave
  <2>7. \A d \in late' : call'[d].stage = "loaded" /\ call'[d].version # version'
    BY <2>1, <2>2, <2>3 DEF VersionsBehave, SessionTypeOK
  <2>8. ASSUME ended', NEW d \in Calls
        PROVE  /\ call'[d].stage = "loaded" =>
                     \/ call'[d].op \in {"login", "otp"}
                     \/ d \in late'
                     \/ call'[d].old \in slipped'
               /\ call'[d].stage = "answered" =>
                     call'[d].version # version' \/ call'[d].new \in slipped'
    BY <2>1, <2>2, <2>3, <2>5, <2>8 DEF VersionsBehave
  <2> QED
    BY <2>6, <2>7, <2>8 DEF VersionsBehave
<1>5. ASSUME NEW c \in Calls, Answer(c) PROVE VersionsBehave'
  <2>1. \A b \in Browsers :
           browser'[b].access \in {browser[b].access, call[c].version}
    BY <1>5 DEF Answer, SessionTypeOK
  <2>2. \A b \in Browsers : browser'[b].access <= version
    BY <2>1 DEF VersionsBehave
  <2>3. c \notin late
    BY <1>5 DEF Answer, VersionsBehave
  <2>4. UNCHANGED <<version, ended, slipped>> /\ late' = late \ {c} /\ EndCall(c)
    BY <1>5, <2>3 DEF Answer, endHistory
  <2> QED
    BY <2>2, <2>4, OverBehaves
<1>6. ASSUME NEW c \in Calls \cup EndCalls, Drop(c) PROVE VersionsBehave'
  BY <1>6, OverBehaves DEF Drop, VersionsBehave
<1>7. ASSUME UNCHANGED <<version, browser, call, endHistory>> PROVE VersionsBehave'
  BY <1>7 DEF VersionsBehave, endHistory
<1>8. ASSUME NEW b \in Browsers, browser' = [browser EXCEPT ![b] = NoCookies],
             UNCHANGED <<version, call, endHistory>>
      PROVE  VersionsBehave'
  <2>1. \A d \in Browsers : browser'[d].access \in {browser[d].access, -1}
    BY <1>8 DEF SessionTypeOK, NoCookies
  <2>2. \A d \in Browsers : browser'[d].access <= version
    BY <2>1, VersionNumbers, SessionsAssumption DEF VersionsBehave, SessionTypeOK, Versions
  <2> QED
    BY <1>8, <2>2 DEF VersionsBehave, endHistory
<1>9. ASSUME NEW c \in EndCalls, UNCHANGED Unmoved, call'[c].version = version,
             \A d \in (Calls \cup EndCalls) \ {c} : call'[d] = call[d]
      PROVE  VersionsBehave'
  <2>1. c \notin Calls
    BY SessionsAssumption
  <2>2. \A d \in Calls : call'[d] = call[d]
    BY <1>9, <2>1
  <2>3. \A d \in EndCalls : call'[d].stage # "idle" => call'[d].version = version'
    BY <1>9 DEF OneEnds, Unmoved
  <2>4. \A d \in late' : call'[d].stage = "loaded" /\ call'[d].version # version'
    BY <1>9, <2>2 DEF VersionsBehave, Unmoved, endHistory, SessionTypeOK
  <2> QED
    BY <1>9, <2>2, <2>3, <2>4 DEF VersionsBehave, Unmoved, endHistory
<1>10. ASSUME NEW c \in EndCalls, NEW b \in Browsers, LoadEndAll(c, b) \/ LoadReset(c, b)
       PROVE  VersionsBehave'
  <2>1. /\ call'[c].version = version
        /\ \A d \in (Calls \cup EndCalls) \ {c} : call'[d] = call[d]
    BY <1>10, LoadType DEF LoadEndAll, LoadReset
  <2>2. UNCHANGED Unmoved
    BY <1>10 DEF LoadEndAll, LoadReset
  <2> QED
    BY <1>9, <2>1, <2>2
<1>11. ASSUME NEW c \in EndCalls, RevokeAll(c) PROVE VersionsBehave'
  <2>1. call[c].version = version
    BY <1>11 DEF RevokeAll, VersionsBehave
  <2>2. call \in [Calls \cup EndCalls -> Call] /\ call[c] \in Call
    BY DEF SessionTypeOK
  <2>3. /\ call'[c].version = version
        /\ \A d \in (Calls \cup EndCalls) \ {c} : call'[d] = call[d]
    BY <1>11, <2>1, <2>2 DEF RevokeAll, Call
  <2>4. UNCHANGED Unmoved
    BY <1>11 DEF RevokeAll
  <2> QED
    BY <1>9, <2>3, <2>4
<1>12. ASSUME NEW c \in EndCalls, EndAll(c) PROVE VersionsBehave'
  <2>1. version' = version + 1
    BY <1>12 DEF EndAll, VersionsBehave
  <2>2. /\ call'[c] = NoCall
        /\ \A d \in (Calls \cup EndCalls) \ {c} : call'[d] = call[d]
    BY <1>12, EndCallType DEF EndAll
  <2>3. \A d \in Calls : call'[d] = call[d]
    BY <2>2, SessionsAssumption
  <2>4. \A d \in EndCalls : call'[d].stage = "idle"
    BY <2>2 DEF OneEnds, NoCall
  <2>5. late' = {d \in Calls : call[d].stage = "loaded"}
    BY <1>12 DEF EndAll
  <2>6. UNCHANGED browser
    BY <1>12 DEF EndAll
  <2>7. \A b \in Browsers : browser'[b].access <= version'
    BY <2>1, <2>6, VersionNumbers DEF VersionsBehave
  <2>8. \A d \in Calls : call'[d].version <= version' /\ call'[d].version # version'
    BY <2>1, <2>3, VersionNumbers DEF VersionsBehave
  <2> QED
    BY <2>3, <2>4, <2>5, <2>7, <2>8 DEF VersionsBehave
<1> QED
  BY <1>1, <1>2, <1>3, <1>4, <1>5, <1>6, <1>7, <1>8, <1>10, <1>11, <1>12
     DEF SessionNext, SendOtp, RefreshRefused, Logout, RevokeSession,
         RevokeOtherSessions, DeleteAccount, SetUserStatus, GraceEnds, sessionVars

\* An end holds until the next login begins a session.
LEMMA EndedStep ==
  ASSUME OneEnds, SessionTypeOK, VersionsBehave, EndedMeansEnded, [SessionNext]_sessionVars
  PROVE  EndedMeansEnded'
<1>1. ASSUME UNCHANGED <<version, token, browser, ended, slipped>> PROVE EndedMeansEnded'
  BY <1>1 DEF EndedMeansEnded, Active
<1>2. ASSUME NEW c \in Calls, NEW t \in RefreshTokens, Issue(c, t) PROVE EndedMeansEnded'
  <2> SUFFICES ASSUME ended' PROVE EndedMeansEnded'
    BY DEF EndedMeansEnded
  <2>1. ended /\ t \in slipped' /\ slipped \subseteq slipped'
    BY <1>2 DEF Issue, VersionsBehave
  <2>2. token' = [Revoke({call[c].old}) EXCEPT ![t] =
                     [status |-> "active", fresh |-> FALSE, browser |-> call[c].browser]]
    BY <1>2 DEF Issue
  <2>3. \A u \in RefreshTokens \ {t} :
           token'[u].status = "active" => token[u].status = "active"
    BY <2>2, RevokeType
  <2>4. Active' \subseteq slipped'
    BY <2>1, <2>3, ActiveSlipped DEF Active
  <2> QED
    BY <1>2, <2>1, <2>4 DEF Issue, EndedMeansEnded
<1>3. ASSUME NEW c \in Calls, Answer(c) PROVE EndedMeansEnded'
  <2>1. \A b \in Browsers :
           \/ browser'[b] = browser[b]
           \/ browser'[b].access = call[c].version /\ browser'[b].refresh = call[c].new
    BY <1>3 DEF Answer, SessionTypeOK
  <2>2. ended => call[c].version # version \/ call[c].new \in slipped
    BY <1>3 DEF Answer, VersionsBehave
  <2>3. UNCHANGED <<version, token, ended, slipped>>
    BY <1>3 DEF Answer, endHistory
  <2> QED
    BY <2>1, <2>2, <2>3 DEF EndedMeansEnded, Active
<1>4. ASSUME NEW b \in Browsers, browser' = [browser EXCEPT ![b] = NoCookies],
             UNCHANGED <<version, ended, slipped>>,
             \A t \in RefreshTokens : token'[t].status = "active" => token[t].status = "active"
      PROVE  EndedMeansEnded'
  <2>1. \A d \in Browsers : browser'[d] = browser[d] \/ browser'[d].access = -1
    BY <1>4 DEF SessionTypeOK, NoCookies
  <2>2. -1 # version
    BY SessionsAssumption DEF SessionTypeOK, Versions
  <2> QED
    BY <1>4, <2>1, <2>2 DEF EndedMeansEnded, Active
<1>5. ASSUME UNCHANGED <<version, browser, ended, slipped>>,
             \A t \in RefreshTokens : token'[t].status = "active" => token[t].status = "active"
      PROVE  EndedMeansEnded'
  BY <1>5 DEF EndedMeansEnded, Active
<1>6. ASSUME NEW c \in EndCalls, EndAll(c) PROVE EndedMeansEnded'
  <2>1. version' = version + 1
    BY <1>6 DEF EndAll, VersionsBehave
  <2>2. \A t \in RefreshTokens :
           token'[t].status = "active" =>
              token[t].status = "active" /\ t \notin call[c].seen
    BY <1>6, RevokeType DEF EndAll
  <2>3. slipped' = {t \in RefreshTokens : Exists(t)} \ call[c].seen
    BY <1>6 DEF EndAll
  <2>4. Active' \subseteq slipped'
    BY <2>2, <2>3 DEF Active, Exists
  <2>5. \A b \in Browsers : browser'[b].access # version'
    BY <1>6, <2>1, VersionNumbers DEF EndAll, VersionsBehave
  <2> QED
    BY <2>4, <2>5 DEF EndedMeansEnded
<1>7. ASSUME NEW b \in Browsers, RefreshRefused(b) \/ (\E w \in BOOLEAN : Logout(b, w))
      PROVE  EndedMeansEnded'
  <2>1. token' = token \/ token' = Revoke({browser[b].refresh})
    BY <1>7 DEF RefreshRefused, Logout
  <2>2. browser' = [browser EXCEPT ![b] = NoCookies] /\ UNCHANGED <<version, ended, slipped>>
    BY <1>7 DEF RefreshRefused, Logout, endHistory
  <2>3. \A t \in RefreshTokens : token'[t].status = "active" => token[t].status = "active"
    <3>1. CASE token' = token
      BY <3>1
    <3>2. CASE token' = Revoke({browser[b].refresh})
      BY <3>2, RevokeType
    <3> QED
      BY <2>1, <3>1, <3>2
  <2> QED
    BY <1>4, <2>2, <2>3
<1>8. ASSUME NEW b \in Browsers,
             (\E t \in RefreshTokens : RevokeSession(b, t))
               \/ RevokeOtherSessions(b) \/ DeleteAccount(b)
      PROVE  EndedMeansEnded'
  <2>1. PICK T : token' = Revoke(T)
    BY <1>8 DEF RevokeSession, RevokeOtherSessions, DeleteAccount
  <2>2. UNCHANGED <<version, browser, ended, slipped>>
    BY <1>8 DEF RevokeSession, RevokeOtherSessions, DeleteAccount, endHistory
  <2> QED
    BY <1>5, <2>1, <2>2, RevokeType
<1>9. ASSUME NEW t \in RefreshTokens, GraceEnds(t) PROVE EndedMeansEnded'
  <2>1. \A u \in RefreshTokens : token'[u].status = token[u].status
    BY <1>9 DEF GraceEnds, SessionTypeOK, TokenRow
  <2> QED
    BY <1>9, <1>5, <2>1 DEF GraceEnds, endHistory
<1> QED
  BY <1>1, <1>2, <1>3, <1>6, <1>7, <1>8, <1>9
     DEF SessionNext, Login, LoginByOtp, Refresh, Drop, SendOtp, LoadEndAll,
         LoadReset, RevokeAll, SetUserStatus, Unmoved, endHistory, sessionVars

\* Nobody is logged in to begin with.
LEMMA SessionsBegin == SessionInit => SessionInv
<1> SUFFICES ASSUME SessionInit PROVE SessionInv
  OBVIOUS
<1>1. NoTokenRow \in TokenRow /\ NoCookies \in Cookies /\ NoCall \in Call
  BY SessionsAssumption DEF NoTokenRow, TokenRow, NoCookies, Cookies, NoCall, Call, Versions
<1>2. SessionTypeOK
  <2>1. version \in Versions
    BY SessionsAssumption DEF SessionInit, Versions
  <2>2. call \in [Calls \cup EndCalls -> Call]
    BY <1>1 DEF SessionInit
  <2>3. token \in [RefreshTokens -> TokenRow] /\ browser \in [Browsers -> Cookies]
    BY <1>1 DEF SessionInit
  <2> QED
    BY <2>1, <2>2, <2>3 DEF SessionInit, SessionTypeOK
<1>3. VersionsBehave
  BY DEF SessionInit, VersionsBehave, NoCookies, NoCall
<1>4. EndedMeansEnded
  BY DEF SessionInit, EndedMeansEnded
<1> QED
  BY <1>2, <1>3, <1>4 DEF SessionInv

\* A step of the sessions keeps their invariant.
LEMMA SessionStep ==
  ASSUME OneEnds
  PROVE  SessionInv /\ [SessionNext]_sessionVars => SessionInv'
  BY SessionTypeStep, VersionsStep, EndedStep DEF SessionInv

\* Once logout_all, a password change or a reset has ended every session, no
\* rotation within the grace period and no late answer brings one back before the
\* next login: only what a refresh committed while the rows were being revoked,
\* which the UPDATE did not see, lives on.  Requests that end sessions do not overlap.
THEOREM EndedStaysEnded ==
  ASSUME OneEnds
  PROVE  SessionSpec => []EndedMeansEnded
<1>1. SessionInit => SessionInv
  BY SessionsBegin
<1>2. SessionInv /\ [SessionNext]_sessionVars => SessionInv'
  BY SessionStep
<1>3. SessionInv => EndedMeansEnded
  BY DEF SessionInv
<1> QED
  BY <1>1, <1>2, <1>3, PTL DEF SessionSpec
============================================================================
