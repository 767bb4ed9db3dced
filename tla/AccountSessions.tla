--------------------------- MODULE AccountSessions ---------------------------
(***************************************************************************)
(* The sessions of one user: refresh tokens kept as rows and rotated, the  *)
(* token_version that access tokens carry, and the browsers that hold a    *)
(* pair of them in cookies.                                                *)
(*                                                                         *)
(* A refresh whose token was rotated less than a minute ago is answered    *)
(* with a rotation of the user's newest active token instead of an error,  *)
(* so that two tabs do not log each other out.  "Newest" is by created_at, *)
(* the start of a transaction: any active token may be the newest.         *)
(***************************************************************************)
EXTENDS Integers

CONSTANTS
    Browsers,
    RefreshTokens,      \* refresh_tokens rows that may be inserted
    Calls,              \* logins and refreshes in flight
    EndCalls,           \* requests in flight that end every session
    Otps,               \* one-time passwords sent to the phone
    NoToken,
    MaxVersion          \* bound on users.token_version

ASSUME SessionsAssumption ==
    /\ NoToken \notin RefreshTokens
    /\ Calls \cap EndCalls = {}
    /\ MaxVersion \in Nat

VARIABLES
    userStatus,     \* users.status
    version,        \* users.token_version
    token,          \* refresh_tokens rows
    otp,            \* phone_otps rows
    browser,        \* cookies
    call,           \* what each request has in hand
    ended,          \* history: every session was ended, none began since
    late,           \* history: calls that had loaded when they were ended
    slipped         \* history: rows that the end overlapped and did not see

endHistory == <<ended, late, slipped>>

sessionVars == <<userStatus, version, token, otp, browser, call, endHistory>>

\* "fresh": revoked within _ROTATION_GRACE_SECONDS, by updated_at.
TokenRow == [status : {"none", "active", "revoked"}, fresh : BOOLEAN,
             browser : Browsers \cup {"nobody"}]

NoTokenRow == [status |-> "none", fresh |-> FALSE, browser |-> "nobody"]

Versions == 0 .. MaxVersion

Cookies == [refresh : RefreshTokens \cup {NoToken}, access : Versions \cup {-1}]

NoCookies == [refresh |-> NoToken, access |-> -1]

\* "old" is the row to revoke, "new" the row inserted, "version" the user's
\* token_version as loaded, "seen" the rows in the snapshot of the UPDATE
\* that ends the sessions.
Call == [stage : {"idle", "loaded", "revoking", "answered"},
         op : {"none", "login", "otp", "refresh", "end"},
         browser : Browsers \cup {"nobody"}, old : RefreshTokens \cup {NoToken},
         new : RefreshTokens \cup {NoToken}, version : Versions,
         otp : Otps \cup {"none"}, seen : SUBSET RefreshTokens]

NoCall == [stage |-> "idle", op |-> "none", browser |-> "nobody",
           old |-> NoToken, new |-> NoToken, version |-> 0, otp |-> "none",
           seen |-> {}]

SessionTypeOK ==
    /\ userStatus \in {"active", "suspended", "deactivated"}
    /\ version \in Versions
    /\ token \in [RefreshTokens -> TokenRow]
    /\ otp \in [Otps -> {"none", "sent", "used"}]
    /\ browser \in [Browsers -> Cookies]
    /\ call \in [Calls \cup EndCalls -> Call]
    /\ ended \in BOOLEAN
    /\ late \subseteq Calls
    /\ slipped \subseteq RefreshTokens

SessionInit ==
    /\ userStatus = "active"
    /\ version = 0
    /\ token = [t \in RefreshTokens |-> NoTokenRow]
    /\ otp = [o \in Otps |-> "none"]
    /\ browser = [b \in Browsers |-> NoCookies]
    /\ call = [c \in Calls \cup EndCalls |-> NoCall]
    /\ ended = FALSE
    /\ late = {}
    /\ slipped = {}

---------------------------------------------------------------------------

Active == {t \in RefreshTokens : token[t].status = "active"}

Revoke(T) ==
    [t \in RefreshTokens |->
        IF t \in T /\ token[t].status = "active"
        THEN [token[t] EXCEPT !.status = "revoked", !.fresh = TRUE]
        ELSE token[t]]

\* get_current_user on the access token of a browser.
Authenticated(b) ==
    userStatus = "active" /\ browser[b].access = version

LoadCall(c, op, b, old, o) ==
    call' = [call EXCEPT ![c] =
                [NoCall EXCEPT !.stage = "loaded", !.op = op, !.browser = b,
                               !.old = old, !.version = version, !.otp = o]]

EndCall(c) == call' = [call EXCEPT ![c] = NoCall]

Unmoved == <<userStatus, version, token, otp, browser, endHistory>>

\* login, social_login: the password or the provider's token was right; only
\* the suspended are refused.  (A wrong password counts up, and the 401 rolls the count back.)
Login(c, b) ==
    /\ call[c] = NoCall
    /\ userStatus # "suspended"
    /\ LoadCall(c, "login", b, NoToken, "none")
    /\ UNCHANGED Unmoved

SendOtp(o) ==
    /\ userStatus = "active"
    /\ otp[o] = "none"
    /\ otp' = [otp EXCEPT ![o] = "sent"]
    /\ UNCHANGED <<userStatus, version, token, browser, call, endHistory>>

LoginByOtp(c, b, o) ==
    /\ call[c] = NoCall
    /\ userStatus = "active"
    /\ otp[o] = "sent"
    /\ LoadCall(c, "otp", b, NoToken, o)
    /\ UNCHANGED Unmoved

\* Mutant: a revoked row will do as a replacement.
Replacements_Any == {t \in RefreshTokens : token[t].status # "none"}

Replacements == Active

\* The presented token, or, if it was revoked a moment ago, another one.
Usable(t) ==
    IF token[t].status = "active" THEN {t}
    ELSE IF token[t].fresh THEN Replacements ELSE {}

Refresh(c, b) ==
    /\ call[c] = NoCall
    /\ browser[b].refresh \in RefreshTokens
    /\ \E t \in Usable(browser[b].refresh) : LoadCall(c, "refresh", b, t, "none")
    /\ UNCHANGED Unmoved

\* 401: the frontend clears the cookies.
RefreshRefused(b) ==
    /\ browser[b].refresh \in RefreshTokens
    /\ Usable(browser[b].refresh) = {}
    /\ browser' = [browser EXCEPT ![b] = NoCookies]
    /\ UNCHANGED <<userStatus, version, token, otp, call, endHistory>>

\* One commit revokes the old row, if any, spends the code, and inserts.
Issue(c, t) ==
    LET k == call[c] IN
    /\ k.stage = "loaded"
    /\ k.op \in {"login", "otp", "refresh"}
    /\ token[t].status = "none"
    /\ token' = [Revoke({k.old}) EXCEPT ![t] =
                    [status |-> "active", fresh |-> FALSE, browser |-> k.browser]]
    /\ otp' = IF k.op = "otp" THEN [otp EXCEPT ![k.otp] = "used"] ELSE otp
    /\ call' = [call EXCEPT ![c].stage = "answered", ![c].new = t]
    /\ ended' = (ended /\ k.op = "refresh")
    /\ late' = late \ {c}
    /\ slipped' = IF c \in late \/ k.old \in slipped THEN slipped \cup {t} ELSE slipped
    /\ UNCHANGED <<userStatus, version, browser>>

\* The response sets the cookies, or never arrives.
Answer(c) ==
    LET k == call[c] IN
    /\ k.stage = "answered"
    /\ browser' = [browser EXCEPT ![k.browser] =
                      [refresh |-> k.new, access |-> k.version]]
    /\ EndCall(c)
    /\ UNCHANGED <<userStatus, version, token, otp, endHistory>>

\* Before the commit nothing was written; after it, the answer is lost.
Drop(c) ==
    /\ call[c].stage # "idle"
    /\ EndCall(c)
    /\ late' = late \ {c}
    /\ UNCHANGED <<userStatus, version, token, otp, browser, ended, slipped>>

---------------------------------------------------------------------------
(* Ending sessions.                                                        *)

\* Browsers send no body: the row is revoked only by other clients.
Logout(b, withToken) ==
    /\ Authenticated(b)
    /\ token' = IF withToken THEN Revoke({browser[b].refresh}) ELSE token
    /\ browser' = [browser EXCEPT ![b] = NoCookies]
    /\ UNCHANGED <<userStatus, version, otp, call, endHistory>>

RevokeSession(b, t) ==
    /\ Authenticated(b)
    /\ token[t].status # "none"
    /\ token' = Revoke({t})
    /\ UNCHANGED <<userStatus, version, otp, browser, call, endHistory>>

RevokeOtherSessions(b) ==
    /\ Authenticated(b)
    /\ token' = Revoke(Active \ {browser[b].refresh})
    /\ UNCHANGED <<userStatus, version, otp, browser, call, endHistory>>

\* logout_all and change_password authenticate; a reset comes by mail.
LoadEndAll(c, b) ==
    /\ call[c] = NoCall
    /\ Authenticated(b)
    /\ LoadCall(c, "end", b, NoToken, "none")
    /\ UNCHANGED Unmoved

LoadReset(c, b) ==
    /\ call[c] = NoCall
    /\ LoadCall(c, "end", b, NoToken, "none")
    /\ UNCHANGED Unmoved

Exists(t) == token[t].status # "none"

\* UPDATE refresh_tokens takes its snapshot, then waits for the rows that
\* others have locked and will commit.
RevokeAll(c) ==
    /\ call[c].stage = "loaded" /\ call[c].op = "end"
    /\ call' = [call EXCEPT ![c].stage = "revoking",
                            ![c].seen = {t \in RefreshTokens : Exists(t)}]
    /\ UNCHANGED Unmoved

\* The commit: of the rows in the snapshot those that are still active, and
\* token_version as loaded, plus one.
EndAll(c) ==
    /\ call[c].stage = "revoking"
    /\ call[c].version < MaxVersion
    /\ token' = Revoke(call[c].seen)
    /\ version' = call[c].version + 1
    /\ ended' = TRUE
    /\ late' = {k \in Calls : call[k].stage = "loaded"}
    /\ slipped' = {t \in RefreshTokens : Exists(t)} \ call[c].seen
    /\ EndCall(c)
    /\ UNCHANGED <<userStatus, otp, browser>>

\* Accounts are suspended, deactivated and reactivated.
SetUserStatus(s) ==
    /\ userStatus # s
    /\ userStatus' = s
    /\ UNCHANGED <<version, token, otp, browser, call, endHistory>>

\* Erasure revokes the rows and leaves the version.  (Its UPDATE is plain SQL
\* and does not stamp updated_at: the rows may also be past the grace period.)
DeleteAccount(b) ==
    /\ Authenticated(b)
    /\ userStatus' = "deactivated"
    /\ token' = Revoke(Active)
    /\ UNCHANGED <<version, otp, browser, call, endHistory>>

GraceEnds(t) ==
    /\ token[t].fresh
    /\ token' = [token EXCEPT ![t].fresh = FALSE]
    /\ UNCHANGED <<userStatus, version, otp, browser, call, endHistory>>

SessionNext ==
    \/ \E c \in Calls :
          \/ \E b \in Browsers : Login(c, b) \/ Refresh(c, b)
          \/ \E b \in Browsers, o \in Otps : LoginByOtp(c, b, o)
          \/ \E t \in RefreshTokens : Issue(c, t)
          \/ Answer(c)
          \/ Drop(c)
    \/ \E o \in Otps : SendOtp(o)
    \/ \E b \in Browsers :
          \/ RefreshRefused(b)
          \/ \E w \in BOOLEAN : Logout(b, w)
          \/ \E t \in RefreshTokens : RevokeSession(b, t)
          \/ RevokeOtherSessions(b)
          \/ DeleteAccount(b)
    \/ \E c \in EndCalls, b \in Browsers : LoadEndAll(c, b) \/ LoadReset(c, b)
    \/ \E c \in EndCalls : RevokeAll(c) \/ EndAll(c) \/ Drop(c)
    \/ \E s \in {"active", "suspended", "deactivated"} : SetUserStatus(s)
    \/ \E t \in RefreshTokens : GraceEnds(t)

SessionSpec == SessionInit /\ [][SessionNext]_sessionVars

---------------------------------------------------------------------------

\* Once every session was ended, and until the next login, only the rows that
\* a refresh inserted while the end was under way, or that were rotated out of
\* those, are active, and only their browsers are authenticated: neither the
\* grace period nor an answer that arrives late brings another session back.
EndedMeansEnded ==
    ended =>
        /\ Active \subseteq slipped
        /\ \A b \in Browsers :
              browser[b].access = version => browser[b].refresh \in slipped

---------------------------------------------------------------------------

\* One request at a time ends the sessions: two would both write the version
\* that both have loaded, plus one.
OneEnds == \A c, d \in EndCalls : c = d

\* Nothing that is held or under way carries a version of the future, and
\* after an end nothing under way can revive what ended.
VersionsBehave ==
    /\ \A b \in Browsers : browser[b].access <= version
    /\ \A c \in Calls : call[c].version <= version
    /\ \A c \in Calls : call[c].stage = "loaded" => call[c].op # "end"
    /\ \A c \in Calls : call[c].stage # "revoking"
    /\ \A c \in EndCalls : call[c].stage # "idle" => call[c].version = version
    /\ \A c \in late : call[c].stage = "loaded" /\ call[c].version # version
    /\ ended => \A c \in Calls :
          /\ call[c].stage = "loaded" =>
                \/ call[c].op \in {"login", "otp"}
                \/ c \in late
                \/ call[c].old \in slipped
          /\ call[c].stage = "answered" =>
                call[c].version # version \/ call[c].new \in slipped

SessionInv == SessionTypeOK /\ VersionsBehave /\ EndedMeansEnded
============================================================================
