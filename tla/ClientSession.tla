--------------------------- MODULE ClientSession ---------------------------
(***************************************************************************)
(* One browser: its tabs share the cookies, and each refreshes them when a *)
(* request of its own is refused (client.ts) and by a timer                *)
(* (auth-store.ts).  A refresh that fails makes the tab clear the cookies. *)
(* The answers of overlapping refreshes may arrive in any order.           *)
(*                                                                         *)
(* The user has no other device.  A 401 may answer any request: its access *)
(* token expired, on the way too, or carries an old version.               *)
(***************************************************************************)
EXTENDS FiniteSets, Naturals

CONSTANTS
    Pages,              \* tabs, each with its _refreshPromise and its timer
    Asks,               \* requests of one tab that may be under way at once
    Generations,        \* refresh tokens
    NoGeneration

ASSUME ClientAssumption == NoGeneration \notin Generations

VARIABLES
    generation,     \* the refresh token rows, on the server
    jar,            \* the refresh_token cookie
    post,           \* POST /auth/refresh, of each tab's interceptor and timer
    ask,            \* what each request of a tab waits for
    excused         \* history: something may have cost the browser its session

clientVars == <<generation, jar, post, ask, excused>>

Posts == Pages \X {"interceptor", "timer"}

\* "old" is the token the request carries, then the row the server found for
\* it; "new" is the token in the answer.
Post == [stage : {"none", "sent", "loaded", "answered"},
         old : Generations \cup {NoGeneration}, new : Generations \cup {NoGeneration}]

NoPost == [stage |-> "none", old |-> NoGeneration, new |-> NoGeneration]

Ask == [stage : {"idle", "sent", "waiting", "clearing"}, retried : BOOLEAN]

NoAsk == [stage |-> "idle", retried |-> FALSE]

\* "fresh": revoked less than a minute ago.
ClientTypeOK ==
    /\ generation \in [Generations -> {"free", "active", "fresh", "dead"}]
    /\ jar \in Generations \cup {NoGeneration}
    /\ post \in [Posts -> Post]
    /\ ask \in [Pages \X Asks -> Ask]
    /\ excused \in BOOLEAN

ClientInit ==
    /\ generation = [g \in Generations |-> "free"]
    /\ jar = NoGeneration
    /\ post = [p \in Posts |-> NoPost]
    /\ ask = [q \in Pages \X Asks |-> NoAsk]
    /\ excused = TRUE

Alive == {g \in Generations : generation[g] = "active"}

---------------------------------------------------------------------------
(* Requests of a tab and its interceptor.                                  *)

Send(q) ==
    /\ ask[q] = NoAsk
    /\ ask' = [ask EXCEPT ![q].stage = "sent"]
    /\ UNCHANGED <<generation, jar, post, excused>>

\* Any answer but a 401, and no answer at all.
Answered(q) ==
    /\ ask[q].stage = "sent"
    /\ ask' = [ask EXCEPT ![q] = NoAsk]
    /\ UNCHANGED <<generation, jar, post, excused>>

SendRefresh(p) == [post EXCEPT ![p] = [NoPost EXCEPT !.stage = "sent", !.old = jar]]

\* Mutant: a request is not marked when it is sent again.
MayRetry_Always(q) == TRUE

MayRetry(q) == ~ask[q].retried

\* The first 401 of a request waits for a refresh, the tab's own if one is on
\* its way; the second is given to the caller.
Unauthorized(q) ==
    LET p == <<q[1], "interceptor">> IN
    /\ ask[q].stage = "sent"
    /\ IF MayRetry(q)
       THEN /\ ask' = [ask EXCEPT ![q] = [stage |-> "waiting", retried |-> TRUE]]
            /\ post' = IF post[p] = NoPost THEN SendRefresh(p) ELSE post
       ELSE /\ ask' = [ask EXCEPT ![q] = NoAsk]
            /\ UNCHANGED post
    /\ UNCHANGED <<generation, jar, excused>>

TimerFires(t) ==
    /\ post[<<t, "timer">>] = NoPost
    /\ jar # NoGeneration
    /\ post' = SendRefresh(<<t, "timer">>)
    /\ UNCHANGED <<generation, jar, ask, excused>>

\* What awaits the promise goes on in one turn of the event loop: to send the
\* request again, or to clear the session.
Resumed(p, stage) ==
    [q \in Pages \X Asks |->
        IF p = <<q[1], "interceptor">> /\ ask[q].stage = "waiting"
        THEN [ask[q] EXCEPT !.stage = stage] ELSE ask[q]]

---------------------------------------------------------------------------
(* The refresh endpoint, see AccountSessions.                              *)

\* Mutant: no grace period.
Accepts_Active(g) == IF g \in Alive THEN {g} ELSE {}

\* The row presented, or another active one within the grace period.
Accepts(g) ==
    IF g \in Alive THEN {g}
    ELSE IF g \in Generations /\ generation[g] = "fresh" THEN Alive ELSE {}

LoadRefresh(p) ==
    /\ post[p].stage = "sent"
    /\ \E g \in Accepts(post[p].old) :
          post' = [post EXCEPT ![p].stage = "loaded", ![p].old = g]
    /\ UNCHANGED <<generation, jar, ask, excused>>

Rotate(p, g) ==
    /\ post[p].stage = "loaded"
    /\ generation[g] = "free"
    /\ generation' = [generation EXCEPT ![post[p].old] = "fresh", ![g] = "active"]
    /\ post' = [post EXCEPT ![p].stage = "answered", ![p].new = g]
    /\ UNCHANGED <<jar, ask, excused>>

\* The newer cookie may replace a cookie newer still.
Arrive(p) ==
    LET g == post[p].new IN
    /\ post[p].stage = "answered"
    /\ jar' = g
    /\ excused' = (excused \/ g \notin Alive)
    /\ post' = [post EXCEPT ![p] = NoPost]
    /\ ask' = Resumed(p, "sent")
    /\ UNCHANGED generation

Refused(p) ==
    /\ post[p].stage = "sent"
    /\ Accepts(post[p].old) = {}
    /\ post' = [post EXCEPT ![p] = NoPost]
    /\ ask' = Resumed(p, "clearing")
    /\ UNCHANGED <<generation, jar, excused>>

\* The request or its answer is lost, or the server fails.
RefreshLost(p) ==
    /\ post[p].stage # "none"
    /\ post' = [post EXCEPT ![p] = NoPost]
    /\ ask' = Resumed(p, "clearing")
    /\ excused' = TRUE
    /\ UNCHANGED <<generation, jar>>

\* clear-session asks for no token: it takes whatever the jar holds by then.
ClearSession(q) ==
    /\ ask[q].stage = "clearing"
    /\ jar' = NoGeneration
    /\ excused' = (excused \/ Accepts(jar) # {})
    /\ ask' = [ask EXCEPT ![q] = NoAsk]
    /\ UNCHANGED <<generation, post>>

---------------------------------------------------------------------------

\* A new session, in any tab; what earlier ones left on the server stays.
Login(g) ==
    /\ jar = NoGeneration
    /\ generation[g] = "free"
    /\ generation' = [generation EXCEPT ![g] = "active"]
    /\ jar' = g
    /\ excused' = FALSE
    /\ UNCHANGED <<post, ask>>

\* The browser sends no token to revoke: only its cookies go.
Logout ==
    /\ jar # NoGeneration
    /\ jar' = NoGeneration
    /\ excused' = TRUE
    /\ UNCHANGED <<generation, post, ask>>

\* Logout everywhere, a new password: there is nothing to fall back on.
SessionsEnd ==
    /\ Alive # {}
    /\ generation' = [g \in Generations |->
                         IF g \in Alive THEN "dead" ELSE generation[g]]
    /\ excused' = TRUE
    /\ UNCHANGED <<jar, post, ask>>

\* A minute has passed.  A refresh takes less, from sending to arriving.
GraceEnds ==
    /\ \A p \in Posts : post[p] = NoPost
    /\ \E g \in Generations : generation[g] = "fresh"
    /\ generation' = [g \in Generations |->
                         IF generation[g] = "fresh" THEN "dead" ELSE generation[g]]
    /\ UNCHANGED <<jar, post, ask, excused>>

\* A row that nothing refers to any more expires: a value for the next token.
Expire(g) ==
    /\ generation[g] \in {"active", "dead"} /\ jar # g
    /\ \A p \in Posts : g \notin {post[p].old, post[p].new}
    /\ generation' = [generation EXCEPT ![g] = "free"]
    /\ UNCHANGED <<jar, post, ask, excused>>

ClientNext ==
    \/ \E q \in Pages \X Asks :
          Send(q) \/ Answered(q) \/ Unauthorized(q) \/ ClearSession(q)
    \/ \E t \in Pages : TimerFires(t)
    \/ \E p \in Posts :
          \/ LoadRefresh(p) \/ Arrive(p) \/ Refused(p) \/ RefreshLost(p)
          \/ \E g \in Generations : Rotate(p, g)
    \/ \E g \in Generations : Login(g) \/ Expire(g)
    \/ Logout \/ SessionsEnd \/ GraceEnds

\* A request is answered or times out; so is a refresh.
ClientFairness ==
    /\ \A q \in Pages \X Asks :
          /\ WF_clientVars(Answered(q) \/ Unauthorized(q))
          /\ WF_clientVars(ClearSession(q))
    /\ \A p \in Posts : WF_clientVars(Arrive(p) \/ Refused(p) \/ RefreshLost(p))

ClientSpec == ClientInit /\ [][ClientNext]_clientVars /\ ClientFairness

---------------------------------------------------------------------------

\* From a login on, the tabs do not sign each other out, however their
\* refreshes overlap: what the cookie holds can be refreshed.  Only a logout, the
\* end of all sessions, a lost refresh, an older cookie that arrives last and a
\* clear-session that arrives late may change that.
StaysSignedIn == ~excused => Accepts(jar) # {}

\* Every request comes to an end, even if each is refused and each refresh
\* succeeds.
RequestsEnd ==
    \A q \in Pages \X Asks : ask[q] # NoAsk ~> ask[q] = NoAsk

\* Whoever waits, waits for a refresh that is under way.
ClientInv ==
    /\ ClientTypeOK
    /\ \A q \in Pages \X Asks :
          ask[q].stage = "waiting" => post[<<q[1], "interceptor">>] # NoPost
    /\ StaysSignedIn
============================================================================
