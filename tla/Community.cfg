SPECIFICATION AllSpec
CONSTANTS
    Staff = {s1}
    Requests = {r1, r2}
    Messages = {m1, m2}
    NoOne = noone
    MaxOffences = 2
    Agents = {a1, a2}
    TicketRequests = {h1, h2}
    Replies = {q1}
    Nobody = nobody
    Workers = {w1, w2}
    Sockets = {c1, c2, c3}
    Events = {e1}
    Nowhere = nowhere
    MaxOutages = 1
    Notices = {c1, c2, c3}
    Marks = {m1, m2}
    MaxUndone = 2
    Browsers = {b1}
    RefreshTokens = {c1, c2, c3}
    Calls = {m1, m2}
    EndCalls = {x1}
    Otps = {o1}
    NoToken = none
    MaxVersion = 1
SYMMETRY Symmetry
INVARIANTS
    CommunityInv
    UnreadCovered
    ReceiptsHonest
    RepliesReopen
    NobodyLingers
    EndedMeansEnded
CHECK_DEADLOCK FALSE
