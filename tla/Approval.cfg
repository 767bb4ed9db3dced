SPECIFICATION AllSpec
CONSTANTS
    Escrows = {"large", "small", "small2", "small3"}
    Freelancers = {"seller"}
    Payee <- OneSeller
    Amount <- AmountBySize
    Threshold = 1
    Admins = {a1, a2}
    Requests = {r1, r2}
    Approvals = {p1, p2}
    NoRequest = none
    Earners = {"seller", "other"}
    PayoutRequests = {q1, q2}
    PayoutRows = {x1, x2}
    PayoutAmounts = {1, 2}
    MinimumPayout = 1
    Sandbox = FALSE
    MaxReleased = 3
    Accounts = {a1, a2, u1}
    FirstAdmins = {a1, a2}
    AdminRequests = {r1, r2}
    AdminsMayLeave = FALSE
SYMMETRY Symmetry
INVARIANTS
    IInv
    LargePayoutsNeedTwo
    SplitBounded
    PayoutsBacked
    MarkedOnce
    GuardInv
    AlwaysAnAdmin
CHECK_DEADLOCK FALSE
