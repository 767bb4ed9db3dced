SPECIFICATION Spec
CONSTANTS
    Orders = {o1}
    Providers = {"qi_card"}
    Clients = {c1}
    Freelancers = {}
    Admins = {a1, a2}
    Workers = {w1, w2}
    Revisions = 1
    MaxCrashes = 1
    NoSession = none
SYMMETRY Symmetry
INVARIANTS
    ReleasesBacked
    CountMatches
PROPERTIES
    ExpiredStaysCancelled
