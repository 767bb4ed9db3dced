SPECIFICATION Spec
CONSTANTS
    Orders = {o1}
    Providers = {"qi_card"}
    Clients = {c1}
    Freelancers = {}
    Admins = {}
    Workers = {w1}
    Revisions = 1
    MaxCrashes = 0
    NoSession = none
INVARIANTS
    FundedIsCaptured
