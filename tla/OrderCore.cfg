SPECIFICATION Spec
CONSTANTS
    Orders = {o1}
    Providers = {"qi_card"}
    Clients = {c1}
    Freelancers = {f1}
    Admins = {a1}
    Workers = {w1}
    Revisions = 1
    MaxCrashes = 1
    NoSession = none
INVARIANTS
    IInv
    ConfirmedOnce
    CallbackFunds
PROPERTIES
    FrozenUntilResolved
    ImplementsLedger
