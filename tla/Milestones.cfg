SPECIFICATION Spec
CONSTANTS
    Milestones = {m1, m2}
    ClientTabs = {c1, c2}
    FreelancerTabs = {f1}
    FailureTabs = {x1}
    Amounts = {1, 2}
    Total = 2
    MaxAttempts = 2
SYMMETRY Symmetry
CONSTRAINT Bound
INVARIANTS
    IInv
    AmountPaidExact
    SettledOnce
PROPERTIES
    ImplementsLedger
CHECK_DEADLOCK FALSE
