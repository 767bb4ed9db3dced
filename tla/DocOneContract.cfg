SPECIFICATION Spec
CONSTANTS
    Jobs = {j1}
    Freelancers = {f1, f2}
    ClientTabs = {c1, c2}
    Tabs = {t1}
    NoTab = none
    MaxOpenings = 2
INVARIANTS
    ContractPerOpening
CHECK_DEADLOCK FALSE
