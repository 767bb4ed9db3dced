SPECIFICATION LiveSpec
CONSTANTS
    Orders = {o1}
    Providers = {"qi_card"}
    Clients = {c1}
    Freelancers = {f1}
    Admins = {}
    Workers = {w1}
    Revisions <- UnlimitedRevisions
    MaxCrashes = 1
    NoSession = none
PROPERTIES
    PendingSettles
    DeliveredSettles
