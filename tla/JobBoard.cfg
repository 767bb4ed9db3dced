SPECIFICATION AllSpec
CONSTANTS
    Jobs = {j1}
    Freelancers = {f1, f2}
    ClientTabs = {c1}
    Tabs = {t1, t2}
    NoTab = none
    MaxOpenings = 2
    BuyerReqs = {q1, q2}
    Bidders = {f1, f2}
    Offers = {o1, o2, o3}
    ClientCalls = {k1}
    BidderCalls = {t1, t2}
    NoBid = none
    MaxOpen = 1
    MaxOffers = 2
    Deals = {o1, o2, o3}
    Stars = {1, 5}
    Submissions = {n1, n2, n3}
    NoDeal = none
    OwnerTabs = {w1}
    Moderators = {t1, t2}
    Purchases = {p1}
    Images = {i1, i2}
    MaxImages = 2
    MaxEditions = 2
    NoImage = none
    SoldOrders = {o1, o2, o3}
    Runs = {t1, t2}
    Level1 <- Level1Thresholds
    Level2 <- Level2Thresholds
SYMMETRY Symmetry
INVARIANTS
    ContractPerOpening
    OneDeal
    RatingsAgree
    MarketInv
PROPERTIES
    ContractsSurvive
    RejectionStands
    AcceptanceDecidesAll
CHECK_DEADLOCK FALSE
