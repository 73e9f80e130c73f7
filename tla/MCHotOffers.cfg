CONSTANTS
    x = x
    y = y
    z = z
    open = open
    tight = tight
    unbalanced = unbalanced
    Lot <- Lots
    BuyNow = {y}
    Facts = {f1, f2}
    Payload = {p1, p2}
    Worker = {w1, w2}
    Reviewer = {u1}
    AuctionTime <- TimeOf
    f1 = f1
    f2 = f2
    MaxTime = 1
    Policy <- Policies
    DefaultPolicy = open
    Admits <- AdmitsOf
    Undamaged <- UndamagedOf
    Weight <- WeightOf
    Merit <- MeritOf
    Make <- MakeOf
    Model <- ModelOf
    Provider <- ProviderOf
    Liked = {y}
    MaxItems = 2
    MaxPins = 2
    MaxSameMake = 1
    MaxSameMakeModel = 1
    MaxSameProvider = 1
    UrgentWindow = 1
    WeekWindow = 2
    Ttl = 1
    Admin = {a1, a2}
    Reader = {r1}
    Hides = {}
SPECIFICATION MCSpec
INVARIANTS OverridesConsistent ShownIsEligible StaleAtMostTtl StoredIsOwnPayload
CHECK_DEADLOCK FALSE
