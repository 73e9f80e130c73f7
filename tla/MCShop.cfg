SPECIFICATION MCSpec
CONSTANTS
    None = None
    Customer = {c1}
    Lot = {l1}
    Request = {r1, r2}
    Manager = {m1, m2}
    Window = 2
    AskedStatus = {"QUALIFIED", "WON"}
    MaxClock = 5
    MaxLeads = 2
    Broadcast = {b1}
    Subscriber = {s1, s2}
    Loyal = {s1}
    Clerk = {k1, k2}
    MaxNotices = 4
    Importer = {i1, i2, i3}
    Legacy = Legacy
    MaxVehicles = 4
    SourceLot = {l1, l2}
    NoVehicle = NoVehicle
    Input = {p1, p2, p3}
    Visitor = {v1, v2}
    UidTtl = 3
    PreviewTtl = 2
    MaxEntries = 2
    Never = Never
    MaxMinute = 6
    PageSizes = {1, 3, 4, 5}
    MaxLots = 12
    MaxPages = 5
    Prices <- MCPrices
    Ages <- MCAges
    VolumesCc = {0, 1599, 3000}
    RateTenths = 440
    Car = {v1}
    AuctionLot = {a1, a2}
    Admin = {k1}
    Nothing = Nothing
    CarFacts <- MCCarFacts
    LotFacts <- MCLotFacts
    Availability = {"AVAILABLE", "SOLD"}
    Query <- MCQuery
INVARIANTS
    NoDuplicateRequests
    HistoryExplainsLead
    SentMeansAttempted
    LinksAgree
    PreviewsSound
    BothProvidersShown
    DearerCostsMore
    OptionsLeadSomewhere
CHECK_DEADLOCK FALSE
