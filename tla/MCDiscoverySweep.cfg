CONSTANTS
    all = all
    make = make
    Owner = {r1, r2}
    NoOwner = NoOwner
    Job = {}
    NoJob = NoJob
    Ttls = {1}
    HeartbeatExt = 1
    RenewLag = 0
    MaxTime = 2
    MaxFence = 2
    Query <- Queries
    Partition <- Partitions
    Inherited = {all}
    Lot = {l1}
    Cursor = {c1}
    NoCursor = NoCursor
    SweepTtl = 1
    PageLimit = 2
    CycleGap = 1
    RefreshGap = {1}
    MaxTicks = 1
    MaxEvents = 1
SPECIFICATION MCSpec
SYMMETRY Alike
INVARIANTS PageFollowsCheckpoint
PROPERTIES SupersededRunsWriteNothing NoFalseMiss
CHECK_DEADLOCK FALSE
