CONSTANTS
    j1 = j1
    j2 = j2
    s1 = s1
    Job <- Jobs
    Owner <- Tokens
    NoOwner = NoOwner
    NoJob = NoJob
    Ttls = {2, 3}
    ImportTtl = 2
    SweepTtl = 3
    HeartbeatExt = 1
    RenewLag = 0
    MaxTime = 4
    MaxFence = 3
    MaxPages = 1
    SweepPages = 1
    MaxCrashes = 1
SPECIFICATION FairSpec
PROPERTIES LiveJobNotAbandoned SupersededNeverSucceeds WorkersFinish
CHECK_DEADLOCK FALSE
