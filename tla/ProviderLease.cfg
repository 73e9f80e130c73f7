CONSTANTS
    Owner = {o1, o2, o3}
    NoOwner = NoOwner
    Job = {j1}
    NoJob = NoJob
    Ttls = {1, 2}
    HeartbeatExt = 1
    RenewLag = 1
    MaxTime = 5
    MaxFence = 4
SPECIFICATION LeaseSpec
PROPERTIES ActiveLeaseNotStolen StaleWriterFencedOff ImplementsContract
CHECK_DEADLOCK FALSE
