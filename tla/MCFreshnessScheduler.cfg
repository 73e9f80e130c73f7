CONSTANTS
    Tick = {auto, admin}
    Timer = auto
    Partition <- Names
    SlotsPerDay = 2
    Days = 1
    DailyRequests = 5
    MaxPagesPerTick = 2
    MaxEvents = 1
SPECIFICATION SchedulerSpec
INVARIANTS PaceKept PartitionsTakeTurns
PROPERTY TicksEnd
CHECK_DEADLOCK FALSE
