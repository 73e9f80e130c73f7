CONSTANTS
    Attempt = {a1, a2, a3}
    Provider = {copart}
    Budget = 2
    Reserve = 1
    DaysPerMonth = 2
    LastDay = 2
SPECIFICATION Spec
SYMMETRY Interchangeable
INVARIANTS CapsHold CountersMatchRows SnapshotAgrees
PROPERTIES PacedForRemainingDays
