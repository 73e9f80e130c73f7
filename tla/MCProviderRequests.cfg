CONSTANTS
    Caller = {c1, c2}
    Room = 4
    Allowance = 2
    MaxFaults = 2
SPECIFICATION Spec
SYMMETRY Interchangeable
INVARIANTS
    EveryRequestReserved
    PageAttemptsSettled
    OneSearchInFlight
CHECK_DEADLOCK FALSE
