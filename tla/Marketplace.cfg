CONSTANTS
    Caller = {c1, c2}
    Buyer = {b1}
    NoOne = NoOne
    ExpiryDays = 1
    MaxTime = 2
    MaxVersion = 2
    MaxRounds = 3
SPECIFICATION Spec
INVARIANTS OnlyApprovedIsPublic SaleIsComplete
PROPERTIES NotExpiredEarly ImplementsLifecycle
