SPECIFICATION CatalogSpec
CONSTANTS
    Null = Null
    Sightings <- MCSightings
    LegacyRows <- MCLegacyRows
    Stride = 6
    LastHour = 54
    MaxSightings = 2
    Offset = {0, 24, 30, 168}
    States = {"live", "other", "sold"}
    Fault = {"none", "commercialBody"}
    Shown = {0, 6, 48}
INVARIANTS
    ViewsAgree
    PricesAgree
PROPERTY
    ReappearsOnlyWhenSeen
CHECK_DEADLOCK FALSE
