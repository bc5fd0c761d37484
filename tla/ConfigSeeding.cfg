\* Concurrent seeding and updates.
SPECIFICATION Spec
CONSTANTS
    ConfigKeys <- MCConfigKeys
    GraceKey = "grace"
    ThresholdKey = "threshold"
    Default <- MCDefault
    Least <- MCLeast
    MaxValue = 3
    OldKeys = {"grace", "threshold"}
    OldReads = {old}
    Reads = {r1, r2, old}
    Updates <- MCUpdates
    Missing = Missing
INVARIANTS TypeOK SeedingNeverFails
PROPERTY OnlyUpdatesChangeRows
