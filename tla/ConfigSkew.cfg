\* Two updates that keep the rule one by one break it together.
SPECIFICATION Spec
CONSTANTS
    ConfigKeys <- MCConfigKeys
    GraceKey = "grace"
    ThresholdKey = "threshold"
    Default <- MCDefault
    Least <- MCLeast
    MaxValue = 3
    OldKeys = {"grace", "threshold"}
    OldReads = {old}
    Reads = {r1, r2, old}
    Updates <- MCUpdates
    Missing = Missing
INVARIANT ThresholdCoversGrace
