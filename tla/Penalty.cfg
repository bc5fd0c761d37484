\* Violations, one booking, two racing blocks and two racing releases.
SPECIFICATION Spec
CONSTANTS
    Reservations <- MCReservations
    Threshold = 2
    Window = 3
    Duration = 2
    Bookings = {"b1"}
    Activations = {a1, a2}
    Releases = {x1, x2}
    None = None
    MaxTime = 5
SYMMETRY AdminSymmetry
INVARIANTS TypeOK OneActiveBlock NoBookingUnderRestriction ReachingTheThresholdRestricts
