\* The sliding window takes a record away before the penalty has run its term.
SPECIFICATION Spec
CONSTANTS
    Reservations <- MCReservations
    Threshold = 2
    Window = 3
    Duration = 2
    Bookings = {}
    Activations = {}
    Releases = {}
    None = None
    MaxTime = 6
PROPERTY PenaltyRunsItsTerm
