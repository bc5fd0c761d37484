\* A cancellation that loaded a booked row overwrites whatever it has become.
SPECIFICATION Spec
CONSTANTS
    Reservations <- MCReservations
    Seats = {"s1"}
    Users = {"u1", "u2"}
    SeatOf <- MCSeatOf
    UserOf <- MCUserOf
    StartOf <- MCStartOf
    Until <- MCUntil
    Grace = 1
    Threshold = 2
    Cancels <- MCCancels
    Checkins <- MCCheckins
    Sweepers = {"w1"}
    MaxTime = 4
    MaxFailures = 1
PROPERTY OnlyBookedIsCancelled
