\* Two scheduler loops and two bookings that fall due together: every booking settles.
SPECIFICATION FairSpec
CONSTANTS
    Reservations <- MCReservations
    Seats = {"s1", "s2"}
    Users = {"u1", "u2"}
    SeatOf <- PairSeatOf
    UserOf <- MCUserOf
    StartOf <- PairStartOf
    Until <- PairUntil
    Grace = 1
    Threshold = 2
    Cancels <- PairCancels
    Checkins <- PairCheckins
    Sweepers = {"w1", "w2"}
    MaxTime = 4
    MaxFailures = 1
PROPERTY EveryBookingSettles
