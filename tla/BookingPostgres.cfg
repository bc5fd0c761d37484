\* Two server processes on PostgreSQL, one crash.
SPECIFICATION Spec
CONSTANTS
    Requests <- MCRequests
    Seats <- MCSeats
    Users <- MCUsers
    SeatOf <- MCSeatOf
    UserOf <- MCUserOf
    From <- MCFrom
    Until <- MCUntil
    Processes = {"p1", "p2"}
    ProcessOf <- MCTwoProcesses
    Portal = {}
    Postgres = TRUE
    MaxCrashes = 1
    Nobody = Nobody
INVARIANTS TypeOK NoDoubleBooking AnswersMatchRows NoLockLeaks
PROPERTY ImplementsLedger
