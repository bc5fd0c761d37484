\* Progress of three requests for one seat by one user on PostgreSQL: a thread of the API and a
\* coroutine of the portal in one process, a thread in another; one crash.
\* The system stops when every request is answered or lost. Any other stop is a request that never
\* ends, which the property reports: no check for deadlocks besides it.
SPECIFICATION FairSpec
CONSTANTS
    Requests <- TrioRequests
    Seats = {"s1"}
    Users = {"u1"}
    SeatOf <- TrioSeatOf
    UserOf <- TrioUserOf
    From <- TrioFrom
    Until <- TrioUntil
    Processes = {"p1", "p2"}
    ProcessOf <- TrioProcessOf
    Portal = {2}
    Postgres = TRUE
    MaxCrashes = 1
    Nobody = Nobody
PROPERTY EveryRequestEnds
CHECK_DEADLOCK FALSE
