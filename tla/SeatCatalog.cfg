SPECIFICATION Spec
CONSTANTS
    u1 = u1  u2 = u2  d1 = d1  d2 = d2  w1 = w1  w2 = w2  v1 = v1  v2 = v2
    None = None
    Departments = {d1, d2}
    Students = {u1, u2}
    MaxRooms = 3
    MaxSeats = 3
    SeatCodes = {"A1", "A2"}
    Hours <- MCHours
    Writers = {w1, w2}
    Changes <- MCChanges
    MaxBookings = 2
    Visits = {v1, v2}
    Windows <- MCWindows
    Grace = 1
    SliceLength = 2
    PageSize = 1
    Evening = 2
    MaxTime = 3
    Ids <- MCIds
    Numbers <- MCNumbers
    Typed <- MCTyped
    Founded = {d1}
    Enrolled <- Accounts
    Reserved <- Earlier
    MaxRequests = 3
    Building <- TwoRooms
    Furniture <- TwoSeats
SYMMETRY Symmetric
INVARIANTS
    TypeOK
    BookingsAreStaleByRacesOnly
    PagedListingsAreComplete
    ViolationRateAtMostOne
    KeyFailuresAreSeatRaces
    LocatedIsMeant
PROPERTIES
    AvailabilityAgreesWithBooking
    CheckedInAtTheDoor
