----------------------------- MODULE StudentVisits -----------------------------
(***************************************************************************)
(* What students, and the statistics page, make of the catalogue: booking  *)
(* a seat, cancelling, checking in with a code, the availability of a      *)
(* room, the three queries the assistant answers, the codes of all rooms,  *)
(* the violation rate, and the search for an account.  A visit is one      *)
(* request; its statements see whatever other requests have committed in   *)
(* between, and reads that feed one check are one step.  The booking and   *)
(* the release of a reservation are single steps here: BookingWrite and    *)
(* ReservationLifecycle show what those steps are made of.  The usage      *)
(* rates, which are sums of durations, are left out.                       *)
(***************************************************************************)
EXTENDS ResourceCatalog

CONSTANTS
    MaxBookings,        \* bound on the reservations ever made
    Visits,             \* requests
    Windows,            \* times that are booked: <<from, to>>
    Grace,              \* checkin_grace_minutes
    SliceLength,        \* CHECKIN_CODE_WINDOW_MINUTES
    PageSize,           \* _ROOM_PAGE_SIZE, _RESERVATION_PAGE_SIZE
    Evening,            \* _EVENING_START_TIME
    MaxTime,            \* bound on the clock
    Ids, Numbers,       \* student -> the account's id, the student number
    Typed               \* what administrators type to find an account

Bookings == 1..MaxBookings

BookingRow ==
    [user : Students, seat : Seats, room : Rooms, window : Windows,
     status : {"BOOKED", "CHECKED_IN", "CANCELLED", "EXPIRED"},
     missed : BOOLEAN]          \* is there a violation record?

ASSUME VisitAssumption ==
    /\ MaxBookings \in Nat \ {0} /\ PageSize \in Nat \ {0} /\ SliceLength \in Nat \ {0}
    /\ Grace \in Nat /\ MaxTime \in Nat /\ Evening \in Nat
    /\ Windows \subseteq {w \in Nat \X Nat : w[1] < w[2]}
    /\ Ids \in [Students -> Nat] /\ Numbers \in [Students -> Nat]
    /\ Typed \subseteq [prefix : {"", "id:", "student:"}, value : Nat]
    /\ \A u, o \in Students : Ids[u] = Ids[o] \/ Numbers[u] = Numbers[o] => u = o
    /\ None \notin BookingRow

VARIABLES
    booking,    \* id -> row, None when there is none
    now,        \* the clock
    visit       \* -> what the request has read

visitVars == <<booking, now, visit>>

Quiet == [pc |-> "idle", kind |-> None, user |-> None, seat |-> None, room |-> None,
          window |-> None, listed |-> {}, among |-> {}, page |-> 1, at |-> 0,
          booking |-> None, code |-> 0, violations |-> 0, denominator |-> 0,
          typed |-> None, hours |-> [r \in Rooms |-> None], held |-> {}, offered |-> {}]

Queries == {"available", "attributes", "today"}

Kinds == {"book", "cancel", "checkin", "availability", "reservations", "codes", "statistics",
          "locate"} \cup Queries

(* The rest of the evening, as far as the room is open.                    *)
Tonight(hours) == <<IF hours[1] > Evening THEN hours[1] ELSE Evening, hours[2]>>

VisitRow ==
    [pc : {"idle", "commit", "validate", "seats", "occupied", "page", "total", "ask", "asked",
           "violations", "denominator", "byNumber", "again", "done", "refused"},
     kind : Kinds \cup {None}, user : Students \cup {None}, seat : Seats \cup {None},
     room : Rooms \cup {None}, window : Windows \cup {Tonight(h) : h \in Hours} \cup {None},
     listed : SUBSET (Rooms \cup Seats \cup Bookings), among : SUBSET Rooms,
     page : 1..(MaxRooms + MaxBookings + 1), at : 0..MaxTime,
     booking : Bookings \cup {None}, code : 0..MaxTime,
     violations : 0..MaxBookings, denominator : 0..MaxBookings,
     typed : Typed \cup {None}, hours : [Rooms -> Hours \cup {None}],
     held : SUBSET Seats, offered : SUBSET Seats]

VisitsTypeOK ==
    /\ booking \in [Bookings -> BookingRow \cup {None}]
    /\ now \in 0..MaxTime
    /\ visit \in [Visits -> VisitRow]

VisitsInit(first) ==
    /\ booking = [b \in Bookings |-> IF b = 1 THEN first ELSE None]
    /\ now = 0
    /\ visit = [v \in Visits |-> Quiet]

-----------------------------------------------------------------------------
Made == {b \in Bookings : booking[b] # None}

(* A room a student sees (_student_visibility_statement) ...               *)
Visible(r, u) ==
    /\ room[r] # None /\ room[r].active
    /\ ~room[r].only \/ room[r].department \in {None, account[u]}

(* ... and the seats of it (list_student_visible_seats).                   *)
SeatsShown(r) == {s \in Seats : seat[s] # None /\ seat[s].active /\ seat[s].room = r}

(* A student's token names an account that is there.                       *)
SignedIn(u) == account[u] # "absent"

RoomsInUse == {r \in Rooms : room[r] # None /\ room[r].active}

Within(w, hours) == hours[1] <= w[1] /\ w[2] <= hours[2]
Meets(w, x) == w[1] < x[2] /\ x[1] < w[2]

Holding(b) == booking[b].status \in {"BOOKED", "CHECKED_IN"}

(* list_room_occupied_seats: by the room the booking was made for.         *)
(* Mutant: those who are there already are forgotten.                      *)
OccupiedByBooked(r, w) ==
    {booking[b].seat : b \in {x \in Made : /\ booking[x].room = r
                                           /\ booking[x].status = "BOOKED"
                                           /\ Meets(booking[x].window, w)}}

Occupied(r, w) ==
    {booking[b].seat : b \in {x \in Made : /\ booking[x].room = r
                                           /\ Holding(x)
                                           /\ Meets(booking[x].window, w)}}

(* get_conflicting_reservation, get_conflicting_user_reservation: by seat, *)
(* whatever the room, and by user.                                         *)
Conflicts(u, s, w) ==
    \E b \in Made : /\ Holding(b) /\ Meets(booking[b].window, w)
                    /\ booking[b].seat = s \/ booking[b].user = u

(* The join of a seat and its room (get_reservable_seat_snapshot).         *)
(* Mutant: a seat out of use is taken.                                     *)
ReservableIfRoomIs(s, r, u) == seat[s] # None /\ seat[s].room = r /\ Visible(r, u)

Reservable(s, r, u) == s \in SeatsShown(r) /\ Visible(r, u)

-----------------------------------------------------------------------------
Step(v, row) == visit' = [visit EXCEPT ![v] = row] /\ UNCHANGED <<now, catalogVars>>

(* The answer; what a property asks for is kept of what was read.          *)
Close(v, how) == Step(v, [Quiet EXCEPT !.pc = how, !.kind = visit[v].kind])

Starts(v) == visit[v].pc = "idle"
At(v, kind, pc) == visit[v].kind = kind /\ visit[v].pc = pc

(* Booking: everything is checked against the snapshot, the conflicts      *)
(* again under the locks.                                                  *)
BookSnapshot(v) ==
    /\ Starts(v)
    /\ \E u \in Students, s \in Seats, w \in Windows :
          LET r == seat[s].room IN
          /\ SignedIn(u) /\ seat[s] # None
          /\ Reservable(s, r, u) /\ Within(w, room[r].hours) /\ now < w[1]
          /\ Step(v, [Quiet EXCEPT !.pc = "commit", !.kind = "book", !.user = u, !.seat = s,
                                   !.room = r, !.window = w])
    /\ UNCHANGED booking

BookCommit(v) ==
    LET q == visit[v] IN
    /\ At(v, "book", "commit")
    /\ IF Conflicts(q.user, q.seat, q.window) \/ FreshId(booking) = None
       THEN Close(v, "refused") /\ UNCHANGED booking
       ELSE /\ booking' = [booking EXCEPT ![FreshId(booking)] =
                  [user |-> q.user, seat |-> q.seat, room |-> q.room, window |-> q.window,
                   status |-> "BOOKED", missed |-> FALSE]]
            /\ Step(v, [Quiet EXCEPT !.pc = "done", !.kind = "book", !.seat = q.seat])

(* Cancellation: checked when loaded, written by primary key.              *)
CancelLoad(v) ==
    /\ Starts(v)
    /\ \E b \in Made :
          /\ booking[b].status = "BOOKED" /\ now < booking[b].window[1]
          /\ Step(v, [Quiet EXCEPT !.pc = "commit", !.kind = "cancel", !.booking = b])
    /\ UNCHANGED booking

(* An administrator may still cancel when the time has begun.              *)
AdminCancelLoad(v) ==
    /\ Starts(v)
    /\ \E b \in Made :
          /\ booking[b].status = "BOOKED"
          /\ Step(v, [Quiet EXCEPT !.pc = "commit", !.kind = "cancel", !.booking = b])
    /\ UNCHANGED booking

(* Mutant: a status nobody else knows.                                     *)
CancelMisspelt(v) ==
    /\ At(v, "cancel", "commit")
    /\ booking' = [booking EXCEPT ![visit[v].booking].status = "CANCELED"]
    /\ Close(v, "done")

CancelWrite(v) ==
    /\ At(v, "cancel", "commit")
    /\ booking' = [booking EXCEPT ![visit[v].booking].status = "CANCELLED"]
    /\ Close(v, "done")

-----------------------------------------------------------------------------
(* Check-in codes.                                                         *)
Slice(t) == t \div SliceLength

(* The request takes the time it is judged by once, then reads the row.    *)
(* It brings a code, or the QR token made of it, that some room showed at  *)
(* some time up to now, in use or not.                                     *)
CheckinArrive(v) ==
    /\ Starts(v)
    /\ \E b \in Made, r \in Rooms, t \in 0..now :
          LET from == booking[b].window[1] IN
          /\ booking[b].status = "BOOKED" /\ room[r] # None
          /\ from <= now /\ now <= from + Grace
          /\ Step(v, [Quiet EXCEPT !.pc = "validate", !.kind = "checkin", !.at = now,
                                   !.booking = b, !.room = r, !.code = t])
    /\ UNCHANGED booking

(* Is the code the one of this room and slice?  Mutant: the one before is  *)
(* still good.                                                             *)
CodeIsRecent(v) ==
    /\ visit[v].room = booking[visit[v].booking].room
    /\ Slice(visit[v].code) \in {Slice(visit[v].at) - 1, Slice(visit[v].at)}

CodeIsRight(v) ==
    /\ visit[v].room = booking[visit[v].booking].room
    /\ Slice(visit[v].code) = Slice(visit[v].at)

CheckinValidate(v) ==
    /\ At(v, "checkin", "validate")
    /\ IF room[booking[visit[v].booking].room].active /\ CodeIsRight(v)
       THEN Step(v, [visit[v] EXCEPT !.pc = "commit"]) ELSE Close(v, "refused")
    /\ UNCHANGED booking

CheckinCommit(v) ==
    LET b == visit[v].booking IN
    /\ At(v, "checkin", "commit")
    /\ IF booking[b].status = "BOOKED"
       THEN booking' = [booking EXCEPT ![b].status = "CHECKED_IN"] /\ Close(v, "done")
       ELSE Close(v, "refused") /\ UNCHANGED booking

(* The sweep.                                                              *)
Release ==
    LET due == {b \in Made : booking[b].status = "BOOKED" /\ booking[b].window[1] + Grace < now} IN
    /\ due # {}
    /\ booking' = [b \in Bookings |->
                      IF b \in due THEN [booking[b] EXCEPT !.status = "EXPIRED", !.missed = TRUE]
                      ELSE booking[b]]
    /\ UNCHANGED <<now, visit, catalogVars>>

Tick == now < MaxTime /\ now' = now + 1 /\ UNCHANGED <<booking, visit, catalogVars>>

-----------------------------------------------------------------------------
(* Availability of a room: the room, then its seats with the room again,   *)
(* then who holds them.                                                    *)
AvailabilityRoom(v) ==
    /\ Starts(v)
    /\ \E u \in Students, r \in Rooms, w \in Windows :
          /\ SignedIn(u) /\ Visible(r, u) /\ Within(w, room[r].hours)
          /\ Step(v, [Quiet EXCEPT !.pc = "seats", !.kind = "availability", !.user = u,
                                   !.room = r, !.window = w])
    /\ UNCHANGED booking

AvailabilitySeats(v) ==
    LET q == visit[v] IN
    /\ At(v, "availability", "seats")
    /\ IF Visible(q.room, q.user)
       THEN Step(v, [q EXCEPT !.pc = "occupied", !.listed = SeatsShown(q.room)])
       ELSE Close(v, "refused")
    /\ UNCHANGED booking

AvailabilityOccupied(v) ==
    LET q == visit[v] IN
    /\ At(v, "availability", "occupied")
    /\ Step(v, [Quiet EXCEPT !.pc = "done", !.kind = "availability",
                             !.listed = q.listed \ Occupied(q.room, q.window)])
    /\ UNCHANGED booking

-----------------------------------------------------------------------------
(* The assistant.  Each of its queries lists the visible rooms page by     *)
(* page, by id; the one for today then lists the student's reservations,   *)
(* by start, latest first.                                                 *)
Eligible(v) ==
    CASE visit[v].kind = "reservations" -> {b \in Made : booking[b].user = visit[v].user}
      [] visit[v].kind = "codes" -> RoomsInUse
      [] OTHER -> {r \in Rooms : Visible(r, visit[v].user)}

Before(v, x, y) ==
    IF visit[v].kind # "reservations" THEN x < y
    ELSE LET from(b) == booking[b].window[1] IN from(x) > from(y) \/ (from(x) = from(y) /\ x > y)

OnPage(v) ==
    {x \in Eligible(v) :
        Cardinality({y \in Eligible(v) : Before(v, y, x)}) \div PageSize = visit[v].page - 1}

(* Has the last page been read?  Mutant: a page too early.                 *)
CoveredEarly(page, total) == (page + 1) * PageSize >= total

Covered(page, total) == page * PageSize >= total

QueryStarts(v) ==
    /\ Starts(v)
    /\ \E u \in Students, kind \in Queries :
          /\ SignedIn(u)
          /\ Step(v, [Quiet EXCEPT !.pc = "page", !.kind = kind, !.user = u])
    /\ UNCHANGED booking

ListPage(v) ==
    LET q == visit[v]
        open(r) == IF q.kind = "available" /\ r \in OnPage(v) THEN room[r].hours
                   ELSE q.hours[r]
    IN  /\ q.pc = "page"
        /\ Step(v, [q EXCEPT !.pc = "total", !.listed = @ \cup OnPage(v),
                             !.hours = [r \in Rooms |-> open(r)]])
        /\ UNCHANGED booking

CountTotal(v) ==
    LET q == visit[v]
        last == Covered(q.page, Cardinality(Eligible(v)))
    IN  /\ q.pc = "total"
        /\ Step(v, CASE ~last -> [q EXCEPT !.pc = "page", !.page = @ + 1]
                      [] last /\ q.kind = "today" ->
                            [q EXCEPT !.pc = "page", !.page = 1, !.kind = "reservations",
                                      !.listed = {}]
                      [] last /\ q.kind = "reservations" ->
                            [Quiet EXCEPT !.pc = "done", !.kind = "reservations",
                                          !.listed = q.listed]
                      [] OTHER -> [q EXCEPT !.pc = "ask"])
        /\ UNCHANGED booking

(* Then it takes the rooms listed one after the other.                     *)
NextRoom(v) ==
    LET left == visit[v].listed \ visit[v].among IN
    IF left = {} THEN None ELSE CHOOSE r \in left : \A o \in left : r <= o

AllAsked(v) ==
    /\ visit[v].pc = "ask" /\ NextRoom(v) = None
    /\ Step(v, [Quiet EXCEPT !.pc = "done", !.kind = visit[v].kind, !.listed = visit[v].listed])
    /\ UNCHANGED booking

(* Which seats are free tonight?  Who holds them is read before they are:  *)
(* the other way round than for the availability of a room.                *)
AskOccupied(v) ==
    LET r == NextRoom(v)
        tonight == Tonight(visit[v].hours[r])
    IN  /\ At(v, "available", "ask") /\ r # None
        /\ Step(v, IF tonight[1] >= tonight[2] THEN [visit[v] EXCEPT !.among = @ \cup {r}]
                   ELSE [visit[v] EXCEPT !.pc = "asked", !.room = r, !.window = tonight,
                                         !.held = Occupied(r, tonight)])
        /\ UNCHANGED booking

(* A room that is no longer visible fails the whole query.                 *)
SeatsOf(v, r, offered) ==
    /\ IF Visible(r, visit[v].user)
       THEN Step(v, [visit[v] EXCEPT !.pc = "ask", !.among = @ \cup {r}, !.held = {},
                                     !.room = None, !.window = None,
                                     !.offered = @ \cup offered])
       ELSE Close(v, "refused")
    /\ UNCHANGED booking

AskFreeSeats(v) ==
    LET r == visit[v].room IN
    At(v, "available", "asked") /\ SeatsOf(v, r, SeatsShown(r) \ visit[v].held)

(* The seats by a window or a socket: only whether it fails is kept.       *)
AskSeatAttributes(v) ==
    At(v, "attributes", "ask") /\ NextRoom(v) # None /\ SeatsOf(v, NextRoom(v), {})

-----------------------------------------------------------------------------
(* The codes of all rooms: they are listed, then each is looked at again.  *)
(* This is daily_code_task.py, which nothing in src/ schedules.            *)
CodesList(v) ==
    /\ Starts(v)
    /\ Step(v, [Quiet EXCEPT !.pc = "ask", !.kind = "codes", !.listed = RoomsInUse])
    /\ UNCHANGED booking

CodeOfRoom(v) ==
    LET r == NextRoom(v) IN
    /\ At(v, "codes", "ask") /\ r # None
    /\ IF r \in RoomsInUse THEN Step(v, [visit[v] EXCEPT !.among = @ \cup {r}])
       ELSE Close(v, "refused")
    /\ UNCHANGED booking

-----------------------------------------------------------------------------
(* The violation rate, of reservations in rooms and on seats in use: the   *)
(* violations are counted before what they are divided by.                 *)
InScope(v) == {b \in Made : booking[b].room \in visit[v].among /\ booking[b].seat \in visit[v].listed}

CountMissed(v) == Cardinality({b \in InScope(v) : booking[b].missed})
CountPastDue(v) == Cardinality({b \in InScope(v) : booking[b].status \in {"CHECKED_IN", "EXPIRED"}})

StatisticsRooms(v) ==
    /\ Starts(v)
    /\ Step(v, [Quiet EXCEPT !.pc = "seats", !.kind = "statistics", !.among = RoomsInUse])
    /\ UNCHANGED booking

StatisticsSeats(v) ==
    /\ At(v, "statistics", "seats")
    /\ Step(v, [visit[v] EXCEPT !.pc = "violations",
                                !.listed = UNION {SeatsShown(r) : r \in RoomsInUse}])
    /\ UNCHANGED booking

(* Mutant: in the other order.                                             *)
StatisticsCountsSwapped(v) ==
    /\ \/ /\ At(v, "statistics", "violations")
          /\ Step(v, [visit[v] EXCEPT !.pc = "denominator", !.denominator = CountPastDue(v)])
       \/ /\ At(v, "statistics", "denominator")
          /\ Step(v, [visit[v] EXCEPT !.pc = "done", !.violations = CountMissed(v)])
    /\ UNCHANGED booking

StatisticsCounts(v) ==
    /\ \/ /\ At(v, "statistics", "violations")
          /\ Step(v, [visit[v] EXCEPT !.pc = "denominator", !.violations = CountMissed(v)])
       \/ /\ At(v, "statistics", "denominator")
          /\ Step(v, [visit[v] EXCEPT !.pc = "done", !.denominator = CountPastDue(v)])
    /\ UNCHANGED booking

-----------------------------------------------------------------------------
(* Whose roles are to be changed?  The accounts that go by what was typed. *)
WithId(n) == {u \in Students : SignedIn(u) /\ Ids[u] = n}
WithNumber(n) == {u \in Students : SignedIn(u) /\ Numbers[u] = n}

Matches(typed) ==
    (IF typed.prefix = "student:" THEN {} ELSE WithId(typed.value))
    \cup (IF typed.prefix = "id:" THEN {} ELSE WithNumber(typed.value))

Found(v, users) ==
    \E u \in users : Step(v, [visit[v] EXCEPT !.pc = "done", !.user = u])

LocateById(v) ==
    /\ Starts(v)
    /\ \E typed \in Typed :
          LET start == [Quiet EXCEPT !.kind = "locate", !.typed = typed]
              users == IF typed.prefix = "student:" THEN WithNumber(typed.value)
                       ELSE WithId(typed.value)
              first == IF users = {} THEN None ELSE CHOOSE u \in users : TRUE
          IN  Step(v, CASE typed.prefix = "" -> [start EXCEPT !.pc = "byNumber", !.user = first]
                        [] typed.prefix # "" /\ users # {} ->
                              [start EXCEPT !.pc = "done", !.user = first]
                        [] OTHER -> [Quiet EXCEPT !.kind = "locate", !.pc = "refused"])
    /\ UNCHANGED booking

(* Mutant: an id goes before a number.                                     *)
LocateIdFirst(v) ==
    LET q == visit[v]
        ids == {q.user} \ {None}
        numbers == WithNumber(q.typed.value)
    IN  /\ q.pc = "byNumber"
        /\ IF ids # {} THEN Found(v, ids)
           ELSE IF numbers # {} THEN Found(v, numbers)
           ELSE Step(v, [q EXCEPT !.pc = "again"])
        /\ UNCHANGED booking

LocateByNumber(v) ==
    LET q == visit[v]
        both == ({q.user} \ {None}) \cup WithNumber(q.typed.value)
    IN  /\ q.pc = "byNumber"
        /\ IF both = {} THEN Step(v, [q EXCEPT !.pc = "again"])
           ELSE IF Cardinality(both) > 1 THEN Close(v, "refused") ELSE Found(v, both)
        /\ UNCHANGED booking

(* A number nobody has is looked up as a student number once more.         *)
LocateAgain(v) ==
    LET users == WithNumber(visit[v].typed.value) IN
    /\ visit[v].pc = "again"
    /\ IF users = {} THEN Close(v, "refused") ELSE Found(v, users)
    /\ UNCHANGED booking

-----------------------------------------------------------------------------
VisitStep(v) ==
    \/ BookSnapshot(v) \/ BookCommit(v)
    \/ CancelLoad(v) \/ AdminCancelLoad(v) \/ CancelWrite(v)
    \/ CheckinArrive(v) \/ CheckinValidate(v) \/ CheckinCommit(v)
    \/ AvailabilityRoom(v) \/ AvailabilitySeats(v) \/ AvailabilityOccupied(v)
    \/ QueryStarts(v) \/ ListPage(v) \/ CountTotal(v) \/ AllAsked(v)
    \/ AskOccupied(v) \/ AskFreeSeats(v) \/ AskSeatAttributes(v)
    \/ CodesList(v) \/ CodeOfRoom(v)
    \/ StatisticsRooms(v) \/ StatisticsSeats(v) \/ StatisticsCounts(v)
    \/ LocateById(v) \/ LocateByNumber(v) \/ LocateAgain(v)

VisitsNext ==
    \/ \E v \in Visits : VisitStep(v)
    \/ Release \/ Tick
=============================================================================
