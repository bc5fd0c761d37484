-------------------------- MODULE SeatCatalog_proofs --------------------------
(***************************************************************************)
(* What SeatCatalog promises holds for any number of departments, rooms,   *)
(* seats, administrators and visits.                                       *)
(*                                                                         *)
(* The invariant says of each writer what it has loaded and who may have   *)
(* taken the place it checked, of each visit what it has read and what of  *)
(* that is still so, and of each reservation where its seat is.  A step of *)
(* the catalogue or of one visit keeps it for the others because rows stay *)
(* (CatalogGrows, BookingsGrow) and because of what is remembered of them  *)
(* (Remembers); what it means for the visit itself is one lemma for each   *)
(* action.                                                                 *)
(***************************************************************************)
EXTENDS SeatCatalog, FiniteSetTheorems, TLAPS

(* A seat has a place of its own (the unique key).                         *)
PlacesDiffer == \A s \in Seats : seat[s] # None => SeatKeyFree(s, seat[s])

(* What a request of an administrator has loaded is still there.           *)
LoadedInv(w) ==
    LET x == change[w] IN
    /\ x.pc \in {"write", "done", "failed", "unconfirmed"} => x.op \in Changes
    /\ x.pc = "write" =>
          /\ x.op.kind \in {"updateRoom", "deactivateRoom"} =>
                x.seen \in RoomRow /\ room[x.op.room] # None
          /\ x.op.kind \in {"updateSeat", "deactivateSeat"} =>
                x.seen \in SeatRow /\ seat[x.op.seat] # None

Places == {"createSeat", "updateSeat"}

(* The row a request would put, and whether the key lets it.               *)
Placed(w) ==
    IF change[w].op.kind = "createSeat" THEN change[w].op.row
    ELSE Merge(seat[change[w].op.seat], change[w].seen, change[w].op.row)

PlaceIsFree(w) ==
    SeatKeyFree(IF change[w].op.kind = "createSeat" THEN None ELSE change[w].op.seat, Placed(w))

(* Somebody else has put a seat, not through the portal when w has not.    *)
RivalDone(w) ==
    \E o \in Writers \ {w} :
        /\ change[o].pc \in {"done", "unconfirmed"} /\ change[o].op.kind \in Places
        /\ "api" \in {change[w].op.via, change[o].op.via}

RaceInv(w) ==
    /\ change[w].pc = "write" =>
          /\ \A o \in Writers \ {w} :
                change[o].pc = "write" => "api" \in {change[w].op.via, change[o].op.via}
          /\ change[w].op.kind \in Places => PlaceIsFree(w) \/ RivalDone(w)
    /\ change[w].pc = "failed" => change[w].op.kind \in Places /\ RivalDone(w)

CatalogInv ==
    /\ CatalogTypeOK /\ PlacesDiffer
    /\ \A w \in Writers : LoadedInv(w) /\ RaceInv(w)

-----------------------------------------------------------------------------
(* A reservation is in the room of its seat, unless the seat was moved;    *)
(* who has missed it has not been there.                                   *)
BookingInv(b) ==
    LET row == booking[b] IN
    b \in Made =>
        /\ seat[row.seat] # None
        /\ row.seat \notin moved => row.room = seat[row.seat].room
        /\ row.missed => row.status \in {"EXPIRED", "CANCELLED"}

(* What is watched has stayed.                                             *)
WatchInv(v) == Watching(v) => stable[v].rows \subseteq Watched(v)

BookInv(v) ==
    LET q == visit[v] IN
    /\ At(v, "book", "commit") =>
          /\ q.user \in Students /\ q.seat \in Seats /\ q.room \in Rooms /\ q.window \in Windows
          /\ seat[q.seat] # None
          /\ q.seat \notin moved => q.room = seat[q.seat].room
    /\ At(v, "book", "commit") \/ At(v, "book", "done") =>
          stable[v].withdrawn \/ q.seat \in stable[v].rows
    /\ At(v, "cancel", "commit") => q.booking \in Made

CheckinInv(v) ==
    LET q == visit[v]
        b == booking[q.booking]
    IN  q.kind = "checkin" =>
          /\ q.pc \in {"validate", "commit"} =>
                /\ q.booking \in Made /\ q.code <= q.at
                /\ b.window[1] <= q.at /\ q.at <= b.window[1] + Grace
          /\ q.pc = "commit" => q.room = b.room /\ Slice(q.code) = Slice(q.at)

AvailabilityInv(v) ==
    LET q == visit[v] IN
    /\ At(v, "availability", "seats") \/ q.pc = "occupied" =>
          q.user \in Students /\ q.room \in Rooms /\ q.window \in Windows
    /\ q.pc = "occupied" =>
          q.kind = "availability" /\ q.listed \subseteq Seats /\ stable[v].rows \subseteq q.listed

Listing == {"page", "total", "ask", "asked"}

(* How many rows are listed before x.                                      *)
Rank(v, x) == Cardinality({y \in Eligible(v) : Before(v, y, x)})

ListingInv(v) ==
    LET q == visit[v]
        missing == stable[v].rows \ q.listed
    IN  /\ q.pc \in Listing =>
              /\ q.kind \in Queries \cup {"reservations", "codes"}
              /\ q.kind # "codes" => q.user \in Students
              /\ q.listed \subseteq (IF q.kind = "reservations" THEN Bookings ELSE Rooms)
              /\ stable[v].withdrawn \/ q.listed \subseteq Eligible(v)
              /\ q.kind = "available" => \A r \in q.listed : q.hours[r] \in Hours
        /\ q.pc \in {"page", "total"} => q.kind # "codes"
        /\ q.pc \in {"ask", "asked"} => q.kind \in {"available", "attributes", "codes"}
        /\ q.pc = "page" => stable[v].withdrawn
               \/ \A x \in missing : (q.page - 1) * PageSize <= Rank(v, x)
        /\ q.pc = "total" => stable[v].withdrawn
               \/ \A x \in missing : q.page * PageSize <= Rank(v, x)
        /\ \/ q.pc \in {"ask", "asked"}
           \/ q.pc = "done" /\ q.kind \in {"available", "attributes", "reservations", "codes"}
           => stable[v].withdrawn \/ stable[v].rows \subseteq q.listed
        /\ q.pc = "refused" /\ q.kind \in {"available", "attributes", "codes"}
           => stable[v].withdrawn

(* What was held when the assistant looked and still is, it knows.         *)
HeldInv(v) ==
    LET q == visit[v] IN
    q.pc = "asked" =>
        /\ q.kind = "available" /\ q.room \in q.listed /\ q.room \in Rooms
        /\ stable[v].made \subseteq Made
        /\ \A b \in stable[v].made :
              Holding(b) /\ booking[b].room = q.room /\ Meets(booking[b].window, q.window)
                  => booking[b].seat \in q.held

StatisticsInv(v) ==
    LET q == visit[v]
        missed == {b \in InScope(v) : booking[b].missed}
    IN  /\ q.pc \in {"violations", "denominator"} => q.kind = "statistics"
        /\ At(v, "statistics", "denominator") => q.violations <= Cardinality(missed)
        /\ At(v, "statistics", "done") =>
              q.violations <= q.denominator
                  + Cardinality({b \in missed : booking[b].status = "CANCELLED"})

LocateInv(v) ==
    LET q == visit[v]
        rows == stable[v].rows
    IN  /\ q.pc \in {"byNumber", "again"} =>
              q.kind = "locate" /\ q.typed \in Typed /\ q.typed.prefix = ""
        /\ q.pc = "byNumber" =>
              /\ q.user = None \/ q.user \in WithId(q.typed.value)
              /\ WithId(q.typed.value) \cap rows \subseteq {q.user}
        /\ q.pc = "again" => rows = {}
        /\ At(v, "locate", "done") =>
              /\ q.user \in Matches(q.typed)
              /\ q.typed.prefix = "" => rows \subseteq {q.user}

VisitInv(v) ==
    /\ WatchInv(v) /\ BookInv(v) /\ CheckinInv(v) /\ AvailabilityInv(v)
    /\ ListingInv(v) /\ HeldInv(v) /\ StatisticsInv(v) /\ LocateInv(v)

IInv ==
    /\ TypeOK /\ CatalogInv
    /\ \A b \in Bookings : BookingInv(b)
    /\ \A v \in Visits : VisitInv(v)

-----------------------------------------------------------------------------
(* Arithmetic of pages and slices.                                         *)
LEMMA Division ==
    ASSUME NEW a \in Nat, NEW p \in Nat \ {0}
    PROVE  /\ a \div p \in Nat
           /\ (a \div p) * p <= a
           /\ a < (a \div p) * p + p
OBVIOUS

LEMMA Multiples ==
    ASSUME NEW m \in Nat, NEW n \in Nat, NEW p \in Nat \ {0}
    PROVE  /\ m * p \in Nat
           /\ (m + 1) * p = m * p + p
           /\ m <= m * p
           /\ m < n => (m + 1) * p <= n * p
OBVIOUS

(* Every finite set of ids has a least one.                                *)
LEMMA LeastId ==
    ASSUME NEW n \in Nat, NEW S \in SUBSET (1..n), S # {}
    PROVE  LET least == CHOOSE i \in S : \A o \in S : i <= o
           IN  least \in S /\ \A o \in S : least <= o
<1> DEFINE Below(i) == {o \in S : o < i}
           Belows == {Below(i) : i \in S}
<1>0. S \in SUBSET Int
  OBVIOUS
<1>1. IsWellFoundedOn(StrictSubsetOrdering(S), SUBSET S)
  <2>1. IsFiniteSet(1..n)
    BY FS_Interval
  <2>2. IsFiniteSet(S)
    BY <2>1, FS_Subset
  <2>3. QED
    BY <2>2, FS_StrictSubsetOrderingWellFounded, FS_FiniteSubsetsOfFinite
<1>2. PICK X \in Belows : \A Y \in Belows : ~(<<Y, X>> \in StrictSubsetOrdering(S))
  <2>1. Belows \in SUBSET (SUBSET S) /\ Belows # {}
    OBVIOUS
  <2> HIDE DEF Belows
  <2>2. QED
    BY <1>1, <2>1, WFMin
<1>3. PICK x \in S : X = Below(x)
  OBVIOUS
<1>4. ASSUME NEW y \in S, y < x PROVE FALSE
  <2>1. Below(y) \subseteq Below(x) /\ y \in Below(x) /\ y \notin Below(y)
    <3>1. x \in Int /\ y \in Int /\ \A o \in S : o \in Int
      BY <1>0
    <3>2. \A o \in S : o < y => o < x
      BY <1>4, <3>1
    <3>3. ~(y < y)
      BY <3>1
    <3>4. QED
      BY <1>4, <3>2, <3>3
  <2>2. Below(y) \in Belows /\ Below(y) \in SUBSET S /\ X \in SUBSET S
    BY <1>3
  <2> HIDE DEF Below, Belows
  <2>3. <<Below(y), X>> \in StrictSubsetOrdering(S)
    BY <1>3, <2>1, <2>2 DEF StrictSubsetOrdering
  <2>4. QED
    BY <1>2, <2>2, <2>3
<1>5. \A y \in S : x <= y
  BY <1>0, <1>4
<1>6. QED
  BY <1>5

(* The id a row is inserted under is free.                                 *)
LEMMA FreshIdIsFree ==
    ASSUME NEW n \in Nat, NEW rows, DOMAIN rows = 1..n, FreshId(rows) # None
    PROVE  FreshId(rows) \in 1..n /\ rows[FreshId(rows)] = None
<1> DEFINE free == {i \in DOMAIN rows : rows[i] = None}
<1>1. free # {} /\ free \in SUBSET (1..n)
  BY DEF FreshId
<1>2. FreshId(rows) \in free
  BY <1>1, LeastId DEF FreshId
<1>3. QED
  BY <1>2

-----------------------------------------------------------------------------
(* Rows of rooms and seats.                                                *)
LEMMA RoomFields ==
    ASSUME NEW row
    PROVE  row \in RoomRow <=>
             /\ row = [department |-> row.department, only |-> row.only,
                       active |-> row.active, hours |-> row.hours]
             /\ row.department \in Departments \cup {None} /\ row.only \in BOOLEAN
             /\ row.active \in BOOLEAN /\ row.hours \in Hours
BY DEF RoomRow

LEMMA MergeRoom ==
    ASSUME NEW current \in RoomRow, NEW loaded \in RoomRow, NEW wanted \in RoomRow
    PROVE  Merge(current, loaded, wanted) \in RoomRow
<1>1. DOMAIN current = {"department", "only", "active", "hours"}
  BY DEF RoomRow
<1>2. QED
  BY <1>1 DEF RoomRow, Merge

LEMMA MergeSeat ==
    ASSUME NEW current \in SeatRow, NEW loaded \in SeatRow, NEW wanted \in SeatRow
    PROVE  /\ Merge(current, loaded, wanted) \in SeatRow
           /\ wanted.room = loaded.room => Merge(current, loaded, wanted).room = current.room
           /\ wanted.code = loaded.code => Merge(current, loaded, wanted).code = current.code
<1>1. DOMAIN current = {"room", "code", "active"}
  BY DEF SeatRow
<1>2. QED
  BY <1>1 DEF SeatRow, Merge

LEMMA Closing ==
    /\ \A row \in RoomRow : [row EXCEPT !.active = FALSE] \in RoomRow /\ Stored(row) \in RoomRow
    /\ \A row \in SeatRow : /\ [row EXCEPT !.active = FALSE] \in SeatRow
                            /\ [row EXCEPT !.active = FALSE].room = row.room
                            /\ [row EXCEPT !.active = FALSE].code = row.code
BY DEF RoomRow, SeatRow, Stored

(* What administrators ask for names departments, rooms and seats.         *)
LEMMA ChangeFields ==
    ASSUME NEW op \in Changes
    PROVE  /\ op.via \in Doors
           /\ op.kind \in {"createDepartment", "activateDepartment", "deactivateDepartment"}
                => op.department \in Departments
           /\ op.kind = "createUser" =>
                op.user \in Students /\ op.department \in Departments \cup {None}
           /\ op.kind \in {"createRoom", "updateRoom"} => op.row \in RoomRow
           /\ op.kind \in {"updateRoom", "deactivateRoom"} => op.room \in Rooms
           /\ op.kind \in {"createSeat", "updateSeat"} => op.row \in SeatRow
           /\ op.kind \in {"updateSeat", "deactivateSeat"} => op.seat \in Seats
<1>1. op \in Change
  BY CatalogAssumption
<1>2. QED
  BY <1>1 DEF Change

-----------------------------------------------------------------------------
(* The requests of administrators begin, end and break.                    *)
Mover(w) == change' = [change EXCEPT ![w] = change'[w]] /\ change'[w] \in ChangeRow

Begins(w) ==
    LET y == change'[w] IN
    /\ Mover(w) /\ change[w].pc = "idle"
    /\ UNCHANGED <<department, account, room, seat>>
    /\ \/ y.pc = "refused"
       \/ /\ y.pc = "write" /\ y.op \in Changes /\ LoopIsFree(w, y.op)
          /\ LoadedInv(w)'
          /\ y.op.kind \in Places => PlaceIsFree(w)'

PutsSeat(w) ==
    \/ UNCHANGED seat
    \/ \E s \in Seats, row \in SeatRow :
          /\ seat' = [seat EXCEPT ![s] = row] /\ SeatKeyFree(s, row)
          /\ \/ change[w].op.kind \in Places /\ change'[w].pc = "done"
             \/ seat[s] # None /\ row.room = seat[s].room /\ row.code = seat[s].code

PutsRoom ==
    \/ UNCHANGED room
    \/ \E r \in Rooms, row \in RoomRow : room' = [room EXCEPT ![r] = row]

Ends(w) ==
    LET y == change'[w] IN
    /\ Mover(w) /\ change[w].pc = "write"
    /\ y.pc \in {"done", "refused", "failed"} /\ y.op = change[w].op
    /\ y.pc = "failed" => y.op.kind \in Places /\ ~PlaceIsFree(w)
    /\ department' \in [Departments -> {"absent", "active", "inactive"}]
    /\ account' \in [Students -> Departments \cup {None, "absent"}]
    /\ \A u \in Students : account[u] # "absent" => account'[u] = account[u]
    /\ PutsRoom /\ PutsSeat(w)

Falls(w) ==
    LET x == change[w]
        y == change'[w]
    IN  /\ Mover(w) /\ UNCHANGED <<department, account, room, seat>>
        /\ \/ x.pc \in {"idle", "write"} /\ y.pc = "broken"
           \/ x.pc = "done" /\ y.pc = "unconfirmed" /\ y.op = x.op

LEMMA Beginning ==
    ASSUME NEW w \in Writers, CatalogTypeOK, NEW op \in Changes, NEW ok \in BOOLEAN,
           NEW seen \in RoomRow \cup SeatRow \cup [status : {"active", "inactive"}] \cup {None},
           Begin(w, op, ok, seen)
    PROVE  /\ Mover(w) /\ change[w].pc = "idle"
           /\ UNCHANGED <<department, account, room, seat>>
           /\ \/ ~ok /\ change'[w].pc = "refused"
              \/ /\ ok /\ change'[w].pc = "write" /\ change'[w].op = op
                 /\ change'[w].seen = seen /\ LoopIsFree(w, op)
<1> DEFINE x == change[w]
<1>1. change \in [Writers -> ChangeRow] /\ x \in ChangeRow
  BY DEF CatalogTypeOK
<1>2. CASE ok
  <2> DEFINE y == [pc |-> "write", op |-> op, seen |-> seen]
  <2>1. y \in ChangeRow
    BY DEF ChangeRow
  <2>2. change' = [change EXCEPT ![w] = y]
    BY <1>2 DEF Begin
  <2>3. change'[w] = y
    BY <1>1, <2>2
  <2>4. y.pc = "write" /\ y.op = op /\ y.seen = seen
    OBVIOUS
  <2> HIDE DEF y
  <2>5. QED
    BY <1>1, <1>2, <2>1, <2>2, <2>3, <2>4 DEF Begin, Mover
<1>3. CASE ~ok
  <2> DEFINE y == [x EXCEPT !.pc = "refused"]
  <2>1. y \in ChangeRow /\ y.pc = "refused"
    BY <1>1 DEF ChangeRow
  <2>2. change' = [change EXCEPT ![w] = y]
    BY <1>1, <1>3 DEF Begin
  <2>3. change'[w] = y
    BY <1>1, <2>2
  <2> HIDE DEF y
  <2>4. QED
    BY <1>1, <1>3, <2>1, <2>2, <2>3 DEF Begin, Mover
<1>4. QED
  BY <1>2, <1>3

LEMMA Answering ==
    ASSUME NEW w \in Writers, CatalogTypeOK, NEW how \in {"done", "refused", "failed"},
           Answered(w, how)
    PROVE  Mover(w) /\ change'[w].pc = how /\ change'[w].op = change[w].op
<1> DEFINE x == change[w]
           y == [x EXCEPT !.pc = how, !.seen = None]
<1>1. change \in [Writers -> ChangeRow] /\ x \in ChangeRow
  BY DEF CatalogTypeOK
<1>2. y \in ChangeRow /\ y.pc = how /\ y.op = x.op
  BY <1>1 DEF ChangeRow
<1>3. change' = [change EXCEPT ![w] = y]
  BY <1>1 DEF Answered
<1>4. change'[w] = y
  BY <1>1, <1>3
<1> HIDE DEF y
<1>5. QED
  BY <1>1, <1>2, <1>3, <1>4 DEF Mover

-----------------------------------------------------------------------------
(* What each request of an administrator does, as one of the three.        *)
LEMMA ChecksBegin ==
    ASSUME NEW w \in Writers, CatalogTypeOK,
           \/ CreateDepartmentCheck(w) \/ SwitchDepartmentLoad(w) \/ CreateUserCheck(w)
           \/ CreateRoomCheck(w)
    PROVE  Begins(w)
<1>1. ASSUME NEW op \in Changes, NEW ok \in BOOLEAN,
             NEW seen \in [status : {"active", "inactive"}] \cup {None}, Begin(w, op, ok, seen),
             op.kind \in {"createDepartment", "activateDepartment", "deactivateDepartment",
                          "createUser", "createRoom"}
      PROVE  Begins(w)
  BY <1>1, Beginning DEF Begins, LoadedInv, Places
<1>2. CASE CreateDepartmentCheck(w)
  BY <1>1, <1>2 DEF CreateDepartmentCheck, Asked
<1>3. CASE SwitchDepartmentLoad(w)
  <2>1. PICK op \in Asked("activateDepartment") \cup Asked("deactivateDepartment") :
           IF department[op.department] = "absent" THEN Begin(w, op, FALSE, None)
           ELSE Begin(w, op, TRUE, [status |-> department[op.department]])
    BY <1>3 DEF SwitchDepartmentLoad
  <2>2. op \in Changes /\ op.kind \in {"activateDepartment", "deactivateDepartment"}
    BY <2>1 DEF Asked
  <2>3. department[op.department] \in {"absent", "active", "inactive"}
    BY <2>2, ChangeFields DEF CatalogTypeOK
  <2>4. QED
    BY <1>1, <2>1, <2>2, <2>3
<1>4. CASE CreateUserCheck(w)
  <2>1. PICK op \in Asked("createUser") :
           Begin(w, op, DepartmentUsable(op.department) /\ account[op.user] = "absent", None)
    BY <1>4 DEF CreateUserCheck
  <2>2. (DepartmentUsable(op.department) /\ account[op.user] = "absent") \in BOOLEAN
    BY DEF DepartmentUsable
  <2>3. QED
    BY <1>1, <2>1, <2>2 DEF Asked
<1>5. CASE CreateRoomCheck(w)
  BY <1>1, <1>5 DEF CreateRoomCheck, Asked, DepartmentUsable
<1>6. QED
  BY <1>2, <1>3, <1>4, <1>5

LEMMA LoadsBegin ==
    ASSUME NEW w \in Writers, CatalogTypeOK,
           \/ UpdateRoomLoad(w) \/ DeactivateRoomLoad(w)
           \/ CreateSeatCheck(w) \/ UpdateSeatLoad(w) \/ DeactivateSeatLoad(w)
    PROVE  Begins(w)
<1>1. CASE UpdateRoomLoad(w)
  <2>1. PICK op \in Asked("updateRoom") :
           Begin(w, op, room[op.room] # None /\ DepartmentUsable(op.row.department), room[op.room])
    BY <1>1 DEF UpdateRoomLoad
  <2>2. op \in Changes /\ op.kind = "updateRoom" /\ room[op.room] \in RoomRow \cup {None}
    BY ChangeFields DEF Asked, CatalogTypeOK
  <2>3. (room[op.room] # None /\ DepartmentUsable(op.row.department)) \in BOOLEAN
    BY DEF DepartmentUsable
  <2>4. QED
    BY <2>1, <2>2, <2>3, Beginning DEF Begins, LoadedInv, Places
<1>2. CASE DeactivateRoomLoad(w)
  <2>1. PICK op \in Asked("deactivateRoom") : Begin(w, op, room[op.room] # None, room[op.room])
    BY <1>2 DEF DeactivateRoomLoad
  <2>2. op \in Changes /\ op.kind = "deactivateRoom" /\ room[op.room] \in RoomRow \cup {None}
    BY ChangeFields DEF Asked, CatalogTypeOK
  <2>3. QED
    BY <2>1, <2>2, Beginning DEF Begins, LoadedInv, Places
<1>3. CASE CreateSeatCheck(w)
  <2>1. PICK op \in Asked("createSeat") :
           Begin(w, op, room[op.row.room] # None /\ SeatKeyFree(None, op.row), None)
    BY <1>3 DEF CreateSeatCheck
  <2>2. op \in Changes /\ op.kind = "createSeat"
    BY DEF Asked
  <2>3. (room[op.row.room] # None /\ SeatKeyFree(None, op.row)) \in BOOLEAN
    BY DEF SeatKeyFree
  <2>4. QED
    BY <2>1, <2>2, <2>3, Beginning DEF Begins, LoadedInv, Places, PlaceIsFree, Placed, SeatKeyFree
<1>4. CASE UpdateSeatLoad(w)
  <2>1. PICK op \in Asked("updateSeat") :
           Begin(w, op, /\ seat[op.seat] # None /\ room[op.row.room] # None
                        /\ SeatKeyFree(op.seat, op.row), seat[op.seat])
    BY <1>4 DEF UpdateSeatLoad
  <2>2. op \in Changes /\ op.kind = "updateSeat" /\ seat[op.seat] \in SeatRow \cup {None}
        /\ op.row \in SeatRow
    BY ChangeFields DEF Asked, CatalogTypeOK
  <2>3. (/\ seat[op.seat] # None /\ room[op.row.room] # None
         /\ SeatKeyFree(op.seat, op.row)) \in BOOLEAN
    BY DEF SeatKeyFree
  <2>4. CASE change'[w].pc = "refused"
    BY <2>1, <2>2, <2>3, <2>4, Beginning DEF Begins
  <2>5. CASE change'[w].pc # "refused"
    <3>1. /\ Mover(w) /\ change[w].pc = "idle" /\ UNCHANGED <<department, account, room, seat>>
          /\ seat[op.seat] # None /\ SeatKeyFree(op.seat, op.row)
          /\ change'[w].pc = "write" /\ change'[w].op = op /\ change'[w].seen = seat[op.seat]
          /\ LoopIsFree(w, op)
      BY <2>1, <2>2, <2>3, <2>5, Beginning
    <3>2. Merge(seat[op.seat], seat[op.seat], op.row).room = op.row.room
          /\ Merge(seat[op.seat], seat[op.seat], op.row).code = op.row.code
      BY <2>2, <3>1 DEF Merge, SeatRow
    <3>3. PlaceIsFree(w)'
      BY <2>2, <3>1, <3>2 DEF PlaceIsFree, Placed, SeatKeyFree
    <3>4. QED
      BY <2>2, <3>1, <3>3 DEF Begins, LoadedInv
  <2>6. QED
    BY <2>4, <2>5
<1>5. CASE DeactivateSeatLoad(w)
  <2>1. PICK op \in Asked("deactivateSeat") : Begin(w, op, seat[op.seat] # None, seat[op.seat])
    BY <1>5 DEF DeactivateSeatLoad
  <2>2. op \in Changes /\ op.kind = "deactivateSeat" /\ seat[op.seat] \in SeatRow \cup {None}
    BY ChangeFields DEF Asked, CatalogTypeOK
  <2>3. QED
    BY <2>1, <2>2, Beginning DEF Begins, LoadedInv, Places
<1>6. QED
  BY <1>1, <1>2, <1>3, <1>4, <1>5

LEMMA AccountWritesEnd ==
    ASSUME NEW w \in Writers, CatalogTypeOK, LoadedInv(w),
           CreateDepartment(w) \/ SwitchDepartment(w) \/ CreateUser(w)
    PROVE  Ends(w)
<1> DEFINE op == change[w].op
<1>1. change[w].pc = "write" /\ op \in Changes
  BY DEF CreateDepartment, SwitchDepartment, CreateUser, Writes, LoadedInv
<1>2. CASE CreateDepartment(w)
  <2>1. \E how \in {"done", "refused", "failed"} : how # "failed" /\ Answered(w, how)
    BY <1>2 DEF CreateDepartment, MapIntegrityError
  <2>2. Mover(w) /\ change'[w].pc \in {"done", "refused"} /\ change'[w].op = change[w].op
    BY <2>1, Answering
  <2>3. department' \in [Departments -> {"absent", "active", "inactive"}]
    BY <1>2 DEF CreateDepartment, CatalogTypeOK
  <2>4. QED
    BY <1>1, <1>2, <2>2, <2>3 DEF CreateDepartment, Ends, PutsRoom, PutsSeat, CatalogTypeOK
<1>3. CASE SwitchDepartment(w)
  <2>1. Mover(w) /\ change'[w].pc = "done" /\ change'[w].op = change[w].op
    BY <1>3, Answering DEF SwitchDepartment
  <2>2. department' \in [Departments -> {"absent", "active", "inactive"}]
    BY <1>3 DEF SwitchDepartment, CatalogTypeOK
  <2>3. QED
    BY <1>1, <1>3, <2>1, <2>2 DEF SwitchDepartment, Ends, PutsRoom, PutsSeat, CatalogTypeOK
<1>4. CASE CreateUser(w)
  <2>1. \E how \in {"done", "refused", "failed"} : how # "failed" /\ Answered(w, how)
    BY <1>4 DEF CreateUser, MapIntegrityError
  <2>2. Mover(w) /\ change'[w].pc \in {"done", "refused"} /\ change'[w].op = change[w].op
    BY <2>1, Answering
  <2>3. op.user \in Students /\ op.department \in Departments \cup {None}
    BY <1>1, <1>4, ChangeFields DEF CreateUser, Writes
  <2>4. /\ account' \in [Students -> Departments \cup {None, "absent"}]
        /\ \A u \in Students : account[u] # "absent" => account'[u] = account[u]
    BY <1>4, <2>3 DEF CreateUser, CatalogTypeOK
  <2>5. QED
    BY <1>1, <1>4, <2>2, <2>4 DEF CreateUser, Ends, PutsRoom, PutsSeat, CatalogTypeOK
<1>5. QED
  BY <1>2, <1>3, <1>4

LEMMA RoomWritesEnd ==
    ASSUME NEW w \in Writers, CatalogTypeOK, LoadedInv(w),
           CreateRoom(w) \/ UpdateRoom(w) \/ DeactivateRoom(w)
    PROVE  Ends(w)
<1> DEFINE op == change[w].op
<1>1. change[w].pc = "write" /\ op \in Changes
  BY DEF CreateRoom, UpdateRoom, DeactivateRoom, Writes, LoadedInv
<1>2. Mover(w) /\ change'[w].pc \in {"done", "refused"} /\ change'[w].op = change[w].op
  <2>1. \E how \in {"done", "refused", "failed"} : how # "failed" /\ Answered(w, how)
    BY DEF CreateRoom, UpdateRoom, DeactivateRoom
  <2>2. QED
    BY <2>1, Answering
<1>3. PutsRoom
  <2>1. CASE CreateRoom(w)
    <3>1. op.row \in RoomRow /\ Stored(op.row) \in RoomRow
      BY <1>1, <2>1, ChangeFields, Closing DEF CreateRoom, Writes
    <3>2. FreshId(room) # None => FreshId(room) \in Rooms
      BY FreshIdIsFree, CatalogAssumption DEF CatalogTypeOK, Rooms
    <3>3. QED
      BY <2>1, <3>1, <3>2 DEF CreateRoom, PutsRoom
  <2>2. CASE UpdateRoom(w)
    <3>1. /\ op.row \in RoomRow /\ Stored(op.row) \in RoomRow /\ op.room \in Rooms
          /\ room[op.room] \in RoomRow /\ change[w].seen \in RoomRow
      BY <1>1, <2>2, ChangeFields, Closing DEF UpdateRoom, Writes, LoadedInv, CatalogTypeOK
    <3>2. Merge(room[op.room], change[w].seen, Stored(op.row)) \in RoomRow
      BY <3>1, MergeRoom
    <3>3. QED
      BY <2>2, <3>1, <3>2 DEF UpdateRoom, PutsRoom
  <2>3. CASE DeactivateRoom(w)
    <3>1. /\ op.room \in Rooms /\ room[op.room] \in RoomRow /\ change[w].seen \in RoomRow
          /\ [change[w].seen EXCEPT !.active = FALSE] \in RoomRow
      BY <1>1, <2>3, ChangeFields, Closing DEF DeactivateRoom, Writes, LoadedInv, CatalogTypeOK
    <3>2. Merge(room[op.room], change[w].seen, [change[w].seen EXCEPT !.active = FALSE]) \in RoomRow
      BY <3>1, MergeRoom
    <3>3. QED
      BY <2>3, <3>1, <3>2 DEF DeactivateRoom, PutsRoom
  <2>4. QED
    BY <2>1, <2>2, <2>3
<1>4. QED
  BY <1>1, <1>2, <1>3 DEF CreateRoom, UpdateRoom, DeactivateRoom, Ends, PutsSeat, CatalogTypeOK

LEMMA SeatWritesEnd ==
    ASSUME NEW w \in Writers, CatalogTypeOK, PlacesDiffer, LoadedInv(w),
           CreateSeat(w) \/ UpdateSeat(w) \/ DeactivateSeat(w)
    PROVE  Ends(w)
<1> DEFINE op == change[w].op
<1>1. change[w].pc = "write" /\ op \in Changes
  BY DEF CreateSeat, UpdateSeat, DeactivateSeat, Writes, LoadedInv
<1>2. UNCHANGED <<department, account, room>>
  BY DEF CreateSeat, UpdateSeat, DeactivateSeat, PutSeat
<1>3. /\ Mover(w) /\ change'[w].pc \in {"done", "refused", "failed"}
      /\ change'[w].op = change[w].op
      /\ Answered(w, "done") => change'[w].pc = "done"
      /\ Answered(w, "failed") => change'[w].pc = "failed"
      /\ Answered(w, "refused") => change'[w].pc = "refused"
  <2>1. \E how \in {"done", "refused", "failed"} : Answered(w, how)
    BY DEF CreateSeat, UpdateSeat, DeactivateSeat, PutSeat
  <2>2. QED
    BY <2>1, Answering
<1>4. /\ change'[w].pc = "failed" => op.kind \in Places /\ ~PlaceIsFree(w)
      /\ PutsSeat(w)
  <2>1. CASE CreateSeat(w)
    <3> DEFINE s == FreshId(seat)
    <3>1. op.kind = "createSeat" /\ op.row \in SeatRow
      BY <1>1, <2>1, ChangeFields DEF CreateSeat, Writes
    <3>2. CASE s = None
      BY <1>3, <2>1, <3>2 DEF CreateSeat, PutsSeat
    <3>3. CASE s # None
      <4>1. s \in Seats /\ seat[s] = None /\ None \notin Seats
        BY <3>3, FreshIdIsFree, CatalogAssumption DEF CatalogTypeOK, Seats
      <4>2. SeatKeyFree(s, op.row) <=> PlaceIsFree(w)
        BY <3>1, <4>1 DEF PlaceIsFree, Placed, SeatKeyFree
      <4> HIDE DEF s
      <4>3. PutSeat(w, s, op.row)
        BY <2>1, <3>3 DEF CreateSeat, s
      <4>4. QED
        BY <1>3, <3>1, <4>1, <4>2, <4>3 DEF PutSeat, PutsSeat, Places
    <3>4. QED
      BY <3>2, <3>3
  <2>2. CASE UpdateSeat(w)
    <3>1. /\ op.kind = "updateSeat" /\ op.row \in SeatRow /\ op.seat \in Seats
          /\ seat[op.seat] \in SeatRow /\ change[w].seen \in SeatRow
      BY <1>1, <2>2, ChangeFields DEF UpdateSeat, Writes, LoadedInv, CatalogTypeOK
    <3>2. Merge(seat[op.seat], change[w].seen, op.row) \in SeatRow
      BY <3>1, MergeSeat
    <3>3. SeatKeyFree(op.seat, Merge(seat[op.seat], change[w].seen, op.row)) <=> PlaceIsFree(w)
      BY <3>1 DEF PlaceIsFree, Placed
    <3>4. PutSeat(w, op.seat, Merge(seat[op.seat], change[w].seen, op.row))
      BY <2>2 DEF UpdateSeat
    <3>5. QED
      BY <1>3, <3>1, <3>2, <3>3, <3>4 DEF PutSeat, PutsSeat, Places
  <2>3. CASE DeactivateSeat(w)
    <3> DEFINE seen == change[w].seen
               row == Merge(seat[op.seat], seen, [seen EXCEPT !.active = FALSE])
    <3>1. /\ op.kind = "deactivateSeat" /\ op.seat \in Seats /\ seat[op.seat] # None
          /\ seat[op.seat] \in SeatRow /\ seen \in SeatRow
          /\ [seen EXCEPT !.active = FALSE] \in SeatRow
          /\ [seen EXCEPT !.active = FALSE].room = seen.room
          /\ [seen EXCEPT !.active = FALSE].code = seen.code
      BY <1>1, <2>3, ChangeFields, Closing DEF DeactivateSeat, Writes, LoadedInv, CatalogTypeOK
    <3>2. row \in SeatRow /\ row.room = seat[op.seat].room /\ row.code = seat[op.seat].code
      BY <3>1, MergeSeat
    <3>3. PutSeat(w, op.seat, row)
      BY <2>3 DEF DeactivateSeat
    <3> HIDE DEF row, seen
    <3>4. SeatKeyFree(op.seat, row)
      BY <3>1, <3>2 DEF PlacesDiffer, SeatKeyFree
    <3>5. QED
      BY <1>3, <3>1, <3>2, <3>3, <3>4 DEF PutSeat, PutsSeat
  <2>4. QED
    BY <2>1, <2>2, <2>3
<1>5. QED
  BY <1>1, <1>2, <1>3, <1>4 DEF Ends, PutsRoom, CatalogTypeOK

LEMMA ErrorsFall ==
    ASSUME NEW w \in Writers, CatalogTypeOK,
           FormBreaks(w) \/ WriteBreaks(w) \/ RefreshBreaks(w)
    PROVE  Falls(w)
<1> DEFINE x == change[w]
           away == [pc |-> "broken", op |-> None, seen |-> None]
           late == [x EXCEPT !.pc = "unconfirmed"]
<1>1. change \in [Writers -> ChangeRow] /\ x \in ChangeRow
  BY DEF CatalogTypeOK
<1>2. CASE FormBreaks(w) \/ WriteBreaks(w)
  <2>1. away \in ChangeRow /\ away.pc = "broken"
    BY DEF ChangeRow
  <2>2. /\ change' = [change EXCEPT ![w] = away] /\ x.pc \in {"idle", "write"}
        /\ UNCHANGED <<department, account, room, seat>>
    BY <1>2 DEF FormBreaks, WriteBreaks, Breaks
  <2>3. change'[w] = away
    BY <1>1, <2>2
  <2> HIDE DEF away
  <2>4. QED
    BY <2>1, <2>2, <2>3 DEF Falls, Mover
<1>3. CASE RefreshBreaks(w)
  <2>1. late \in ChangeRow /\ late.pc = "unconfirmed" /\ late.op = x.op
    BY <1>1 DEF ChangeRow
  <2>2. /\ change' = [change EXCEPT ![w] = late] /\ x.pc = "done"
        /\ UNCHANGED <<department, account, room, seat>>
    BY <1>1, <1>3 DEF RefreshBreaks
  <2>3. change'[w] = late
    BY <1>1, <2>2
  <2> HIDE DEF late
  <2>4. QED
    BY <2>1, <2>2, <2>3 DEF Falls, Mover
<1>4. QED
  BY <1>2, <1>3

(* Every step of the catalogue begins, ends or breaks one request.         *)
LEMMA CatalogSteps ==
    ASSUME CatalogInv, CatalogNext
    PROVE  \E w \in Writers : Begins(w) \/ Ends(w) \/ Falls(w)
BY ChecksBegin, LoadsBegin, AccountWritesEnd, RoomWritesEnd, SeatWritesEnd, ErrorsFall
   DEF CatalogNext, CatalogInv

-----------------------------------------------------------------------------
(* Rows once inserted stay, accounts too.                                  *)
CatalogGrows ==
    /\ \A u \in Students : account[u] # "absent" => account'[u] = account[u]
    /\ \A r \in Rooms : room[r] # None => room'[r] # None
    /\ \A s \in Seats : seat[s] # None => seat'[s] # None

LEMMA Moving ==
    ASSUME NEW w \in Writers, CatalogTypeOK, Mover(w)
    PROVE  /\ change' \in [Writers -> ChangeRow]
           /\ \A o \in Writers \ {w} : change'[o] = change[o]
BY DEF CatalogTypeOK, Mover

LEMMA BeginsKeeps ==
    ASSUME CatalogInv, NEW w \in Writers, Begins(w)
    PROVE  CatalogInv' /\ CatalogGrows
<1>1. /\ CatalogTypeOK /\ PlacesDiffer /\ UNCHANGED <<department, account, room, seat>>
      /\ change' \in [Writers -> ChangeRow]
      /\ \A o \in Writers \ {w} : change'[o] = change[o]
  BY Moving DEF CatalogInv, Begins
<1>2. CatalogTypeOK' /\ PlacesDiffer' /\ CatalogGrows
  BY <1>1 DEF CatalogTypeOK, PlacesDiffer, SeatKeyFree, CatalogGrows
<1>3. ASSUME NEW o \in Writers PROVE LoadedInv(o)'
  <2>1. CASE o = w
    BY <1>1, <2>1 DEF Begins, LoadedInv
  <2>2. CASE o # w
    BY <1>1, <2>2 DEF LoadedInv, CatalogInv
  <2>3. QED
    BY <2>1, <2>2
<1>4. ASSUME NEW o \in Writers PROVE RaceInv(o)'
  <2>1. ASSUME NEW p \in Writers \ {w}, change'[w].pc = "write", change[p].pc = "write"
        PROVE  "api" \in {change'[w].op.via, change[p].op.via}
    <3>1. change'[w].op \in Changes /\ LoopIsFree(w, change'[w].op)
      BY <2>1 DEF Begins
    <3>2. change'[w].op.via \in {"api", "portal"}
      BY <3>1, ChangeFields DEF Doors
    <3>3. QED
      BY <2>1, <3>1, <3>2 DEF LoopIsFree
  <2>2. CASE o = w
    BY <1>1, <2>1, <2>2 DEF Begins, RaceInv
  <2>3. CASE o # w
    <3>1. RaceInv(o) /\ change'[o] = change[o] /\ change[w].pc = "idle"
      BY <1>1, <2>3 DEF CatalogInv, Begins
    <3>2. RivalDone(o) => RivalDone(o)'
      BY <1>1, <2>3, <3>1 DEF RivalDone
    <3>3. PlaceIsFree(o) => PlaceIsFree(o)'
      BY <1>1, <3>1 DEF PlaceIsFree, Placed, SeatKeyFree
    <3>4. change'[o].pc = "write" => \A p \in Writers \ {o} :
              change'[p].pc = "write" => "api" \in {change'[o].op.via, change'[p].op.via}
      BY <1>1, <2>1, <2>3, <3>1 DEF RaceInv
    <3>5. QED
      BY <3>1, <3>2, <3>3, <3>4 DEF RaceInv
  <2>4. QED
    BY <2>2, <2>3
<1>5. QED
  BY <1>2, <1>3, <1>4 DEF CatalogInv

(* What putting one seat does to the keys.                                 *)
LEMMA PuttingASeat ==
    ASSUME CatalogTypeOK, PlacesDiffer, NEW w \in Writers, PutsSeat(w)
    PROVE  /\ seat' \in [Seats -> SeatRow \cup {None}] /\ PlacesDiffer'
           /\ \A s \in Seats : seat[s] # None => seat'[s] # None
           /\ \/ change[w].op.kind \in Places /\ change'[w].pc = "done"
              \/ \A s \in Seats :
                    /\ seat[s] # None <=> seat'[s] # None
                    /\ seat[s] # None => seat'[s].room = seat[s].room /\ seat'[s].code = seat[s].code
<1>1. CASE UNCHANGED seat
  BY <1>1 DEF CatalogTypeOK, PlacesDiffer, SeatKeyFree
<1>2. CASE ~UNCHANGED seat
  <2>1. PICK s \in Seats, row \in SeatRow :
            /\ seat' = [seat EXCEPT ![s] = row] /\ SeatKeyFree(s, row)
            /\ \/ change[w].op.kind \in Places /\ change'[w].pc = "done"
               \/ seat[s] # None /\ row.room = seat[s].room /\ row.code = seat[s].code
    BY <1>2 DEF PutsSeat
  <2>2. /\ seat \in [Seats -> SeatRow \cup {None}] /\ row # None
        /\ seat'[s] = row /\ \A o \in Seats \ {s} : seat'[o] = seat[o]
    BY <2>1, CatalogAssumption DEF CatalogTypeOK
  <2>3. PlacesDiffer'
    <3>1. ASSUME NEW p \in Seats, NEW o \in Seats \ {p}, seat'[p] # None, seat'[o] # None
          PROVE  seat'[o].room # seat'[p].room \/ seat'[o].code # seat'[p].code
      <4>1. CASE p = s
        BY <2>1, <2>2, <3>1, <4>1 DEF SeatKeyFree
      <4>2. CASE o = s
        BY <2>1, <2>2, <3>1, <4>2 DEF SeatKeyFree
      <4>3. CASE p # s /\ o # s
        BY <2>2, <3>1, <4>3 DEF PlacesDiffer, SeatKeyFree
      <4>4. QED
        BY <4>1, <4>2, <4>3
    <3>2. QED
      BY <3>1 DEF PlacesDiffer, SeatKeyFree
  <2>4. QED
    BY <2>1, <2>2, <2>3
<1>3. QED
  BY <1>1, <1>2

(* A request that ends has put what it checked, or lost a race.            *)
LEMMA EndsKeeps ==
    ASSUME CatalogInv, NEW w \in Writers, Ends(w)
    PROVE  CatalogInv' /\ CatalogGrows
<1>1. /\ CatalogTypeOK /\ PlacesDiffer /\ PutsRoom /\ PutsSeat(w)
      /\ change' \in [Writers -> ChangeRow]
      /\ \A o \in Writers \ {w} : change'[o] = change[o]
      /\ change[w].pc = "write" /\ change'[w].op = change[w].op
      /\ change'[w].pc \in {"done", "refused", "failed"}
  BY Moving DEF CatalogInv, Ends
<1>2. /\ room' \in [Rooms -> RoomRow \cup {None}]
      /\ \A r \in Rooms : room[r] # None => room'[r] # None
  BY <1>1, CatalogAssumption DEF PutsRoom, CatalogTypeOK
<1>3. CatalogTypeOK' /\ PlacesDiffer' /\ CatalogGrows
  BY <1>1, <1>2, PuttingASeat DEF Ends, CatalogTypeOK, CatalogGrows
<1>4. ASSUME NEW o \in Writers PROVE LoadedInv(o)'
  <2>1. LoadedInv(o)
    BY DEF CatalogInv
  <2>2. CASE o = w
    BY <1>1, <2>1, <2>2 DEF LoadedInv
  <2>3. CASE o # w
    <3>1. change'[o] = change[o]
      BY <1>1, <2>3
    <3>2. change[o].pc = "write" =>
            /\ change[o].op.kind \in {"updateRoom", "deactivateRoom"} => change[o].op.room \in Rooms
            /\ change[o].op.kind \in {"updateSeat", "deactivateSeat"} => change[o].op.seat \in Seats
      BY <2>1, ChangeFields DEF LoadedInv
    <3>3. QED
      BY <1>3, <2>1, <3>1, <3>2 DEF LoadedInv, CatalogGrows
  <2>4. QED
    BY <2>2, <2>3
<1>5. ASSUME NEW o \in Writers PROVE RaceInv(o)'
  <2>1. RaceInv(o) /\ RaceInv(w) /\ LoadedInv(o)
    BY DEF CatalogInv
  <2>2. RivalDone(o) => RivalDone(o)'
    BY <1>1 DEF RivalDone
  <2>3. CASE o = w
    BY <1>1, <2>1, <2>2, <2>3 DEF RaceInv, Ends
  <2>4. CASE o # w
    <3>1. change'[o] = change[o]
      BY <1>1, <2>4
    <3>2. CASE change[o].pc = "write" /\ change[o].op.kind \in Places
      <4>1. "api" \in {change[o].op.via, change[w].op.via}
        BY <1>1, <2>1, <2>4, <3>2 DEF RaceInv
      <4>2. CASE change[w].op.kind \in Places /\ change'[w].pc = "done"
        <5>1. RivalDone(o)'
          BY <1>1, <2>4, <3>1, <4>1, <4>2 DEF RivalDone
        <5>2. QED
          BY <1>1, <2>1, <3>1, <5>1 DEF RaceInv
      <4>3. CASE ~(change[w].op.kind \in Places /\ change'[w].pc = "done")
        <5>1. \A s \in Seats :
                 /\ seat[s] # None <=> seat'[s] # None
                 /\ seat[s] # None => seat'[s].room = seat[s].room /\ seat'[s].code = seat[s].code
          BY <1>1, <4>3, PuttingASeat
        <5>2. /\ Placed(o)'.room = Placed(o).room /\ Placed(o)'.code = Placed(o).code
          <6>1. CASE change[o].op.kind = "createSeat"
            BY <3>1, <6>1 DEF Placed
          <6>2. CASE change[o].op.kind # "createSeat"
            <7>1. /\ change[o].op.seat \in Seats /\ seat[change[o].op.seat] \in SeatRow
                  /\ seat'[change[o].op.seat] \in SeatRow
              <8>1. change[o].op.kind = "updateSeat" /\ change[o].op \in Changes
                BY <2>1, <3>2, <6>2 DEF LoadedInv, Places
              <8>2. change[o].op.seat \in Seats /\ seat[change[o].op.seat] # None
                BY <2>1, <3>2, <8>1, ChangeFields DEF LoadedInv
              <8>3. QED
                BY <1>1, <1>3, <5>1, <8>2 DEF CatalogTypeOK
            <7>2. \A row \in SeatRow : DOMAIN row = {"room", "code", "active"}
              BY DEF SeatRow
            <7>3. QED
              BY <3>1, <6>2, <7>1, <7>2, <5>1 DEF Placed, Merge
          <6>3. QED
            BY <6>1, <6>2
        <5>3. PlaceIsFree(o) => PlaceIsFree(o)'
          BY <3>1, <5>1, <5>2 DEF PlaceIsFree, SeatKeyFree
        <5>4. QED
          BY <1>1, <2>1, <2>2, <3>1, <5>3 DEF RaceInv
      <4>4. QED
        BY <4>2, <4>3
    <3>3. CASE ~(change[o].pc = "write" /\ change[o].op.kind \in Places)
      BY <1>1, <2>1, <2>2, <3>1, <3>3 DEF RaceInv
    <3>4. QED
      BY <3>2, <3>3
  <2>5. QED
    BY <2>3, <2>4
<1>6. QED
  BY <1>3, <1>4, <1>5 DEF CatalogInv

(* A request that breaks leaves the rows and the races of the others as    *)
(* they are: one that has committed still has.                             *)
LEMMA FallsKeeps ==
    ASSUME CatalogInv, NEW w \in Writers, Falls(w)
    PROVE  CatalogInv' /\ CatalogGrows
<1>1. /\ CatalogTypeOK /\ PlacesDiffer /\ UNCHANGED <<department, account, room, seat>>
      /\ change' \in [Writers -> ChangeRow]
      /\ \A o \in Writers \ {w} : change'[o] = change[o]
      /\ change'[w].pc \in {"broken", "unconfirmed"}
  BY Moving DEF CatalogInv, Falls
<1>2. CatalogTypeOK' /\ PlacesDiffer' /\ CatalogGrows
  BY <1>1 DEF CatalogTypeOK, PlacesDiffer, SeatKeyFree, CatalogGrows
<1>3. ASSUME NEW o \in Writers PROVE LoadedInv(o)'
  <2>1. LoadedInv(o)
    BY DEF CatalogInv
  <2>2. CASE o = w
    BY <1>1, <2>1, <2>2 DEF Falls, LoadedInv
  <2>3. CASE o # w
    BY <1>1, <2>1, <2>3 DEF LoadedInv
  <2>4. QED
    BY <2>2, <2>3
<1>4. ASSUME NEW o \in Writers PROVE RaceInv(o)'
  <2>1. CASE o = w
    BY <1>1, <2>1 DEF RaceInv
  <2>2. CASE o # w
    <3>1. RaceInv(o) /\ change'[o] = change[o]
      BY <1>1, <2>2 DEF CatalogInv
    <3>2. RivalDone(o) => RivalDone(o)'
      BY <1>1, <3>1 DEF RivalDone, Falls
    <3>3. PlaceIsFree(o) => PlaceIsFree(o)'
      BY <1>1, <3>1 DEF PlaceIsFree, Placed, SeatKeyFree
    <3>4. change'[o].pc = "write" => \A p \in Writers \ {o} :
              change'[p].pc = "write" => "api" \in {change'[o].op.via, change'[p].op.via}
      BY <1>1, <3>1 DEF RaceInv
    <3>5. QED
      BY <3>1, <3>2, <3>3, <3>4 DEF RaceInv
  <2>3. QED
    BY <2>1, <2>2
<1>5. QED
  BY <1>2, <1>3, <1>4 DEF CatalogInv

LEMMA CatalogKeeps == CatalogInv /\ CatalogNext => CatalogInv' /\ CatalogGrows
BY CatalogSteps, BeginsKeeps, EndsKeeps, FallsKeeps

LEMMA CatalogRests ==
    ASSUME CatalogInv, UNCHANGED catalogVars
    PROVE  CatalogInv' /\ CatalogGrows
BY DEF catalogVars, CatalogInv, CatalogTypeOK, PlacesDiffer, SeatKeyFree, LoadedInv, RaceInv,
       PlaceIsFree, Placed, RivalDone, CatalogGrows

-----------------------------------------------------------------------------
(* Rows of visits and of what is remembered of them.                       *)
StableRow ==
    [rows : SUBSET (Rooms \cup Seats \cup Bookings \cup Students),
     withdrawn : BOOLEAN, made : SUBSET Bookings]

(* A visit before it begins.                                               *)
LEMMA QuietRow ==
    /\ Quiet \in VisitRow
    /\ Quiet.page = 1 /\ Quiet.listed = {} /\ Quiet.among = {} /\ Quiet.offered = {}
    /\ Quiet.violations = 0 /\ Quiet.denominator = 0 /\ Quiet.user = None
<1>1. MaxRooms \in Nat /\ MaxBookings \in Nat /\ MaxTime \in Nat
  BY CatalogAssumption, VisitAssumption
<1>2. 1 \in 1..(MaxRooms + MaxBookings + 1) /\ 0 \in 0..MaxTime /\ 0 \in 0..MaxBookings
  BY <1>1
<1>3. [r \in Rooms |-> None] \in [Rooms -> Hours \cup {None}]
  OBVIOUS
<1>4. QED
  BY <1>2, <1>3 DEF Quiet, VisitRow

(* One visit takes a step.                                                 *)
Moves(v) ==
    /\ visit' \in [Visits -> VisitRow]
    /\ \A o \in Visits \ {v} : visit'[o] = visit[o]
    /\ UNCHANGED catalogVars /\ UNCHANGED now

LEMMA Stepping ==
    ASSUME VisitsTypeOK, NEW v \in Visits, NEW row \in VisitRow, Step(v, row)
    PROVE  Moves(v) /\ visit'[v] = row
BY DEF VisitsTypeOK, Step, Moves

LEMMA Closed ==
    ASSUME VisitsTypeOK, NEW v \in Visits, NEW how \in {"done", "refused"}, Close(v, how)
    PROVE  Moves(v) /\ visit'[v].pc = how /\ visit'[v].kind = visit[v].kind
<1> DEFINE row == [Quiet EXCEPT !.pc = how, !.kind = visit[v].kind]
<1>1. visit[v].kind \in Kinds \cup {None}
  BY DEF VisitsTypeOK, VisitRow
<1>2. row \in VisitRow
  <2>1. Quiet \in VisitRow
    BY QuietRow
  <2>2. how \in {"idle", "commit", "validate", "seats", "occupied", "page", "total", "ask",
                 "asked", "violations", "denominator", "byNumber", "again", "done", "refused"}
    OBVIOUS
  <2>3. QED
    BY <1>1, <2>1, <2>2, Zenon DEF VisitRow
<1>3. row.pc = how /\ row.kind = visit[v].kind
  BY QuietRow DEF VisitRow
<1>4. Step(v, row)
  BY DEF Close
<1> HIDE DEF row
<1>5. QED
  BY <1>2, <1>3, <1>4, Stepping

-----------------------------------------------------------------------------
(* What is remembered of a visit at a step.                                *)
Kept(v) == Watching(v) /\ visit'[v].kind = visit[v].kind

Remembers(v) ==
    LET was == stable[v]
        is == stable'[v]
    IN  /\ ~Watching(v)' =>
              is.rows = was.rows /\ is.withdrawn = was.withdrawn /\ is.made = {}
        /\ Watching(v)' /\ ~Kept(v) =>
              is.rows = Watched(v)' /\ is.withdrawn = FALSE /\ is.made = {}
        /\ Watching(v)' /\ Kept(v) =>
              /\ is.rows = was.rows \cap Watched(v)'
              /\ is.withdrawn \/ (~was.withdrawn /\ Watched(v) \subseteq Watched(v)')
              /\ ~At(v, "available", "asked")' => is.made = {}
              /\ At(v, "available", "asked")' /\ At(v, "available", "asked") => is.made = was.made
              /\ At(v, "available", "asked")' /\ ~At(v, "available", "asked") => is.made = Made

LEMMA WatchedRows ==
    ASSUME NEW v \in Visits
    PROVE  Watched(v)' \in SUBSET (Rooms \cup Seats \cup Bookings \cup Students)
<1>1. Eligible(v)' \subseteq Rooms \cup Bookings
  BY DEF Eligible, RoomsInUse, Made
<1>2. \A r : SeatsShown(r)' \subseteq Seats
  BY DEF SeatsShown
<1>3. \A t : Matches(t)' \subseteq Students
  BY DEF Matches, WithId, WithNumber
<1>4. QED
  BY <1>1, <1>2, <1>3 DEF Watched

(* Which seats have been moved to another room.                            *)
Moved ==
    /\ moved \subseteq moved'
    /\ \A s \in Seats : seat[s] # None /\ s \notin moved' => seat'[s].room = seat[s].room

(* What Track makes of it.                                                 *)
LEMMA Tracking ==
    ASSUME TypeOK, Track
    PROVE  /\ stable' \in [Visits -> StableRow]
           /\ \A v \in Visits : Remembers(v)
           /\ Moved /\ moved' \subseteq Seats
<1>1. ASSUME NEW v \in Visits
      PROVE  stable'[v] \in StableRow /\ Remembers(v)
  <2> DEFINE was == stable[v]
             made == IF ~At(v, "available", "asked")' THEN {}
                     ELSE IF At(v, "available", "asked") THEN was.made ELSE Made
             seen == Watched(v)'
  <2>1. was \in StableRow /\ made \in SUBSET Bookings
    BY DEF TypeOK, StableRow, Made
  <2>2. seen \in SUBSET (Rooms \cup Seats \cup Bookings \cup Students)
    BY WatchedRows
  <2>3. stable'[v] =
           IF ~Watching(v)' THEN [was EXCEPT !.made = {}]
           ELSE IF ~Watching(v) \/ visit[v].kind # visit'[v].kind
                THEN [rows |-> seen, withdrawn |-> FALSE, made |-> {}]
           ELSE [rows |-> was.rows \cap seen, made |-> made,
                 withdrawn |-> was.withdrawn \/ ~(Watched(v) \subseteq seen)]
    BY DEF Track
  <2> HIDE DEF seen
  <2>4. CASE ~Watching(v)'
    BY <2>1, <2>3, <2>4 DEF StableRow, Remembers
  <2>5. CASE Watching(v)' /\ ~Kept(v)
    <3>1. stable'[v] = [rows |-> seen, withdrawn |-> FALSE, made |-> {}]
      BY <2>3, <2>5 DEF Kept
    <3>2. QED
      BY <2>2, <2>5, <3>1 DEF StableRow, Remembers, seen
  <2>6. CASE Watching(v)' /\ Kept(v)
    <3> DEFINE gone == was.withdrawn \/ ~(Watched(v) \subseteq seen)
    <3>1. stable'[v] = [rows |-> was.rows \cap seen, made |-> made, withdrawn |-> gone]
      BY <2>3, <2>6 DEF Kept
    <3>2. gone \in BOOLEAN /\ (gone \/ (~was.withdrawn /\ Watched(v) \subseteq seen))
      BY <2>1 DEF StableRow
    <3> HIDE DEF gone
    <3>3. /\ stable'[v].rows = was.rows \cap seen /\ stable'[v].made = made
          /\ stable'[v].withdrawn = gone
      BY <3>1
    <3>4. stable'[v] \in StableRow
      BY <2>1, <2>2, <3>1, <3>2 DEF StableRow
    <3>5. stable'[v].withdrawn \/ (~was.withdrawn /\ Watched(v) \subseteq Watched(v)')
      BY <3>2, <3>3, Zenon DEF seen
    <3>6. /\ ~At(v, "available", "asked")' => made = {}
          /\ At(v, "available", "asked")' /\ At(v, "available", "asked") => made = was.made
          /\ At(v, "available", "asked")' /\ ~At(v, "available", "asked") => made = Made
      OBVIOUS
    <3>7. stable'[v].rows = was.rows \cap Watched(v)'
      BY <3>3 DEF seen
    <3> HIDE DEF made
    <3>8. Remembers(v)
      BY <2>6, <3>3, <3>5, <3>6, <3>7, Zenon DEF Remembers
    <3>9. QED
      BY <3>4, <3>8
  <2>7. QED
    BY <2>4, <2>5, <2>6
<1>2. stable' \in [Visits -> StableRow]
  <2>1. stable' = [v \in Visits |-> stable'[v]]
    BY DEF Track
  <2>2. QED
    BY <1>1, <2>1
<1>3. moved' = moved \cup {s \in Seats : seat[s] # None /\ seat'[s].room # seat[s].room}
  BY DEF Track
<1>4. QED
  BY <1>1, <1>2, <1>3 DEF TypeOK, Moved

-----------------------------------------------------------------------------
(* Reservations once made stay, and what has been missed or cancelled.     *)
BookingsGrow ==
    \A b \in Made :
        /\ b \in Made'
        /\ booking'[b].user = booking[b].user /\ booking'[b].seat = booking[b].seat
        /\ booking'[b].room = booking[b].room /\ booking'[b].window = booking[b].window
        /\ booking[b].missed => booking'[b].missed
        /\ booking[b].status = "CANCELLED" => booking'[b].status = "CANCELLED"
        /\ Holding(b)' => Holding(b)

(* What is known of the rows watched when a step is over.                  *)
LEMMA Remembering ==
    ASSUME NEW v \in Visits, Remembers(v), WatchInv(v)
    PROVE  /\ WatchInv(v)'
           /\ Watching(v)' /\ Kept(v) =>
                 /\ stable'[v].rows \subseteq stable[v].rows
                 /\ \/ stable'[v].withdrawn
                    \/ /\ ~stable[v].withdrawn /\ stable'[v].rows = stable[v].rows
                       /\ Watched(v) \subseteq Watched(v)'
           /\ ~Watching(v)' =>
                 stable'[v].rows = stable[v].rows /\ stable'[v].withdrawn = stable[v].withdrawn
           /\ Watching(v)' /\ ~Kept(v) =>
                 stable'[v].rows = Watched(v)' /\ stable'[v].withdrawn = FALSE
<1>1. WatchInv(v)'
  BY DEF Remembers, WatchInv
<1>2. CASE Watching(v)' /\ Kept(v)
  BY <1>1, <1>2 DEF Remembers, WatchInv, Kept
<1>3. CASE ~(Watching(v)' /\ Kept(v))
  BY <1>1, <1>3 DEF Remembers
<1>4. QED
  BY <1>2, <1>3

(* What a visit need not look at when it is about something else.          *)
LEMMA Elsewhere ==
    ASSUME NEW v \in Visits
    PROVE  LET q == visit'[v] IN
           /\ /\ q.kind # "cancel" \/ q.pc # "commit"
              /\ q.kind # "book" \/ q.pc \notin {"commit", "done"}
              => BookInv(v)'
           /\ q.kind # "checkin" \/ q.pc \notin {"validate", "commit"} => CheckinInv(v)'
           /\ q.pc # "occupied" /\ (q.kind # "availability" \/ q.pc # "seats")
                => AvailabilityInv(v)'
           /\ q.pc \notin Listing
                 /\ (q.pc \notin {"done", "refused"}
                     \/ q.kind \notin {"available", "attributes", "reservations", "codes"})
                => ListingInv(v)'
           /\ q.pc # "asked" => HeldInv(v)'
           /\ q.pc \notin {"violations", "denominator"} /\ (q.kind # "statistics" \/ q.pc # "done")
                => StatisticsInv(v)'
           /\ q.pc \notin {"byNumber", "again"} /\ (q.kind # "locate" \/ q.pc # "done")
                => LocateInv(v)'
<1>1. /\ visit'[v].kind # "cancel" \/ visit'[v].pc # "commit"
      /\ visit'[v].kind # "book" \/ visit'[v].pc \notin {"commit", "done"}
      => BookInv(v)'
  BY DEF BookInv, At
<1>2. visit'[v].kind # "checkin" \/ visit'[v].pc \notin {"validate", "commit"} => CheckinInv(v)'
  BY DEF CheckinInv
<1>3. /\ visit'[v].pc # "occupied"
      /\ visit'[v].kind # "availability" \/ visit'[v].pc # "seats"
      => AvailabilityInv(v)'
  BY DEF AvailabilityInv, At
<1>4. /\ visit'[v].pc \notin Listing
      /\ \/ visit'[v].pc \notin {"done", "refused"}
         \/ visit'[v].kind \notin {"available", "attributes", "reservations", "codes"}
      => ListingInv(v)'
  BY DEF ListingInv, Listing
<1>5. visit'[v].pc # "asked" => HeldInv(v)'
  BY DEF HeldInv
<1>6. /\ visit'[v].pc \notin {"violations", "denominator"}
      /\ visit'[v].kind # "statistics" \/ visit'[v].pc # "done"
      => StatisticsInv(v)'
  BY DEF StatisticsInv, At
<1>7. /\ visit'[v].pc \notin {"byNumber", "again"}
      /\ visit'[v].kind # "locate" \/ visit'[v].pc # "done"
      => LocateInv(v)'
  BY DEF LocateInv, At
<1>8. QED
  BY <1>1, <1>2, <1>3, <1>4, <1>5, <1>6, <1>7

(* The bounds.                                                             *)
LEMMA Sizes ==
    /\ MaxRooms \in Nat /\ MaxBookings \in Nat /\ PageSize \in Nat \ {0}
    /\ MaxTime \in Nat /\ Grace \in Nat /\ SliceLength \in Nat \ {0}
BY CatalogAssumption, VisitAssumption

(* Counting: rows that belong in a listing, and the rank of one of them.   *)
LEMMA Eligibles ==
    ASSUME CatalogTypeOK, VisitsTypeOK, NEW v \in Visits
    PROVE  /\ IsFiniteSet(Eligible(v))
           /\ Cardinality(Eligible(v)) \in 0..(MaxRooms + MaxBookings)
           /\ Eligible(v) \subseteq (IF visit[v].kind = "reservations" THEN Bookings ELSE Rooms)
<1>1. Eligible(v) \subseteq (IF visit[v].kind = "reservations" THEN Bookings ELSE Rooms)
  BY DEF Eligible, Made, RoomsInUse
<1>2. MaxRooms \in Nat /\ MaxBookings \in Nat
  BY CatalogAssumption, VisitAssumption
<1>3. ASSUME NEW n \in Nat, n <= MaxRooms + MaxBookings, Eligible(v) \subseteq 1..n
      PROVE  IsFiniteSet(Eligible(v)) /\ Cardinality(Eligible(v)) \in 0..(MaxRooms + MaxBookings)
  <2>1. IsFiniteSet(1..n) /\ Cardinality(1..n) = n
    BY FS_Interval
  <2>2. /\ IsFiniteSet(Eligible(v)) /\ Cardinality(Eligible(v)) \in Nat
        /\ Cardinality(Eligible(v)) <= n
    BY <1>3, <2>1, FS_Subset, FS_CardinalityType
  <2>3. QED
    BY <1>2, <1>3, <2>2
<1>4. QED
  BY <1>1, <1>2, <1>3 DEF Rooms, Bookings

ListingsFit ==
    \A v \in Visits :
        /\ IsFiniteSet(Eligible(v))
        /\ Cardinality(Eligible(v)) \in 0..(MaxRooms + MaxBookings)
        /\ Eligible(v) \subseteq (IF visit[v].kind = "reservations" THEN Bookings ELSE Rooms)

LEMMA Fitting == CatalogTypeOK /\ VisitsTypeOK => ListingsFit
BY Eligibles DEF ListingsFit

RanksFit ==
    \A v \in Visits : \A x :
        /\ IsFiniteSet({y \in Eligible(v) : Before(v, y, x)})
        /\ Rank(v, x) \in Nat /\ Rank(v, x) <= Cardinality(Eligible(v))

LEMMA Ranks == CatalogTypeOK /\ VisitsTypeOK => RanksFit
BY Fitting, FS_Subset, FS_CardinalityType DEF RanksFit, Rank, ListingsFit

-----------------------------------------------------------------------------
(* A visit that does not move keeps what is known of it, whoever does.     *)
LEMMA Monotone ==
    ASSUME CatalogGrows, BookingsGrow
    PROVE  /\ Made \subseteq Made'
           /\ \A n : WithId(n) \subseteq WithId(n)' /\ WithNumber(n) \subseteq WithNumber(n)'
           /\ \A t : Matches(t) \subseteq Matches(t)'
<1>1. Made \subseteq Made'
  BY DEF BookingsGrow
<1>2. \A n : WithId(n) \subseteq WithId(n)' /\ WithNumber(n) \subseteq WithNumber(n)'
  BY DEF WithId, WithNumber, SignedIn, CatalogGrows
<1>3. \A t : Matches(t) \subseteq Matches(t)'
  BY <1>2 DEF Matches
<1>4. QED
  BY <1>1, <1>2, <1>3

LEMMA OthersBook ==
    ASSUME TypeOK, NEW v \in Visits, UNCHANGED visit[v], CatalogGrows, BookingsGrow,
           Remembers(v), VisitInv(v), Moved
    PROVE  BookInv(v)' /\ CheckinInv(v)' /\ AvailabilityInv(v)'
<1>1. BookInv(v) /\ CheckinInv(v) /\ AvailabilityInv(v) /\ WatchInv(v)
  BY DEF VisitInv
<1>2. \A kind, pc : At(v, kind, pc)' <=> At(v, kind, pc)
  BY DEF At
<1>3. BookInv(v)'
  <2>1. CASE At(v, "book", "commit")
    <3>1. Watching(v)' /\ Kept(v)
      BY <2>1 DEF Watching, Kept, At
    <3>2. stable'[v].withdrawn \/ visit[v].seat \in stable'[v].rows
      BY <1>1, <2>1, <3>1, Remembering DEF BookInv
    <3>3. QED
      BY <1>1, <1>2, <2>1, <3>2 DEF BookInv, CatalogGrows, At, Moved
  <2>2. CASE At(v, "book", "done")
    <3>1. ~Watching(v)'
      BY <2>2 DEF Watching, At
    <3>2. QED
      BY <1>1, <1>2, <2>2, <3>1, Remembering DEF BookInv, At
  <2>3. CASE ~At(v, "book", "commit") /\ ~At(v, "book", "done")
    BY <1>1, <1>2, <2>3, Monotone DEF BookInv, At
  <2>4. QED
    BY <2>1, <2>2, <2>3
<1>4. CheckinInv(v)'
  BY <1>1 DEF CheckinInv, BookingsGrow
<1>5. AvailabilityInv(v)'
  <2>1. visit[v].pc = "occupied" => stable'[v].rows \subseteq stable[v].rows
    BY <1>1, Remembering DEF Watching, Kept
  <2>2. QED
    BY <1>1, <1>2, <2>1 DEF AvailabilityInv
<1>6. QED
  BY <1>3, <1>4, <1>5

(* Rows that stay do not come to stand before one another otherwise.       *)
LEMMA RanksGrow ==
    ASSUME TypeOK, TypeOK', NEW v \in Visits, BookingsGrow,
           visit'[v].kind = visit[v].kind, visit'[v].user = visit[v].user,
           Eligible(v) \subseteq Eligible(v)', NEW x \in Eligible(v)
    PROVE  Rank(v, x) <= Rank(v, x)'
<1> DEFINE before == {y \in Eligible(v) : Before(v, y, x)}
<1>1. visit[v].kind = "reservations" => Eligible(v) \subseteq Made
  BY DEF Eligible
<1>2. \A y \in Eligible(v) : Before(v, y, x) <=> Before(v, y, x)'
  BY <1>1 DEF Before, BookingsGrow
<1>3. before \subseteq before'
  BY <1>2
<1>4. IsFiniteSet(before') /\ Cardinality(before') \in Nat
  <2>1. IsFiniteSet(Eligible(v)') /\ before' \subseteq Eligible(v)'
    <3>1. (CatalogTypeOK /\ VisitsTypeOK => ListingsFit)'
      BY Fitting, PTL
    <3>2. QED
      BY <3>1 DEF ListingsFit, TypeOK
  <2>2. QED
    BY <2>1, FS_Subset, FS_CardinalityType
<1>5. QED
  BY <1>3, <1>4, FS_Subset, FS_CardinalityType DEF Rank

(* Its listing: pages before a missing row are still before it.            *)
LEMMA OthersList ==
    ASSUME TypeOK, TypeOK', NEW v \in Visits, UNCHANGED visit[v], CatalogGrows, BookingsGrow,
           Remembers(v), VisitInv(v)
    PROVE  ListingInv(v)' /\ HeldInv(v)'
<1> DEFINE q == visit[v]
           was == stable[v]
           is == stable'[v]
<1>1. ListingInv(v) /\ HeldInv(v) /\ WatchInv(v)
  BY DEF VisitInv
<1>2. \A kind, pc : At(v, kind, pc)' <=> At(v, kind, pc)
  BY DEF At
<1>3. CASE q.pc \in Listing
  <2>1. Watching(v)' /\ Kept(v)
    BY <1>3 DEF Watching, Kept, Listing
  <2>2. Watched(v) = Eligible(v) /\ Watched(v)' = Eligible(v)'
    BY <1>1, <1>3 DEF ListingInv, Watched, Listing, Queries
  <2>3. \/ is.withdrawn
        \/ ~was.withdrawn /\ is.rows = was.rows /\ Eligible(v) \subseteq Eligible(v)'
    BY <1>1, <2>1, <2>2, Remembering
  <2>4. is.rows \subseteq Eligible(v)' /\ was.rows \subseteq Eligible(v)
    BY <1>1, <2>1, <2>2, Remembering DEF WatchInv, Kept
  <2>5. ASSUME ~is.withdrawn, NEW x \in is.rows \ q.listed
        PROVE  /\ x \in was.rows \ q.listed /\ ~was.withdrawn
               /\ Rank(v, x) \in Nat /\ Rank(v, x)' \in Nat /\ Rank(v, x) <= Rank(v, x)'
    <3>1. x \in was.rows /\ ~was.withdrawn /\ Eligible(v) \subseteq Eligible(v)'
      BY <2>3, <2>5
    <3>2. Rank(v, x) <= Rank(v, x)'
      BY <2>4, <3>1, RanksGrow
    <3>3. (CatalogTypeOK /\ VisitsTypeOK => RanksFit)'
      BY Ranks, PTL
    <3>4. QED
      BY <2>5, <3>1, <3>2, <3>3, Ranks DEF RanksFit, TypeOK
  <2>6. /\ q.page \in Nat /\ (q.page - 1) * PageSize \in Int /\ q.page * PageSize \in Int
    <3>1. q \in VisitRow
      BY DEF TypeOK, VisitsTypeOK
    <3>2. q.page \in 1..(MaxRooms + MaxBookings + 1)
      BY <3>1 DEF VisitRow
    <3>3. q.page \in Nat /\ q.page - 1 \in Int /\ PageSize \in Nat
      BY <3>2, Sizes
    <3>4. \A i, n \in Int : i * n \in Int
      OBVIOUS
    <3> HIDE DEF q
    <3>5. QED
      BY <3>3, <3>4
  <2>7. ASSUME q.pc = "page", ~is.withdrawn, NEW x \in is.rows \ q.listed
        PROVE  (q.page - 1) * PageSize <= Rank(v, x)'
    <3>1. (q.page - 1) * PageSize <= Rank(v, x)
      BY <1>1, <2>5, <2>7 DEF ListingInv
    <3>2. QED
      BY <2>5, <2>6, <2>7, <3>1
  <2>8. ASSUME q.pc = "total", ~is.withdrawn, NEW x \in is.rows \ q.listed
        PROVE  q.page * PageSize <= Rank(v, x)'
    <3>1. q.page * PageSize <= Rank(v, x)
      BY <1>1, <2>5, <2>8 DEF ListingInv
    <3>2. QED
      BY <2>5, <2>6, <2>8, <3>1
  <2>9. /\ is.withdrawn \/ q.listed \subseteq Eligible(v)'
        /\ q.pc \in {"ask", "asked"} => is.withdrawn \/ is.rows \subseteq q.listed
    BY <1>1, <1>3, <2>3 DEF ListingInv
  <2>10. ListingInv(v)'
    BY <1>1, <1>3, <2>7, <2>8, <2>9 DEF ListingInv, Listing
  <2>11. HeldInv(v)'
    <3>1. SUFFICES ASSUME q.pc = "asked" PROVE HeldInv(v)'
      BY DEF HeldInv
    <3>2. At(v, "available", "asked") /\ At(v, "available", "asked")'
      BY <1>1, <3>1 DEF HeldInv, At
    <3>3. is.made = was.made
      BY <2>1, <3>2 DEF Remembers
    <3>4. \A b \in was.made : b \in Made /\ b \in Made'
      BY <1>1, <3>1 DEF HeldInv, BookingsGrow
    <3>5. QED
      BY <1>1, <3>1, <3>3, <3>4 DEF HeldInv, BookingsGrow
  <2>12. QED
    BY <2>10, <2>11
<1>4. CASE q.pc \notin Listing
  <2>1. HeldInv(v)'
    BY <1>4 DEF HeldInv, Listing
  <2>2. CASE q.pc \in {"done", "refused"}
    <3>1. ~Watching(v)'
      BY <2>2 DEF Watching, At
    <3>2. is.rows = was.rows /\ is.withdrawn = was.withdrawn
      BY <1>1, <3>1, Remembering
    <3>3. QED
      BY <1>1, <1>4, <2>1, <2>2, <3>2 DEF ListingInv, Listing
  <2>3. CASE q.pc \notin {"done", "refused"}
    BY <1>4, <2>1, <2>3, Elsewhere
  <2>4. QED
    BY <2>2, <2>3
<1>5. QED
  BY <1>3, <1>4

LEMMA MadeIsFinite ==
    ASSUME NEW S, S \subseteq Bookings
    PROVE  IsFiniteSet(S) /\ Cardinality(S) \in Nat /\ Cardinality(S) <= MaxBookings
<1>1. IsFiniteSet(Bookings) /\ Cardinality(Bookings) = MaxBookings
  BY Sizes, FS_Interval DEF Bookings
<1>2. QED
  BY <1>1, FS_Subset, FS_CardinalityType

(* Its counts: what is missed only grows.                                  *)
LEMMA OthersCount ==
    ASSUME TypeOK, NEW v \in Visits, UNCHANGED visit[v], BookingsGrow, VisitInv(v)
    PROVE  StatisticsInv(v)'
<1> DEFINE q == visit[v]
           missed == {b \in InScope(v) : booking[b].missed}
           lost == {b \in missed : booking[b].status = "CANCELLED"}
<1>1. StatisticsInv(v)
  BY DEF VisitInv
<1>2. missed \subseteq missed' /\ lost \subseteq lost'
  BY DEF InScope, BookingsGrow
<1>3. missed' \subseteq Bookings /\ lost' \subseteq Bookings
  BY DEF InScope, Made
<1>4. /\ Cardinality(missed) \in Nat /\ Cardinality(missed') \in Nat
      /\ Cardinality(missed) <= Cardinality(missed')
      /\ Cardinality(lost) \in Nat /\ Cardinality(lost') \in Nat
      /\ Cardinality(lost) <= Cardinality(lost')
  BY <1>2, <1>3, MadeIsFinite, FS_Subset
<1>5. q.violations \in Nat /\ q.denominator \in Nat
  <2>1. q \in VisitRow
    BY DEF TypeOK, VisitsTypeOK
  <2>2. q.violations \in 0..MaxBookings /\ q.denominator \in 0..MaxBookings
    BY <2>1 DEF VisitRow
  <2>3. QED
    BY <2>2
<1> HIDE DEF missed, lost
<1>6. At(v, "statistics", "denominator")' => q.violations <= Cardinality(missed')
  <2>1. At(v, "statistics", "denominator")' => q.violations <= Cardinality(missed)
    BY <1>1 DEF StatisticsInv, At, missed
  <2>2. QED
    BY <1>4, <1>5, <2>1
<1>7. At(v, "statistics", "done")' => q.violations <= q.denominator + Cardinality(lost')
  <2>1. At(v, "statistics", "done")' => q.violations <= q.denominator + Cardinality(lost)
    BY <1>1 DEF StatisticsInv, At, missed, lost
  <2>2. QED
    BY <1>4, <1>5, <2>1
<1>8. QED
  BY <1>1, <1>6, <1>7 DEF StatisticsInv, missed, lost

(* Its lookup: accounts that are there keep their numbers.                 *)
LEMMA OthersLocate ==
    ASSUME NEW v \in Visits, UNCHANGED visit[v], CatalogGrows, BookingsGrow,
           Remembers(v), VisitInv(v)
    PROVE  LocateInv(v)'
<1> DEFINE q == visit[v]
           was == stable[v]
           is == stable'[v]
<1>1. LocateInv(v) /\ WatchInv(v)
  BY DEF VisitInv
<1>2. CASE q.pc \in {"byNumber", "again"}
  <2>1. q.kind = "locate" /\ q.typed.prefix = ""
    BY <1>1, <1>2 DEF LocateInv
  <2>2. Watching(v) /\ Watching(v)' /\ Kept(v) /\ Watched(v) = Matches(q.typed)
    BY <1>2, <2>1 DEF Watching, Kept, Watched
  <2>3. is.rows \subseteq was.rows /\ was.rows \subseteq Matches(q.typed)
    BY <1>1, <2>2, Remembering DEF WatchInv
  <2>4. \A u \in was.rows : u \in WithId(q.typed.value)' => u \in WithId(q.typed.value)
    BY <2>3 DEF Matches, WithId, WithNumber
  <2>5. QED
    BY <1>1, <1>2, <2>3, <2>4, Monotone DEF LocateInv, At
<1>3. CASE At(v, "locate", "done")
  <2>1. ~Watching(v)'
    BY <1>3 DEF Watching, At
  <2>2. is.rows = was.rows
    BY <1>1, <2>1, Remembering
  <2>3. QED
    BY <1>1, <1>3, <2>2, Monotone DEF LocateInv, At
<1>4. CASE q.pc \notin {"byNumber", "again"} /\ ~At(v, "locate", "done")
  BY <1>4, Elsewhere DEF At
<1>5. QED
  BY <1>2, <1>3, <1>4

(* All of it.                                                              *)
LEMMA OthersKeep ==
    ASSUME TypeOK, TypeOK', NEW v \in Visits, UNCHANGED visit[v], CatalogGrows, BookingsGrow,
           Remembers(v), VisitInv(v), Moved
    PROVE  VisitInv(v)'
<1>1. WatchInv(v)'
  BY Remembering DEF VisitInv
<1>2. QED
  BY <1>1, OthersBook, OthersList, OthersCount, OthersLocate DEF VisitInv

-----------------------------------------------------------------------------
(* What becomes of the reservations when nobody writes them.               *)
LEMMA BookingsRest ==
    ASSUME UNCHANGED booking
    PROVE  BookingsGrow
BY DEF BookingsGrow, Made, Holding

LEMMA BookingInvRests ==
    ASSUME TypeOK, UNCHANGED booking, CatalogGrows, Moved, NEW b \in Bookings, BookingInv(b)
    PROVE  BookingInv(b)'
BY DEF BookingInv, Made, TypeOK, VisitsTypeOK, BookingRow, CatalogGrows, Moved

-----------------------------------------------------------------------------
(* A visit that answers has little to be sure of any more.                 *)
LEMMA Answers ==
    ASSUME TypeOK, NEW v \in Visits, Remembers(v), WatchInv(v),
           \/ Close(v, "refused") /\ visit[v].kind \notin {"available", "attributes", "codes"}
           \/ Close(v, "done") /\ visit[v].kind \in {"cancel", "checkin"}
    PROVE  Moves(v) /\ VisitInv(v)'
<1>1. /\ Moves(v) /\ visit'[v].kind = visit[v].kind
      /\ \/ visit'[v].pc = "refused" /\ visit[v].kind \notin {"available", "attributes", "codes"}
         \/ visit'[v].pc = "done" /\ visit[v].kind \in {"cancel", "checkin"}
  BY Closed DEF TypeOK
<1>2. WatchInv(v)'
  BY Remembering
<1>3. ListingInv(v)'
  BY <1>1 DEF ListingInv, Listing
<1>4. /\ BookInv(v)' /\ CheckinInv(v)' /\ AvailabilityInv(v)'
      /\ HeldInv(v)' /\ StatisticsInv(v)' /\ LocateInv(v)'
  BY <1>1, Elsewhere
<1>5. QED
  BY <1>1, <1>2, <1>3, <1>4 DEF VisitInv

(* What visits read is the same while the catalogue is.                    *)
LEMMA SeenAlike ==
    ASSUME UNCHANGED catalogVars
    PROVE  /\ \A r, u : Visible(r, u)' <=> Visible(r, u)
           /\ \A r : SeatsShown(r)' = SeatsShown(r)
           /\ RoomsInUse' = RoomsInUse
           /\ \A n : WithId(n)' = WithId(n) /\ WithNumber(n)' = WithNumber(n)
           /\ \A t : Matches(t)' = Matches(t)
<1>1. /\ \A r, u : Visible(r, u)' <=> Visible(r, u)
      /\ \A r : SeatsShown(r)' = SeatsShown(r)
      /\ RoomsInUse' = RoomsInUse
  BY DEF catalogVars, Visible, SeatsShown, RoomsInUse
<1>2. \A n : WithId(n)' = WithId(n) /\ WithNumber(n)' = WithNumber(n)
  BY DEF catalogVars, WithId, WithNumber, SignedIn
<1>3. \A t : Matches(t)' = Matches(t)
  BY <1>2 DEF Matches
<1>4. QED
  BY <1>1, <1>2, <1>3

-----------------------------------------------------------------------------
(* Booking.                                                                *)
LEMMA BookSnapshotKeeps ==
    ASSUME TypeOK, NEW v \in Visits, Remembers(v), WatchInv(v), Moved, BookSnapshot(v)
    PROVE  Moves(v) /\ VisitInv(v)' /\ UNCHANGED booking
<1>1. PICK u \in Students, s \in Seats, w \in Windows :
         /\ seat[s] # None /\ Reservable(s, seat[s].room, u)
         /\ Step(v, [Quiet EXCEPT !.pc = "commit", !.kind = "book", !.user = u, !.seat = s,
                                  !.room = seat[s].room, !.window = w])
  BY DEF BookSnapshot
<1>2. PICK r \in Rooms : r = seat[s].room
  BY <1>1 DEF TypeOK, CatalogTypeOK, SeatRow
<1> DEFINE row == [Quiet EXCEPT !.pc = "commit", !.kind = "book", !.user = u, !.seat = s,
                                !.room = r, !.window = w]
<1>3. row \in VisitRow
  <2>1. Quiet \in VisitRow /\ "book" \in Kinds
    BY QuietRow DEF Kinds
  <2>2. QED
    BY <1>2, <2>1, Zenon DEF VisitRow
<1>4. /\ row.pc = "commit" /\ row.kind = "book" /\ row.user = u /\ row.seat = s
      /\ row.room = r /\ row.window = w
  BY QuietRow DEF VisitRow
<1>5. Moves(v) /\ visit'[v] = row
  BY <1>1, <1>2, <1>3, Stepping DEF TypeOK
<1> HIDE DEF row
<1>6. ~Watching(v) /\ Watching(v)'
  BY <1>4, <1>5 DEF Watching, At, BookSnapshot, Starts
<1>7. stable'[v].rows = Watched(v)' /\ WatchInv(v)'
  BY <1>6, Remembering DEF Kept
<1>8. s \in Watched(v)'
  <2>1. Visible(r, u)' /\ s \in SeatsShown(r)'
    BY <1>1, <1>2, <1>5, SeenAlike DEF Moves, Reservable
  <2>2. QED
    BY <1>4, <1>5, <2>1 DEF Watched
<1>9. BookInv(v)'
  <2>1. seat'[s] # None /\ (s \notin moved' => seat'[s].room = r)
    BY <1>1, <1>2, <1>5 DEF Moves, catalogVars
  <2>2. QED
    BY <1>2, <1>4, <1>5, <1>7, <1>8, <2>1 DEF BookInv, At
<1>10. QED
  BY <1>4, <1>5, <1>7, <1>9, Elsewhere DEF VisitInv, Listing, BookSnapshot

LEMMA BookingRowIs ==
    ASSUME NEW u \in Students, NEW s \in Seats, NEW r \in Rooms, NEW w \in Windows
    PROVE  [user |-> u, seat |-> s, room |-> r, window |-> w,
            status |-> "BOOKED", missed |-> FALSE] \in BookingRow
BY DEF BookingRow

(* A reservation is inserted under a free id.                              *)
LEMMA BookingWritten ==
    ASSUME TypeOK, \A c \in Bookings : BookingInv(c), UNCHANGED catalogVars, Moved,
           NEW b \in Bookings, booking[b] = None, NEW row \in BookingRow,
           seat[row.seat] # None, row.seat \notin moved => row.room = seat[row.seat].room,
           ~row.missed, booking' = [booking EXCEPT ![b] = row]
    PROVE  /\ booking' \in [Bookings -> BookingRow \cup {None}]
           /\ BookingsGrow
           /\ \A c \in Bookings : BookingInv(c)'
<1>1. booking \in [Bookings -> BookingRow \cup {None}] /\ None \notin BookingRow
  BY VisitAssumption DEF TypeOK, VisitsTypeOK
<1>2. /\ booking' \in [Bookings -> BookingRow \cup {None}]
      /\ booking'[b] = row /\ \A c \in Bookings \ {b} : booking'[c] = booking[c]
  BY <1>1
<1>3. Made \subseteq Bookings \ {b} /\ b \in Made' /\ \A c \in Made : c \in Made'
  BY <1>1, <1>2 DEF Made
<1>4. BookingsGrow
  BY <1>2, <1>3 DEF BookingsGrow, Holding
<1>5. BookingInv(b)'
  BY <1>2 DEF BookingInv, Moved, catalogVars
<1>6. ASSUME NEW c \in Bookings \ {b} PROVE BookingInv(c)'
  <2>1. c \in Made' => c \in Made
    BY <1>2, <1>6 DEF Made
  <2>2. QED
    BY <1>2, <1>6, <2>1 DEF BookingInv, Moved, catalogVars
<1>7. QED
  BY <1>2, <1>4, <1>5, <1>6

(* A reservation is cancelled, or checked in when it is booked.            *)
LEMMA StatusWritten ==
    ASSUME TypeOK, \A c \in Bookings : BookingInv(c), UNCHANGED catalogVars, Moved,
           NEW b \in Made, NEW status \in {"CANCELLED", "CHECKED_IN"},
           status = "CHECKED_IN" => booking[b].status = "BOOKED",
           booking' = [booking EXCEPT ![b].status = status]
    PROVE  /\ booking' \in [Bookings -> BookingRow \cup {None}]
           /\ BookingsGrow
           /\ \A c \in Bookings : BookingInv(c)'
<1>1. /\ booking \in [Bookings -> BookingRow \cup {None}] /\ None \notin BookingRow
      /\ b \in Bookings /\ booking[b] \in BookingRow
  BY VisitAssumption DEF TypeOK, VisitsTypeOK, Made
<1> DEFINE row == [booking[b] EXCEPT !.status = status]
<1>2. /\ row \in BookingRow /\ row.status = status /\ row.missed = booking[b].missed
      /\ row.user = booking[b].user /\ row.seat = booking[b].seat
      /\ row.room = booking[b].room /\ row.window = booking[b].window
  BY <1>1 DEF BookingRow
<1>3. booking' = [booking EXCEPT ![b] = row]
  BY <1>1
<1> HIDE DEF row
<1>4. /\ booking' \in [Bookings -> BookingRow \cup {None}]
      /\ booking'[b] = row /\ \A c \in Bookings \ {b} : booking'[c] = booking[c]
  BY <1>1, <1>2, <1>3
<1>5. Made' = Made
  BY <1>1, <1>2, <1>4 DEF Made
<1>6. BookingsGrow
  BY <1>2, <1>4, <1>5 DEF BookingsGrow, Holding, Made
<1>7. BookingInv(b)'
  <2>1. BookingInv(b)
    BY <1>1
  <2>2. QED
    BY <1>1, <1>2, <1>4, <2>1 DEF BookingInv, Moved, catalogVars, Made
<1>8. ASSUME NEW c \in Bookings \ {b} PROVE BookingInv(c)'
  BY <1>4, <1>5, <1>8 DEF BookingInv, Moved, catalogVars
<1>9. QED
  BY <1>4, <1>6, <1>7, <1>8

LEMMA BookCommitKeeps ==
    ASSUME TypeOK, \A c \in Bookings : BookingInv(c), NEW v \in Visits, VisitInv(v),
           Remembers(v), Moved, BookCommit(v)
    PROVE  /\ Moves(v) /\ VisitInv(v)'
           /\ booking' \in [Bookings -> BookingRow \cup {None}]
           /\ BookingsGrow
           /\ \A c \in Bookings : BookingInv(c)'
<1> DEFINE q == visit[v]
<1>1. /\ q.user \in Students /\ q.seat \in Seats /\ q.room \in Rooms /\ q.window \in Windows
      /\ seat[q.seat] # None /\ (q.seat \notin moved => q.room = seat[q.seat].room)
      /\ stable[v].withdrawn \/ q.seat \in stable[v].rows
      /\ At(v, "book", "commit") /\ WatchInv(v)
  BY DEF VisitInv, BookInv, BookCommit
<1>2. CASE Close(v, "refused") /\ UNCHANGED booking
  <2>1. Moves(v) /\ VisitInv(v)'
    BY <1>1, <1>2, Answers DEF At
  <2>2. UNCHANGED catalogVars /\ CatalogGrows
    BY <2>1 DEF Moves, catalogVars, CatalogGrows
  <2>3. booking' \in [Bookings -> BookingRow \cup {None}]
    BY <1>2 DEF TypeOK, VisitsTypeOK
  <2>4. QED
    BY <1>2, <2>1, <2>2, <2>3, BookingsRest, BookingInvRests
<1>3. CASE ~(Close(v, "refused") /\ UNCHANGED booking)
  <2> DEFINE b == FreshId(booking)
             new == [user |-> q.user, seat |-> q.seat, room |-> q.room, window |-> q.window,
                     status |-> "BOOKED", missed |-> FALSE]
             row == [Quiet EXCEPT !.pc = "done", !.kind = "book", !.seat = q.seat]
  <2>1. b # None /\ booking' = [booking EXCEPT ![b] = new] /\ Step(v, row)
    BY <1>3 DEF BookCommit
  <2>2. b \in Bookings /\ booking[b] = None
    BY <2>1, Sizes, FreshIdIsFree DEF TypeOK, VisitsTypeOK, Bookings
  <2>3. row \in VisitRow
    <3>1. Quiet \in VisitRow /\ "book" \in Kinds
      BY QuietRow DEF Kinds
    <3>2. QED
      BY <1>1, <3>1, Zenon DEF VisitRow
  <2>4. row.pc = "done" /\ row.kind = "book" /\ row.seat = q.seat
    BY QuietRow DEF VisitRow
  <2> HIDE DEF row
  <2>5. Moves(v) /\ visit'[v] = row
    BY <2>1, <2>3, Stepping DEF TypeOK
  <2>6. ~Watching(v)'
    BY <2>4, <2>5 DEF Watching, At
  <2>7. BookInv(v)' /\ WatchInv(v)'
    BY <1>1, <2>4, <2>5, <2>6, Remembering DEF BookInv, At
  <2>8. VisitInv(v)'
    BY <2>4, <2>5, <2>7, Elsewhere DEF VisitInv, Listing
  <2>9. /\ new \in BookingRow /\ new.seat = q.seat /\ new.room = q.room /\ ~new.missed
    BY <1>1, BookingRowIs
  <2> HIDE DEF new, b
  <2>10. QED
    BY <1>1, <2>1, <2>2, <2>5, <2>8, <2>9, BookingWritten DEF Moves
<1>4. QED
  BY <1>2, <1>3

-----------------------------------------------------------------------------
(* Cancellation.                                                           *)
LEMMA CancelLoadKeeps ==
    ASSUME TypeOK, NEW v \in Visits, Remembers(v), WatchInv(v),
           CancelLoad(v) \/ AdminCancelLoad(v)
    PROVE  Moves(v) /\ VisitInv(v)' /\ UNCHANGED booking
<1>1. PICK b \in Made :
         Step(v, [Quiet EXCEPT !.pc = "commit", !.kind = "cancel", !.booking = b])
  BY DEF CancelLoad, AdminCancelLoad
<1>2. UNCHANGED booking
  BY DEF CancelLoad, AdminCancelLoad
<1> DEFINE row == [Quiet EXCEPT !.pc = "commit", !.kind = "cancel", !.booking = b]
<1>3. row \in VisitRow
  <2>1. Quiet \in VisitRow /\ "cancel" \in Kinds /\ b \in Bookings
    BY QuietRow DEF Kinds, Made
  <2>2. QED
    BY <2>1, Zenon DEF VisitRow
<1>4. row.pc = "commit" /\ row.kind = "cancel" /\ row.booking = b
  BY QuietRow DEF VisitRow
<1>5. Moves(v) /\ visit'[v] = row
  BY <1>1, <1>3, Stepping DEF TypeOK
<1> HIDE DEF row
<1>6. BookInv(v)' /\ WatchInv(v)'
  BY <1>2, <1>4, <1>5, Remembering DEF BookInv, At, Made
<1>7. QED
  BY <1>2, <1>4, <1>5, <1>6, Elsewhere DEF VisitInv, Listing

LEMMA CancelWriteKeeps ==
    ASSUME TypeOK, \A c \in Bookings : BookingInv(c), NEW v \in Visits, VisitInv(v),
           Remembers(v), Moved, CancelWrite(v)
    PROVE  /\ Moves(v) /\ VisitInv(v)'
           /\ booking' \in [Bookings -> BookingRow \cup {None}]
           /\ BookingsGrow
           /\ \A c \in Bookings : BookingInv(c)'
<1>1. visit[v].booking \in Made /\ visit[v].kind = "cancel" /\ WatchInv(v)
  BY DEF VisitInv, BookInv, CancelWrite, At
<1>2. /\ booking' = [booking EXCEPT ![visit[v].booking].status = "CANCELLED"]
      /\ Close(v, "done")
  BY DEF CancelWrite
<1>3. Moves(v) /\ VisitInv(v)'
  BY <1>1, <1>2, Answers
<1>4. QED
  BY <1>1, <1>2, <1>3, StatusWritten DEF Moves

-----------------------------------------------------------------------------
(* Check-in.                                                               *)
LEMMA CheckinArriveKeeps ==
    ASSUME TypeOK, NEW v \in Visits, Remembers(v), WatchInv(v), CheckinArrive(v)
    PROVE  Moves(v) /\ VisitInv(v)' /\ UNCHANGED booking
<1>1. PICK b \in Made, r \in Rooms, t \in 0..now :
         /\ booking[b].window[1] <= now /\ now <= booking[b].window[1] + Grace
         /\ Step(v, [Quiet EXCEPT !.pc = "validate", !.kind = "checkin", !.at = now,
                                  !.booking = b, !.room = r, !.code = t])
  BY DEF CheckinArrive
<1>2. UNCHANGED booking
  BY DEF CheckinArrive
<1>3. PICK time \in 0..MaxTime : time = now
  BY DEF TypeOK, VisitsTypeOK
<1> DEFINE row == [Quiet EXCEPT !.pc = "validate", !.kind = "checkin", !.at = time,
                                !.booking = b, !.room = r, !.code = t]
<1>4. row \in VisitRow
  <2>1. Quiet \in VisitRow /\ "checkin" \in Kinds /\ b \in Bookings
    BY QuietRow DEF Kinds, Made
  <2>2. t \in 0..MaxTime
    BY <1>3, Sizes
  <2>3. QED
    BY <2>1, <2>2, Zenon DEF VisitRow
<1>5. /\ row.pc = "validate" /\ row.kind = "checkin" /\ row.at = time
      /\ row.booking = b /\ row.code = t
  BY QuietRow DEF VisitRow
<1>6. Moves(v) /\ visit'[v] = row
  BY <1>1, <1>3, <1>4, Stepping DEF TypeOK
<1> HIDE DEF row
<1>7. CheckinInv(v)'
  <2>1. t <= time
    BY <1>3
  <2>2. b \in Made' /\ booking'[b] = booking[b]
    BY <1>2 DEF Made
  <2>3. QED
    BY <1>1, <1>3, <1>5, <1>6, <2>1, <2>2 DEF CheckinInv
<1>8. WatchInv(v)'
  BY Remembering
<1>9. QED
  BY <1>2, <1>5, <1>6, <1>7, <1>8, Elsewhere DEF VisitInv, Listing

LEMMA CheckinValidateKeeps ==
    ASSUME TypeOK, NEW v \in Visits, VisitInv(v), Remembers(v), CheckinValidate(v)
    PROVE  Moves(v) /\ VisitInv(v)' /\ UNCHANGED booking
<1> DEFINE q == visit[v]
           row == [q EXCEPT !.pc = "commit"]
<1>1. /\ q.kind = "checkin" /\ q.pc = "validate" /\ UNCHANGED booking
      /\ q \in VisitRow /\ WatchInv(v) /\ CheckinInv(v)
  BY DEF CheckinValidate, At, TypeOK, VisitsTypeOK, VisitInv
<1>2. CASE Close(v, "refused")
  BY <1>1, <1>2, Answers
<1>3. CASE Step(v, row) /\ CodeIsRight(v)
  <2>1. row \in VisitRow
    BY <1>1, Zenon DEF VisitRow
  <2>2. /\ row.pc = "commit" /\ row.kind = "checkin" /\ row.at = q.at /\ row.code = q.code
        /\ row.booking = q.booking /\ row.room = q.room
    BY <1>1 DEF VisitRow
  <2> HIDE DEF row
  <2>3. Moves(v) /\ visit'[v] = row
    BY <1>3, <2>1, Stepping DEF TypeOK
  <2>4. CheckinInv(v)'
    <3>1. q.room = booking[q.booking].room /\ Slice(q.code) = Slice(q.at)
      BY <1>3 DEF CodeIsRight
    <3>2. q.booking \in Made => q.booking \in Made'
      BY <1>1 DEF Made
    <3>3. QED
      BY <1>1, <2>2, <2>3, <3>1, <3>2 DEF CheckinInv
  <2>5. WatchInv(v)'
    BY <1>1, Remembering
  <2>6. QED
    BY <1>1, <2>2, <2>3, <2>4, <2>5, Elsewhere DEF VisitInv, Listing
<1>4. QED
  BY <1>2, <1>3 DEF CheckinValidate

LEMMA CheckinCommitKeeps ==
    ASSUME TypeOK, \A c \in Bookings : BookingInv(c), NEW v \in Visits, VisitInv(v),
           Remembers(v), Moved, CheckinCommit(v)
    PROVE  /\ Moves(v) /\ VisitInv(v)'
           /\ booking' \in [Bookings -> BookingRow \cup {None}]
           /\ BookingsGrow
           /\ \A c \in Bookings : BookingInv(c)'
<1> DEFINE b == visit[v].booking
<1>1. b \in Made /\ visit[v].kind = "checkin" /\ WatchInv(v)
  BY DEF VisitInv, CheckinInv, CheckinCommit, At
<1>2. Close(v, "done") \/ Close(v, "refused")
  BY DEF CheckinCommit
<1>3. Moves(v) /\ VisitInv(v)'
  BY <1>1, <1>2, Answers
<1>4. CASE UNCHANGED booking
  <2>1. UNCHANGED catalogVars /\ CatalogGrows
    BY <1>3 DEF Moves, catalogVars, CatalogGrows
  <2>2. booking' \in [Bookings -> BookingRow \cup {None}]
    BY <1>4 DEF TypeOK, VisitsTypeOK
  <2>3. QED
    BY <1>3, <1>4, <2>1, <2>2, BookingsRest, BookingInvRests
<1>5. CASE ~UNCHANGED booking
  <2>1. /\ booking[b].status = "BOOKED"
        /\ booking' = [booking EXCEPT ![b].status = "CHECKED_IN"]
    BY <1>5 DEF CheckinCommit
  <2> HIDE DEF b
  <2>2. QED
    BY <1>1, <1>3, <2>1, StatusWritten DEF Moves
<1>6. QED
  BY <1>4, <1>5

-----------------------------------------------------------------------------
(* Availability.                                                           *)
LEMMA AvailabilityRoomKeeps ==
    ASSUME TypeOK, NEW v \in Visits, Remembers(v), WatchInv(v), AvailabilityRoom(v)
    PROVE  Moves(v) /\ VisitInv(v)' /\ UNCHANGED booking
<1>1. PICK u \in Students, r \in Rooms, w \in Windows :
         Step(v, [Quiet EXCEPT !.pc = "seats", !.kind = "availability", !.user = u,
                               !.room = r, !.window = w])
  BY DEF AvailabilityRoom
<1> DEFINE row == [Quiet EXCEPT !.pc = "seats", !.kind = "availability", !.user = u,
                                !.room = r, !.window = w]
<1>2. row \in VisitRow
  <2>1. Quiet \in VisitRow /\ "availability" \in Kinds
    BY QuietRow DEF Kinds
  <2>2. QED
    BY <2>1, Zenon DEF VisitRow
<1>3. /\ row.pc = "seats" /\ row.kind = "availability" /\ row.user = u
      /\ row.room = r /\ row.window = w
  BY QuietRow DEF VisitRow
<1>4. Moves(v) /\ visit'[v] = row
  BY <1>1, <1>2, Stepping DEF TypeOK
<1> HIDE DEF row
<1>5. AvailabilityInv(v)' /\ WatchInv(v)'
  BY <1>3, <1>4, Remembering DEF AvailabilityInv
<1>6. QED
  BY <1>3, <1>4, <1>5, Elsewhere DEF VisitInv, Listing, AvailabilityRoom

LEMMA AvailabilitySeatsKeeps ==
    ASSUME TypeOK, NEW v \in Visits, VisitInv(v), Remembers(v), AvailabilitySeats(v)
    PROVE  Moves(v) /\ VisitInv(v)' /\ UNCHANGED booking
<1> DEFINE q == visit[v]
           row == [q EXCEPT !.pc = "occupied", !.listed = SeatsShown(q.room)]
<1>1. /\ q.kind = "availability" /\ q.pc = "seats" /\ UNCHANGED booking
      /\ q \in VisitRow /\ WatchInv(v) /\ AvailabilityInv(v)
  BY DEF AvailabilitySeats, At, TypeOK, VisitsTypeOK, VisitInv
<1>2. CASE Close(v, "refused")
  BY <1>1, <1>2, Answers
<1>3. CASE Step(v, row)
  <2>1. SeatsShown(q.room) \subseteq Seats
    BY DEF SeatsShown
  <2>2. row \in VisitRow
    <3>1. SeatsShown(q.room) \in SUBSET (Rooms \cup Seats \cup Bookings)
      BY <2>1
    <3>2. QED
      BY <1>1, <3>1, Zenon DEF VisitRow
  <2>3. /\ row.pc = "occupied" /\ row.kind = "availability" /\ row.user = q.user
        /\ row.room = q.room /\ row.window = q.window /\ row.listed = SeatsShown(q.room)
    BY <1>1 DEF VisitRow
  <2> HIDE DEF row
  <2>4. Moves(v) /\ visit'[v] = row
    BY <1>3, <2>2, Stepping DEF TypeOK
  <2>5. ~Watching(v) /\ Watching(v)'
    BY <1>1, <2>3, <2>4 DEF Watching, At
  <2>6. stable'[v].rows = Watched(v)' /\ WatchInv(v)'
    BY <1>1, <2>5, Remembering DEF Kept
  <2>7. Watched(v)' \subseteq SeatsShown(q.room)
    <3>1. SeatsShown(q.room)' = SeatsShown(row.room)
      BY <2>3, <2>4, SeenAlike DEF Moves
    <3>2. QED
      BY <2>3, <2>4, SeenAlike DEF Moves, Watched
  <2>8. AvailabilityInv(v)'
    BY <1>1, <2>1, <2>3, <2>4, <2>6, <2>7 DEF AvailabilityInv, At
  <2>9. QED
    BY <1>1, <2>3, <2>4, <2>6, <2>8, Elsewhere DEF VisitInv, Listing
<1>4. QED
  BY <1>2, <1>3 DEF AvailabilitySeats

LEMMA AvailabilityOccupiedKeeps ==
    ASSUME TypeOK, NEW v \in Visits, VisitInv(v), Remembers(v), AvailabilityOccupied(v)
    PROVE  Moves(v) /\ VisitInv(v)' /\ UNCHANGED booking
<1> DEFINE q == visit[v]
           row == [Quiet EXCEPT !.pc = "done", !.kind = "availability",
                                !.listed = q.listed \ Occupied(q.room, q.window)]
<1>1. UNCHANGED booking /\ q \in VisitRow /\ WatchInv(v) /\ Step(v, row)
  BY DEF AvailabilityOccupied, TypeOK, VisitsTypeOK, VisitInv
<1>2. row \in VisitRow
  <2>1. Quiet \in VisitRow /\ "availability" \in Kinds
    BY QuietRow DEF Kinds
  <2>2. q.listed \in SUBSET (Rooms \cup Seats \cup Bookings)
    BY <1>1 DEF VisitRow
  <2>3. q.listed \ Occupied(q.room, q.window) \in SUBSET (Rooms \cup Seats \cup Bookings)
    BY <2>2
  <2>4. QED
    BY <2>1, <2>3, Zenon DEF VisitRow
<1>3. row.pc = "done" /\ row.kind = "availability"
  BY QuietRow DEF VisitRow
<1> HIDE DEF row
<1>4. Moves(v) /\ visit'[v] = row
  BY <1>1, <1>2, Stepping DEF TypeOK
<1>5. WatchInv(v)'
  BY <1>1, Remembering
<1>6. QED
  BY <1>1, <1>3, <1>4, <1>5, Elsewhere DEF VisitInv, Listing

-----------------------------------------------------------------------------
(* The sweep.                                                              *)
LEMMA ReleaseKeeps ==
    ASSUME TypeOK, \A c \in Bookings : BookingInv(c), Moved, Release
    PROVE  /\ UNCHANGED <<now, visit, catalogVars>>
           /\ booking' \in [Bookings -> BookingRow \cup {None}]
           /\ BookingsGrow
           /\ \A c \in Bookings : BookingInv(c)'
<1> DEFINE due == {b \in Made : booking[b].status = "BOOKED"
                                    /\ booking[b].window[1] + Grace < now}
           row(b) == [booking[b] EXCEPT !.status = "EXPIRED", !.missed = TRUE]
<1>1. /\ booking' = [b \in Bookings |-> IF b \in due THEN row(b) ELSE booking[b]]
      /\ UNCHANGED <<now, visit, catalogVars>>
  BY DEF Release
<1>2. /\ booking \in [Bookings -> BookingRow \cup {None}] /\ None \notin BookingRow
      /\ \A b \in due : b \in Made /\ booking[b].status = "BOOKED"
  BY VisitAssumption DEF TypeOK, VisitsTypeOK
<1>3. ASSUME NEW b \in Made
      PROVE  /\ row(b) \in BookingRow /\ row(b).status = "EXPIRED" /\ row(b).missed = TRUE
             /\ row(b).user = booking[b].user /\ row(b).seat = booking[b].seat
             /\ row(b).room = booking[b].room /\ row(b).window = booking[b].window
  BY <1>2 DEF Made, BookingRow
<1> HIDE DEF due, row
<1>4. booking' \in [Bookings -> BookingRow \cup {None}]
  BY <1>1, <1>2, <1>3
<1>5. Made' = Made
  BY <1>1, <1>2, <1>3 DEF Made
<1>6. ASSUME NEW b \in Made
      PROVE  \/ booking'[b] = row(b) /\ booking[b].status = "BOOKED"
             \/ booking'[b] = booking[b]
  BY <1>1, <1>2 DEF Made
<1>7. BookingsGrow
  BY <1>3, <1>5, <1>6 DEF BookingsGrow, Holding
<1>8. ASSUME NEW b \in Bookings PROVE BookingInv(b)'
  <2>1. SUFFICES ASSUME b \in Made PROVE BookingInv(b)'
    BY <1>5 DEF BookingInv
  <2>2. BookingInv(b)
    OBVIOUS
  <2>3. QED
    BY <1>1, <1>3, <1>6, <2>1, <2>2 DEF BookingInv, Moved, catalogVars
<1>9. QED
  BY <1>1, <1>4, <1>7, <1>8

-----------------------------------------------------------------------------
(* The pages of a listing.                                                 *)
LEMMA FitAfter ==
    ASSUME TypeOK, NEW v \in Visits, Moves(v), UNCHANGED booking
    PROVE  ListingsFit' /\ RanksFit'
<1>1. CatalogTypeOK' /\ VisitsTypeOK'
  BY DEF TypeOK, CatalogTypeOK, VisitsTypeOK, Moves, catalogVars
<1>2. (CatalogTypeOK /\ VisitsTypeOK => ListingsFit)'
  BY Fitting, PTL
<1>3. (CatalogTypeOK /\ VisitsTypeOK => RanksFit)'
  BY Ranks, PTL
<1>4. QED
  BY <1>1, <1>2, <1>3

LEMMA EligibleAlike ==
    ASSUME NEW v \in Visits, UNCHANGED catalogVars, UNCHANGED booking,
           visit'[v].kind = visit[v].kind, visit'[v].user = visit[v].user
    PROVE  Eligible(v)' = Eligible(v) /\ \A x : Rank(v, x)' = Rank(v, x)
<1>1. Eligible(v)' = Eligible(v)
  BY SeenAlike DEF Eligible, Made
<1>2. \A x, y : Before(v, y, x)' <=> Before(v, y, x)
  BY DEF Before
<1>3. QED
  BY <1>1, <1>2 DEF Rank

(* A row that is listed has a rank below their number.                     *)
LEMMA RankBelow ==
    ASSUME TypeOK, NEW v \in Visits, NEW x \in Eligible(v)
    PROVE  Rank(v, x) < Cardinality(Eligible(v))
<1> DEFINE before == {y \in Eligible(v) : Before(v, y, x)}
<1>1. ~Before(v, x, x)
  <2>1. CASE visit[v].kind # "reservations"
    <3>1. x \in Nat
      BY <2>1, Fitting, Sizes DEF ListingsFit, TypeOK, Rooms
    <3>2. QED
      BY <2>1, <3>1 DEF Before
  <2>2. CASE visit[v].kind = "reservations"
    <3>1. x \in Made
      BY <2>2 DEF Eligible
    <3>2. booking[x] \in BookingRow /\ x \in Nat
      BY <3>1, Sizes DEF Made, Bookings, TypeOK, VisitsTypeOK
    <3>3. booking[x].window \in Nat \X Nat
      BY <3>2, VisitAssumption DEF BookingRow
    <3>4. booking[x].window[1] \in Nat
      BY <3>3
    <3>5. QED
      BY <2>2, <3>2, <3>4 DEF Before
  <2>3. QED
    BY <2>1, <2>2
<1>2. before \subseteq Eligible(v) /\ before # Eligible(v)
  BY <1>1
<1>3. IsFiniteSet(Eligible(v))
  BY Fitting DEF ListingsFit, TypeOK
<1>4. Cardinality(before) < Cardinality(Eligible(v))
  <2>1. /\ Cardinality(before) \in Nat /\ Cardinality(Eligible(v)) \in Nat
        /\ Cardinality(before) <= Cardinality(Eligible(v))
        /\ Cardinality(before) = Cardinality(Eligible(v)) => before = Eligible(v)
    BY <1>2, <1>3, FS_Subset, FS_CardinalityType
  <2>2. QED
    BY <1>2, <2>1
<1>5. QED
  BY <1>4 DEF Rank

(* A row not on this page, nor before it, comes after it.                  *)
LEMMA NextPage ==
    ASSUME NEW rank \in Nat, NEW page \in Nat \ {0},
           (page - 1) * PageSize <= rank, rank \div PageSize # page - 1
    PROVE  page * PageSize <= rank
<1> DEFINE n == rank \div PageSize
<1>1. PageSize \in Nat \ {0}
  BY Sizes
<1>2. n \in Nat /\ n * PageSize <= rank /\ rank < n * PageSize + PageSize
  BY <1>1, Division
<1> HIDE DEF n
<1>3. n < page - 1 => FALSE
  <2>1. SUFFICES ASSUME n < page - 1 PROVE FALSE
    OBVIOUS
  <2>2. (n + 1) * PageSize <= (page - 1) * PageSize /\ (n + 1) * PageSize = n * PageSize + PageSize
    BY <1>1, <1>2, <2>1, Multiples
  <2>3. n * PageSize \in Nat /\ (page - 1) * PageSize \in Nat
    BY <1>1, <1>2, Multiples
  <2>4. QED
    BY <1>1, <1>2, <2>2, <2>3
<1>4. page <= n
  BY <1>2, <1>3 DEF n
<1>5. page * PageSize <= n * PageSize /\ page * PageSize \in Nat /\ n * PageSize \in Nat
  <2>1. page = n \/ page < n
    BY <1>2, <1>4
  <2>2. page < n => (page + 1) * PageSize <= n * PageSize
    BY <1>1, <1>2, Multiples
  <2>3. /\ page * PageSize \in Nat /\ n * PageSize \in Nat
        /\ (page + 1) * PageSize = page * PageSize + PageSize
    BY <1>1, <1>2, Multiples
  <2>4. QED
    BY <1>1, <2>1, <2>2, <2>3
<1>6. QED
  BY <1>2, <1>5

LEMMA QueryStartsKeeps ==
    ASSUME TypeOK, NEW v \in Visits, Remembers(v), WatchInv(v), QueryStarts(v)
    PROVE  Moves(v) /\ VisitInv(v)' /\ UNCHANGED booking
<1>1. PICK u \in Students, kind \in Queries :
         Step(v, [Quiet EXCEPT !.pc = "page", !.kind = kind, !.user = u])
  BY DEF QueryStarts
<1>2. UNCHANGED booking /\ visit[v].pc = "idle"
  BY DEF QueryStarts, Starts
<1> DEFINE row == [Quiet EXCEPT !.pc = "page", !.kind = kind, !.user = u]
<1>3. row \in VisitRow
  <2>1. Quiet \in VisitRow /\ kind \in Kinds
    BY QuietRow DEF Kinds
  <2>2. QED
    BY <2>1, Zenon DEF VisitRow
<1>4. /\ row.pc = "page" /\ row.kind = kind /\ row.user = u
      /\ row.page = 1 /\ row.listed = {}
  BY QuietRow DEF VisitRow
<1>5. Moves(v) /\ visit'[v] = row
  BY <1>1, <1>3, Stepping DEF TypeOK
<1> HIDE DEF row
<1>6. ~Watching(v) /\ Watching(v)'
  BY <1>2, <1>4, <1>5 DEF Watching, At
<1>7. stable'[v].rows = Watched(v)' /\ WatchInv(v)'
  BY <1>6, Remembering DEF Kept
<1>8. ListingInv(v)'
  <2>1. \A x : Rank(v, x)' \in Nat
    BY <1>2, <1>5, FitAfter DEF RanksFit
  <2>2. (1 - 1) * PageSize = 0
    BY Sizes
  <2>3. \A x : (row.page - 1) * PageSize <= Rank(v, x)'
    BY <1>4, <2>1, <2>2
  <2>4. QED
    BY <1>4, <1>5, <2>3 DEF ListingInv, Queries
<1>9. QED
  BY <1>2, <1>4, <1>5, <1>7, <1>8, Elsewhere DEF VisitInv, Queries

LEMMA CodesListKeeps ==
    ASSUME TypeOK, NEW v \in Visits, Remembers(v), WatchInv(v), CodesList(v)
    PROVE  Moves(v) /\ VisitInv(v)' /\ UNCHANGED booking
<1> DEFINE row == [Quiet EXCEPT !.pc = "ask", !.kind = "codes", !.listed = RoomsInUse]
<1>1. Step(v, row) /\ UNCHANGED booking /\ visit[v].pc = "idle"
  BY DEF CodesList, Starts
<1>2. row \in VisitRow
  <2>1. Quiet \in VisitRow /\ "codes" \in Kinds
    BY QuietRow DEF Kinds
  <2>2. RoomsInUse \in SUBSET (Rooms \cup Seats \cup Bookings)
    BY DEF RoomsInUse
  <2>3. QED
    BY <2>1, <2>2, Zenon DEF VisitRow
<1>3. row.pc = "ask" /\ row.kind = "codes" /\ row.listed = RoomsInUse
  BY QuietRow DEF VisitRow
<1> HIDE DEF row
<1>4. Moves(v) /\ visit'[v] = row
  BY <1>1, <1>2, Stepping DEF TypeOK
<1>5. ~Watching(v) /\ Watching(v)'
  BY <1>1, <1>3, <1>4 DEF Watching, At
<1>6. stable'[v].rows = Watched(v)' /\ WatchInv(v)'
  BY <1>5, Remembering DEF Kept
<1>7. Eligible(v)' = RoomsInUse /\ Watched(v)' = Eligible(v)'
  BY <1>3, <1>4, SeenAlike DEF Moves, Eligible, Watched
<1>8. ListingInv(v)'
  <2>1. RoomsInUse \subseteq Rooms
    BY DEF RoomsInUse
  <2>2. QED
    BY <1>3, <1>4, <1>6, <1>7, <2>1 DEF ListingInv
<1>9. QED
  BY <1>1, <1>3, <1>4, <1>6, <1>8, Elsewhere DEF VisitInv

(* What was listed stays a part of what belongs there, or that is withdrawn. *)
LEMMA StillListed ==
    ASSUME TypeOK, NEW v \in Visits, VisitInv(v), Remembers(v), Moves(v), UNCHANGED booking,
           visit[v].pc \in Listing, visit'[v].pc \in Listing,
           visit'[v].kind = visit[v].kind, visit'[v].user = visit[v].user
    PROVE  /\ WatchInv(v)' /\ Kept(v) /\ Watching(v)'
           /\ Eligible(v)' = Eligible(v) /\ \A x : Rank(v, x)' = Rank(v, x)
           /\ stable'[v].rows \subseteq Eligible(v)
           /\ \/ stable'[v].withdrawn
              \/ ~stable[v].withdrawn /\ stable'[v].rows = stable[v].rows
<1>1. ListingInv(v) /\ WatchInv(v)
  BY DEF VisitInv
<1>2. Eligible(v)' = Eligible(v) /\ \A x : Rank(v, x)' = Rank(v, x)
  BY EligibleAlike DEF Moves
<1>3. Watching(v) /\ Watching(v)' /\ Kept(v)
  BY DEF Watching, Listing, Kept
<1>4. visit[v].kind # "locate"
  BY <1>1 DEF ListingInv, Queries
<1>5. Watched(v)' = Eligible(v)'
  BY <1>4 DEF Watched, Listing
<1>6. WatchInv(v)'
  BY <1>1, Remembering
<1>7. QED
  BY <1>1, <1>2, <1>3, <1>5, <1>6, Remembering DEF WatchInv

(* A page is read: what is still missing comes after it.                   *)
LEMMA ListPageKeeps ==
    ASSUME TypeOK, NEW v \in Visits, VisitInv(v), Remembers(v), ListPage(v)
    PROVE  Moves(v) /\ VisitInv(v)' /\ UNCHANGED booking
<1> DEFINE q == visit[v]
           open(r) == IF q.kind = "available" /\ r \in OnPage(v) THEN room[r].hours
                      ELSE q.hours[r]
           times == [r \in Rooms |-> open(r)]
           shown == q.listed \cup OnPage(v)
           row == [q EXCEPT !.pc = "total", !.listed = shown, !.hours = times]
           is == stable'[v]
<1>1. q.pc = "page" /\ UNCHANGED booking /\ q \in VisitRow /\ ListingInv(v)
  BY DEF ListPage, TypeOK, VisitsTypeOK, VisitInv
<1>2. Step(v, row)
  BY <1>1 DEF ListPage
<1>3. /\ OnPage(v) \subseteq Eligible(v)
      /\ Eligible(v) \subseteq (IF q.kind = "reservations" THEN Bookings ELSE Rooms)
  BY Fitting DEF OnPage, ListingsFit, TypeOK
<1>4. q.kind = "available" => \A r \in OnPage(v) : room[r] \in RoomRow /\ room[r].hours \in Hours
  BY <1>3 DEF Eligible, Visible, TypeOK, CatalogTypeOK, RoomRow
<1>5. /\ times \in [Rooms -> Hours \cup {None}]
      /\ q.kind = "available" => \A r \in shown : times[r] \in Hours
  <2>1. q.hours \in [Rooms -> Hours \cup {None}]
    BY <1>1 DEF VisitRow
  <2>2. times \in [Rooms -> Hours \cup {None}]
    BY <1>4, <2>1
  <2>3. ASSUME q.kind = "available", NEW r \in shown
        PROVE  times[r] \in Hours
    <3>1. r \in Rooms /\ (r \in q.listed => q.hours[r] \in Hours)
      BY <1>1, <1>3, <2>3 DEF ListingInv, Listing
    <3>2. QED
      BY <1>4, <2>3, <3>1
  <2>4. QED
    BY <2>2, <2>3
<1> HIDE DEF times, shown
<1>6. row \in VisitRow
  <2>1. q.listed \in SUBSET (Rooms \cup Seats \cup Bookings)
    BY <1>1 DEF VisitRow
  <2>2. shown \in SUBSET (Rooms \cup Seats \cup Bookings)
    BY <1>3, <2>1 DEF shown
  <2>3. QED
    BY <1>1, <1>5, <2>2, Zenon DEF VisitRow
<1>7. /\ row.pc = "total" /\ row.listed = shown /\ row.hours = times
      /\ row.kind = q.kind /\ row.user = q.user /\ row.page = q.page
  BY <1>1 DEF VisitRow
<1> HIDE DEF row
<1>8. Moves(v) /\ visit'[v] = row
  BY <1>2, <1>6, Stepping DEF TypeOK
<1>9. /\ WatchInv(v)' /\ Eligible(v)' = Eligible(v) /\ \A x : Rank(v, x)' = Rank(v, x)
      /\ is.rows \subseteq Eligible(v)
      /\ is.withdrawn \/ (~stable[v].withdrawn /\ is.rows = stable[v].rows)
  BY <1>1, <1>7, <1>8, StillListed DEF Listing
<1>10. ASSUME ~is.withdrawn, NEW x \in is.rows \ shown
       PROVE  q.page * PageSize <= Rank(v, x)
  <2>1. x \in stable[v].rows \ q.listed /\ ~stable[v].withdrawn /\ x \in Eligible(v)
    BY <1>9, <1>10 DEF shown
  <2>2. (q.page - 1) * PageSize <= Rank(v, x)
    BY <1>1, <2>1 DEF ListingInv
  <2>3. Rank(v, x) \div PageSize # q.page - 1
    BY <1>10, <2>1 DEF shown, OnPage, Rank
  <2>4. Rank(v, x) \in Nat
    BY Ranks DEF RanksFit, TypeOK
  <2>5. q.page \in Nat \ {0}
    <3>1. q.page \in 1..(MaxRooms + MaxBookings + 1)
      BY <1>1 DEF VisitRow
    <3>2. QED
      BY <3>1, Sizes
  <2>6. QED
    BY <2>2, <2>3, <2>4, <2>5, NextPage
<1>11. ListingInv(v)'
  <2>1. is.withdrawn \/ shown \subseteq Eligible(v)
    BY <1>1, <1>3, <1>9 DEF ListingInv, Listing, shown
  <2>2. shown \subseteq (IF q.kind = "reservations" THEN Bookings ELSE Rooms)
    BY <1>1, <1>3 DEF ListingInv, Listing, shown
  <2>3. is.withdrawn \/ \A x \in is.rows \ row.listed : row.page * PageSize <= Rank(v, x)'
    BY <1>7, <1>9, <1>10
  <2>4. QED
    BY <1>1, <1>5, <1>7, <1>8, <1>9, <2>1, <2>2, <2>3 DEF ListingInv, Listing
<1>12. QED
  BY <1>1, <1>7, <1>8, <1>9, <1>11, Elsewhere DEF VisitInv, ListingInv, Listing, Queries

LEMMA PageIsNat ==
    ASSUME TypeOK, NEW v \in Visits
    PROVE  visit[v].page \in Nat \ {0} /\ visit[v] \in VisitRow
<1>1. visit[v] \in VisitRow
  BY DEF TypeOK, VisitsTypeOK
<1>2. visit[v].page \in 1..(MaxRooms + MaxBookings + 1)
  BY <1>1 DEF VisitRow
<1>3. QED
  BY <1>1, <1>2, Sizes

(* When the last page has been read, nothing is missing.                   *)
LEMMA LastPage ==
    ASSUME TypeOK, NEW v \in Visits, VisitInv(v), visit[v].pc = "total",
           Covered(visit[v].page, Cardinality(Eligible(v))), ~stable[v].withdrawn
    PROVE  stable[v].rows \subseteq visit[v].listed
<1>1. SUFFICES ASSUME NEW x \in stable[v].rows \ visit[v].listed PROVE FALSE
  OBVIOUS
<1>2. visit[v].page * PageSize <= Rank(v, x)
  BY <1>1 DEF VisitInv, ListingInv
<1>3. x \in Eligible(v)
  <2>1. Watching(v) /\ Watched(v) = Eligible(v)
    BY DEF Watching, Watched, VisitInv, ListingInv, Listing, Queries
  <2>2. QED
    BY <1>1, <2>1 DEF VisitInv, WatchInv
<1>4. Rank(v, x) < Cardinality(Eligible(v)) /\ Rank(v, x) \in Nat
  BY <1>3, RankBelow, Ranks DEF RanksFit, TypeOK
<1>5. Cardinality(Eligible(v)) \in Nat
  BY Fitting, Sizes DEF ListingsFit, TypeOK
<1>6. visit[v].page * PageSize \in Nat
  BY PageIsNat, Sizes, Multiples
<1>7. QED
  BY <1>2, <1>4, <1>5, <1>6 DEF Covered

(* The total is read: there is another page, or nothing is missing.        *)
LEMMA CountTotalKeeps ==
    ASSUME TypeOK, NEW v \in Visits, VisitInv(v), Remembers(v), CountTotal(v)
    PROVE  Moves(v) /\ VisitInv(v)' /\ UNCHANGED booking
<1> DEFINE q == visit[v]
           is == stable'[v]
           total == Cardinality(Eligible(v))
           last == Covered(q.page, total)
<1>1. /\ q.pc = "total" /\ UNCHANGED booking /\ q \in VisitRow /\ q.page \in Nat \ {0}
      /\ ListingInv(v) /\ WatchInv(v)
      /\ q.kind \in Queries \cup {"reservations"} /\ q.user \in Students
  BY PageIsNat DEF CountTotal, VisitInv, ListingInv, Listing
<1>2. CASE ~last
  <2> DEFINE row == [q EXCEPT !.pc = "page", !.page = q.page + 1]
  <2>1. Step(v, row)
    BY <1>1, <1>2 DEF CountTotal
  <2>2. q.page + 1 \in 1..(MaxRooms + MaxBookings + 1)
    <3>1. total \in 0..(MaxRooms + MaxBookings)
      BY Fitting DEF ListingsFit, TypeOK
    <3>2. q.page <= q.page * PageSize /\ q.page * PageSize \in Nat
      BY <1>1, Sizes, Multiples
    <3>3. q.page * PageSize < total
      BY <1>2, <3>1, <3>2, Sizes DEF Covered
    <3> HIDE DEF total
    <3>4. QED
      BY <1>1, <3>1, <3>2, <3>3, Sizes
  <2>3. row \in VisitRow
    BY <1>1, <2>2, Zenon DEF VisitRow
  <2>4. /\ row.pc = "page" /\ row.page = q.page + 1 /\ row.listed = q.listed
        /\ row.hours = q.hours /\ row.kind = q.kind /\ row.user = q.user
    BY <1>1 DEF VisitRow
  <2> HIDE DEF row
  <2>5. Moves(v) /\ visit'[v] = row
    BY <2>1, <2>3, Stepping DEF TypeOK
  <2>6. /\ WatchInv(v)' /\ Eligible(v)' = Eligible(v) /\ \A x : Rank(v, x)' = Rank(v, x)
        /\ is.rows \subseteq Eligible(v)
        /\ is.withdrawn \/ (~stable[v].withdrawn /\ is.rows = stable[v].rows)
    BY <1>1, <2>4, <2>5, StillListed DEF Listing
  <2>7. row.page - 1 = q.page
    BY <1>1, <2>4
  <2>8. is.withdrawn \/ \A x \in is.rows \ row.listed : (row.page - 1) * PageSize <= Rank(v, x)'
    BY <1>1, <2>4, <2>6, <2>7 DEF ListingInv
  <2>9. ListingInv(v)'
    BY <1>1, <2>4, <2>5, <2>6, <2>8 DEF ListingInv, Listing
  <2>10. QED
    BY <1>1, <2>4, <2>5, <2>6, <2>9, Elsewhere DEF VisitInv, Listing, Queries
<1>3. CASE last /\ q.kind = "today"
  <2> DEFINE row == [q EXCEPT !.pc = "page", !.page = 1, !.kind = "reservations", !.listed = {}]
  <2>1. Step(v, row)
    BY <1>1, <1>3 DEF CountTotal
  <2>2. row \in VisitRow
    <3>1. "reservations" \in Kinds /\ 1 \in 1..(MaxRooms + MaxBookings + 1)
      BY Sizes DEF Kinds
    <3>2. {} \in SUBSET (Rooms \cup Seats \cup Bookings)
      OBVIOUS
    <3>3. QED
      BY <1>1, <3>1, <3>2, Zenon DEF VisitRow
  <2>3. /\ row.pc = "page" /\ row.page = 1 /\ row.listed = {}
        /\ row.kind = "reservations" /\ row.user = q.user
    BY <1>1 DEF VisitRow
  <2>4. Moves(v) /\ visit'[v] = row
    BY <2>1, <2>2, Stepping DEF TypeOK
  <2> HIDE DEF row
  <2>5. WatchInv(v)'
    BY <1>1, Remembering
  <2>6. \A x : (row.page - 1) * PageSize <= Rank(v, x)'
    <3>1. \A x : Rank(v, x)' \in Nat
      BY <1>1, <2>4, FitAfter DEF RanksFit
    <3>2. (1 - 1) * PageSize = 0
      BY Sizes
    <3>3. QED
      BY <2>3, <3>1, <3>2
  <2>7. ListingInv(v)'
    BY <1>1, <2>3, <2>4, <2>6 DEF ListingInv
  <2>8. QED
    BY <1>1, <2>3, <2>4, <2>5, <2>7, Elsewhere DEF VisitInv
<1>4. CASE last /\ q.kind = "reservations"
  <2> DEFINE row == [Quiet EXCEPT !.pc = "done", !.kind = "reservations", !.listed = q.listed]
  <2>1. Step(v, row)
    BY <1>1, <1>4 DEF CountTotal
  <2>2. row \in VisitRow
    <3>1. Quiet \in VisitRow /\ "reservations" \in Kinds
      BY QuietRow DEF Kinds
    <3>2. q.listed \in SUBSET (Rooms \cup Seats \cup Bookings)
      BY <1>1 DEF VisitRow
    <3>3. QED
      BY <3>1, <3>2, Zenon DEF VisitRow
  <2>3. row.pc = "done" /\ row.kind = "reservations" /\ row.listed = q.listed
    BY QuietRow DEF VisitRow
  <2>4. Moves(v) /\ visit'[v] = row
    BY <2>1, <2>2, Stepping DEF TypeOK
  <2> HIDE DEF row
  <2>5. ~Watching(v)'
    BY <2>3, <2>4 DEF Watching, At
  <2>6. WatchInv(v)' /\ is.rows = stable[v].rows /\ is.withdrawn = stable[v].withdrawn
    BY <1>1, <2>5, Remembering
  <2>7. ListingInv(v)'
    BY <1>1, <1>4, <2>3, <2>4, <2>6, LastPage DEF ListingInv, Listing
  <2>8. QED
    BY <1>1, <2>3, <2>4, <2>6, <2>7, Elsewhere DEF VisitInv
<1>5. CASE last /\ q.kind \in {"available", "attributes"}
  <2> DEFINE row == [q EXCEPT !.pc = "ask"]
  <2>1. Step(v, row)
    BY <1>1, <1>5 DEF CountTotal
  <2>2. row \in VisitRow
    BY <1>1, Zenon DEF VisitRow
  <2>3. /\ row.pc = "ask" /\ row.listed = q.listed /\ row.hours = q.hours
        /\ row.kind = q.kind /\ row.user = q.user
    BY <1>1 DEF VisitRow
  <2> HIDE DEF row
  <2>4. Moves(v) /\ visit'[v] = row
    BY <2>1, <2>2, Stepping DEF TypeOK
  <2>5. /\ WatchInv(v)' /\ Eligible(v)' = Eligible(v) /\ is.rows \subseteq Eligible(v)
        /\ is.withdrawn \/ (~stable[v].withdrawn /\ is.rows = stable[v].rows)
    BY <1>1, <2>3, <2>4, StillListed DEF Listing
  <2>6. is.withdrawn \/ is.rows \subseteq row.listed
    BY <1>1, <1>5, <2>3, <2>5, LastPage
  <2>7. ListingInv(v)'
    BY <1>1, <1>5, <2>3, <2>4, <2>5, <2>6 DEF ListingInv, Listing
  <2>8. QED
    BY <1>1, <1>5, <2>3, <2>4, <2>5, <2>7, Elsewhere DEF VisitInv
<1>6. QED
  BY <1>1, <1>2, <1>3, <1>4, <1>5 DEF Queries

-----------------------------------------------------------------------------
(* What is asked of each room listed.                                      *)
LEMMA NextRoomIs ==
    ASSUME TypeOK, NEW v \in Visits, VisitInv(v), visit[v].pc = "ask"
    PROVE  /\ visit[v].kind \in {"available", "attributes", "codes"}
           /\ visit[v].listed \subseteq Rooms
           /\ NextRoom(v) # None => NextRoom(v) \in visit[v].listed \cap Rooms
<1> DEFINE left == visit[v].listed \ visit[v].among
<1>1. /\ visit[v].kind \in {"available", "attributes", "codes"}
      /\ visit[v].listed \subseteq Rooms
  BY DEF VisitInv, ListingInv, Listing
<1>2. left \in SUBSET (1..MaxRooms)
  BY <1>1 DEF Rooms
<1>3. NextRoom(v) = IF left = {} THEN None ELSE CHOOSE r \in left : \A o \in left : r <= o
  BY DEF NextRoom
<1> HIDE DEF left
<1>4. NextRoom(v) # None => NextRoom(v) \in left
  BY <1>2, <1>3, Sizes, LeastId
<1>5. QED
  BY <1>1, <1>4 DEF left

(* A room that is not seen any more was withdrawn.                         *)
LEMMA AskedInVain ==
    ASSUME TypeOK, NEW v \in Visits, VisitInv(v), Remembers(v), Close(v, "refused"),
           visit[v].pc \in {"ask", "asked"}, NEW r \in visit[v].listed, r \notin Eligible(v)
    PROVE  Moves(v) /\ VisitInv(v)'
<1>1. Moves(v) /\ visit'[v].pc = "refused" /\ visit'[v].kind = visit[v].kind
  BY Closed DEF TypeOK
<1>2. ~Watching(v)'
  BY <1>1 DEF Watching, At
<1>3. WatchInv(v)' /\ stable'[v].withdrawn = stable[v].withdrawn
  BY <1>2, Remembering DEF VisitInv
<1>4. stable[v].withdrawn /\ visit[v].kind \in {"available", "attributes", "codes"}
  BY DEF VisitInv, ListingInv, Listing
<1>5. ListingInv(v)'
  BY <1>1, <1>3, <1>4 DEF ListingInv, Listing
<1>6. QED
  BY <1>1, <1>3, <1>4, <1>5, Elsewhere DEF VisitInv

LEMMA AllAskedKeeps ==
    ASSUME TypeOK, NEW v \in Visits, VisitInv(v), Remembers(v), AllAsked(v)
    PROVE  Moves(v) /\ VisitInv(v)' /\ UNCHANGED booking
<1> DEFINE q == visit[v]
           row == [Quiet EXCEPT !.pc = "done", !.kind = q.kind, !.listed = q.listed]
<1>1. q.pc = "ask" /\ UNCHANGED booking /\ Step(v, row) /\ q \in VisitRow /\ WatchInv(v)
  BY PageIsNat DEF AllAsked, VisitInv
<1>2. q.kind \in {"available", "attributes", "codes"}
  BY <1>1, NextRoomIs
<1>3. row \in VisitRow
  <2>1. Quiet \in VisitRow /\ q.kind \in Kinds
    BY <1>2, QuietRow DEF Kinds, Queries
  <2>2. q.listed \in SUBSET (Rooms \cup Seats \cup Bookings)
    BY <1>1 DEF VisitRow
  <2>3. QED
    BY <2>1, <2>2, Zenon DEF VisitRow
<1>4. row.pc = "done" /\ row.kind = q.kind /\ row.listed = q.listed
  BY QuietRow DEF VisitRow
<1>5. Moves(v) /\ visit'[v] = row
  BY <1>1, <1>3, Stepping DEF TypeOK
<1> HIDE DEF row
<1>6. ~Watching(v)'
  BY <1>2, <1>4, <1>5 DEF Watching, At
<1>7. /\ WatchInv(v)' /\ stable'[v].rows = stable[v].rows
      /\ stable'[v].withdrawn = stable[v].withdrawn
  BY <1>1, <1>6, Remembering
<1>8. ListingInv(v)'
  BY <1>1, <1>4, <1>5, <1>7 DEF ListingInv, Listing, VisitInv
<1>9. QED
  BY <1>1, <1>2, <1>4, <1>5, <1>7, <1>8, Elsewhere DEF VisitInv

LEMMA SeatsOfKeeps ==
    ASSUME TypeOK, NEW v \in Visits, VisitInv(v), Remembers(v),
           visit[v].pc \in {"ask", "asked"}, visit[v].kind \in {"available", "attributes"},
           NEW r \in visit[v].listed \cap Rooms, NEW offered \in SUBSET Seats,
           SeatsOf(v, r, offered)
    PROVE  Moves(v) /\ VisitInv(v)' /\ UNCHANGED booking
<1> DEFINE q == visit[v]
           row == [q EXCEPT !.pc = "ask", !.among = q.among \cup {r}, !.held = {},
                            !.room = None, !.window = None, !.offered = q.offered \cup offered]
           is == stable'[v]
<1>1. UNCHANGED booking /\ q \in VisitRow /\ ListingInv(v)
  BY PageIsNat DEF SeatsOf, VisitInv
<1>2. CASE ~Visible(r, q.user)
  <2>1. r \notin Eligible(v) /\ Close(v, "refused")
    BY <1>2 DEF Eligible, SeatsOf
  <2>2. QED
    BY <1>1, <2>1, AskedInVain
<1>3. CASE Visible(r, q.user)
  <2>1. Step(v, row)
    BY <1>3 DEF SeatsOf
  <2>2. row \in VisitRow
    <3>1. q.among \in SUBSET Rooms /\ q.offered \in SUBSET Seats
      BY <1>1 DEF VisitRow
    <3>2. /\ q.among \cup {r} \in SUBSET Rooms /\ q.offered \cup offered \in SUBSET Seats
          /\ {} \in SUBSET Seats
      BY <3>1
    <3>3. QED
      BY <1>1, <3>2, Zenon DEF VisitRow
  <2>3. /\ row.pc = "ask" /\ row.listed = q.listed /\ row.hours = q.hours
        /\ row.kind = q.kind /\ row.user = q.user
    BY <1>1 DEF VisitRow
  <2>4. Moves(v) /\ visit'[v] = row
    BY <2>1, <2>2, Stepping DEF TypeOK
  <2> HIDE DEF row
  <2>5. /\ WatchInv(v)' /\ Eligible(v)' = Eligible(v)
        /\ is.withdrawn \/ (~stable[v].withdrawn /\ is.rows = stable[v].rows)
    BY <1>1, <2>3, <2>4, StillListed DEF Listing
  <2>6. ListingInv(v)'
    BY <1>1, <2>3, <2>4, <2>5 DEF ListingInv, Listing
  <2>7. QED
    BY <1>1, <2>3, <2>4, <2>5, <2>6, Elsewhere DEF VisitInv
<1>4. QED
  BY <1>2, <1>3

LEMMA CodeOfRoomKeeps ==
    ASSUME TypeOK, NEW v \in Visits, VisitInv(v), Remembers(v), CodeOfRoom(v)
    PROVE  Moves(v) /\ VisitInv(v)' /\ UNCHANGED booking
<1> DEFINE q == visit[v]
           r == NextRoom(v)
           row == [q EXCEPT !.among = q.among \cup {r}]
           is == stable'[v]
<1>1. /\ UNCHANGED booking /\ q \in VisitRow /\ ListingInv(v) /\ q.pc = "ask"
      /\ q.kind = "codes" /\ r \in q.listed /\ r \in Rooms
  BY PageIsNat, NextRoomIs DEF CodeOfRoom, At, VisitInv
<1>2. CASE r \notin RoomsInUse
  <2>1. r \notin Eligible(v) /\ Close(v, "refused")
    BY <1>1, <1>2 DEF Eligible, CodeOfRoom
  <2>2. QED
    BY <1>1, <2>1, AskedInVain
<1>3. CASE r \in RoomsInUse
  <2>1. Step(v, row)
    BY <1>3 DEF CodeOfRoom
  <2> HIDE DEF r
  <2>2. row \in VisitRow
    <3>1. q.among \in SUBSET Rooms
      BY <1>1 DEF VisitRow
    <3>2. q.among \cup {r} \in SUBSET Rooms
      BY <1>1, <3>1
    <3>3. QED
      BY <1>1, <3>2, Zenon DEF VisitRow
  <2>3. /\ row.pc = "ask" /\ row.listed = q.listed /\ row.hours = q.hours
        /\ row.kind = q.kind /\ row.user = q.user
    BY <1>1 DEF VisitRow
  <2>4. Moves(v) /\ visit'[v] = row
    BY <2>1, <2>2, Stepping DEF TypeOK
  <2> HIDE DEF row
  <2>5. /\ WatchInv(v)' /\ Eligible(v)' = Eligible(v)
        /\ is.withdrawn \/ (~stable[v].withdrawn /\ is.rows = stable[v].rows)
    BY <1>1, <2>3, <2>4, StillListed DEF Listing
  <2>6. ListingInv(v)'
    BY <1>1, <2>3, <2>4, <2>5 DEF ListingInv, Listing
  <2>7. QED
    BY <1>1, <2>3, <2>4, <2>5, <2>6, Elsewhere DEF VisitInv
<1>4. QED
  BY <1>2, <1>3

LEMMA AsksSeatsKeeps ==
    ASSUME TypeOK, NEW v \in Visits, VisitInv(v), Remembers(v),
           AskFreeSeats(v) \/ AskSeatAttributes(v)
    PROVE  Moves(v) /\ VisitInv(v)' /\ UNCHANGED booking
<1>1. CASE AskFreeSeats(v)
  <2> DEFINE r == visit[v].room
             free == SeatsShown(r) \ visit[v].held
  <2>1. visit[v].pc = "asked" /\ visit[v].kind = "available" /\ SeatsOf(v, r, free)
    BY <1>1 DEF AskFreeSeats, At
  <2>2. r \in visit[v].listed \cap Rooms
    BY <2>1 DEF VisitInv, HeldInv
  <2>3. free \in SUBSET Seats
    BY DEF SeatsShown
  <2> HIDE DEF r, free
  <2>4. QED
    BY <2>1, <2>2, <2>3, SeatsOfKeeps
<1>2. CASE AskSeatAttributes(v)
  <2> DEFINE r == NextRoom(v)
  <2>1. /\ visit[v].pc = "ask" /\ visit[v].kind = "attributes" /\ r # None
        /\ SeatsOf(v, r, {})
    BY <1>2 DEF AskSeatAttributes, At
  <2>2. r \in visit[v].listed \cap Rooms
    BY <2>1, NextRoomIs
  <2> HIDE DEF r
  <2>3. {} \in SUBSET Seats
    OBVIOUS
  <2>4. QED
    BY <2>1, <2>2, <2>3, SeatsOfKeeps
<1>3. QED
  BY <1>1, <1>2

(* Who holds a seat is read, or the room is passed over.                   *)
LEMMA AskOccupiedKeeps ==
    ASSUME TypeOK, NEW v \in Visits, VisitInv(v), Remembers(v), AskOccupied(v)
    PROVE  Moves(v) /\ VisitInv(v)' /\ UNCHANGED booking
<1> DEFINE q == visit[v]
           r == NextRoom(v)
           tonight == Tonight(q.hours[r])
           on == [q EXCEPT !.among = q.among \cup {r}]
           row == [q EXCEPT !.pc = "asked", !.room = r, !.window = tonight,
                            !.held = Occupied(r, tonight)]
           is == stable'[v]
<1>1. /\ UNCHANGED booking /\ q \in VisitRow /\ ListingInv(v) /\ q.pc = "ask"
      /\ q.kind = "available" /\ r \in q.listed /\ r \in Rooms
  BY PageIsNat, NextRoomIs DEF AskOccupied, At, VisitInv
<1>2. Step(v, on) \/ Step(v, row)
  BY DEF AskOccupied
<1>3. q.hours[r] \in Hours
  BY <1>1 DEF ListingInv, Listing
<1>4. tonight \in Windows \cup {Tonight(h) : h \in Hours} \cup {None}
  BY <1>3
<1>5. Occupied(r, tonight) \in SUBSET Seats
  BY DEF Occupied, Made, TypeOK, VisitsTypeOK, BookingRow
<1> HIDE DEF r, tonight
<1>6. CASE Step(v, on)
  <2>1. on \in VisitRow
    <3>1. q.among \in SUBSET Rooms
      BY <1>1 DEF VisitRow
    <3>2. q.among \cup {r} \in SUBSET Rooms
      BY <1>1, <3>1
    <3>3. QED
      BY <1>1, <3>2, Zenon DEF VisitRow
  <2>2. /\ on.pc = "ask" /\ on.listed = q.listed /\ on.hours = q.hours
        /\ on.kind = q.kind /\ on.user = q.user
    BY <1>1 DEF VisitRow
  <2>3. Moves(v) /\ visit'[v] = on
    BY <1>6, <2>1, Stepping DEF TypeOK
  <2> HIDE DEF on
  <2>4. /\ WatchInv(v)' /\ Eligible(v)' = Eligible(v)
        /\ is.withdrawn \/ (~stable[v].withdrawn /\ is.rows = stable[v].rows)
    BY <1>1, <2>2, <2>3, StillListed DEF Listing
  <2>5. ListingInv(v)'
    BY <1>1, <2>2, <2>3, <2>4 DEF ListingInv, Listing
  <2>6. QED
    BY <1>1, <2>2, <2>3, <2>4, <2>5, Elsewhere DEF VisitInv
<1>7. CASE Step(v, row)
  <2>1. row \in VisitRow
    BY <1>1, <1>4, <1>5, Zenon DEF VisitRow
  <2>2. /\ row.pc = "asked" /\ row.listed = q.listed /\ row.hours = q.hours
        /\ row.kind = q.kind /\ row.user = q.user /\ row.room = r
        /\ row.window = tonight /\ row.held = Occupied(r, tonight)
    BY <1>1 DEF VisitRow
  <2>3. Moves(v) /\ visit'[v] = row
    BY <1>7, <2>1, Stepping DEF TypeOK
  <2> HIDE DEF row
  <2>4. /\ WatchInv(v)' /\ Eligible(v)' = Eligible(v) /\ Kept(v) /\ Watching(v)'
        /\ is.withdrawn \/ (~stable[v].withdrawn /\ is.rows = stable[v].rows)
    BY <1>1, <2>2, <2>3, StillListed DEF Listing
  <2>5. ListingInv(v)'
    BY <1>1, <2>2, <2>3, <2>4 DEF ListingInv, Listing
  <2>6. At(v, "available", "asked")' /\ ~At(v, "available", "asked")
    BY <1>1, <2>2, <2>3 DEF At
  <2>7. is.made = Made /\ Made' = Made
    BY <1>1, <2>4, <2>6 DEF Remembers, Made
  <2>8. \A b \in Made : /\ Holding(b) /\ booking[b].room = row.room
                          /\ Meets(booking[b].window, row.window)
                        => booking[b].seat \in row.held
    BY <2>2 DEF Occupied
  <2>9. \A b : Holding(b)' <=> Holding(b)
    BY <1>1 DEF Holding
  <2>10. HeldInv(v)'
    BY <1>1, <2>2, <2>3, <2>7, <2>8, <2>9 DEF HeldInv
  <2>11. QED
    BY <1>1, <2>2, <2>3, <2>4, <2>5, <2>10, Elsewhere DEF VisitInv
<1>8. QED
  BY <1>2, <1>6, <1>7

-----------------------------------------------------------------------------
(* The statistics page.                                                    *)
LEMMA StatisticsReadKeeps ==
    ASSUME TypeOK, NEW v \in Visits, VisitInv(v), Remembers(v),
           StatisticsRooms(v) \/ StatisticsSeats(v)
    PROVE  Moves(v) /\ VisitInv(v)' /\ UNCHANGED booking
<1> DEFINE q == visit[v]
<1>1. UNCHANGED booking /\ q \in VisitRow /\ WatchInv(v)
  BY PageIsNat DEF StatisticsRooms, StatisticsSeats, VisitInv
<1>2. WatchInv(v)'
  BY <1>1, Remembering
<1>3. CASE StatisticsRooms(v)
  <2> DEFINE row == [Quiet EXCEPT !.pc = "seats", !.kind = "statistics", !.among = RoomsInUse]
  <2>1. Step(v, row)
    BY <1>3 DEF StatisticsRooms
  <2>2. row \in VisitRow
    <3>1. Quiet \in VisitRow /\ "statistics" \in Kinds /\ RoomsInUse \in SUBSET Rooms
      BY QuietRow DEF Kinds, RoomsInUse
    <3>2. QED
      BY <3>1, Zenon DEF VisitRow
  <2>3. row.pc = "seats" /\ row.kind = "statistics"
    BY QuietRow DEF VisitRow
  <2> HIDE DEF row
  <2>4. Moves(v) /\ visit'[v] = row
    BY <2>1, <2>2, Stepping DEF TypeOK, row
  <2>5. QED
    BY <1>1, <1>2, <2>3, <2>4, Elsewhere DEF VisitInv, Listing
<1>4. CASE StatisticsSeats(v)
  <2> DEFINE shown == UNION {SeatsShown(r) : r \in RoomsInUse}
             row == [q EXCEPT !.pc = "violations", !.listed = shown]
  <2>1. Step(v, row) /\ q.kind = "statistics"
    BY <1>4 DEF StatisticsSeats, At
  <2>2. shown \in SUBSET (Rooms \cup Seats \cup Bookings)
    BY DEF SeatsShown
  <2> HIDE DEF shown
  <2>3. row \in VisitRow
    BY <1>1, <2>2, Zenon DEF VisitRow
  <2>4. row.pc = "violations" /\ row.kind = "statistics"
    BY <1>1, <2>1 DEF VisitRow
  <2>5. Moves(v) /\ visit'[v] = row
    BY <2>1, <2>3, Stepping DEF TypeOK
  <2> HIDE DEF row
  <2>6. StatisticsInv(v)'
    BY <2>4, <2>5 DEF StatisticsInv, At
  <2>7. QED
    BY <1>1, <1>2, <2>4, <2>5, <2>6, Elsewhere DEF VisitInv, Listing
<1>5. QED
  BY <1>3, <1>4

(* What is missed is past due, or it has been cancelled since.             *)
LEMMA MissedArePastDue ==
    ASSUME TypeOK, \A b \in Bookings : BookingInv(b), NEW v \in Visits
    PROVE  LET missed == {b \in InScope(v) : booking[b].missed}
               lost == {b \in missed : booking[b].status = "CANCELLED"}
           IN  /\ CountMissed(v) = Cardinality(missed)
               /\ CountMissed(v) \in 0..MaxBookings /\ CountPastDue(v) \in 0..MaxBookings
               /\ Cardinality(lost) \in Nat
               /\ CountMissed(v) <= CountPastDue(v) + Cardinality(lost)
<1> DEFINE missed == {b \in InScope(v) : booking[b].missed}
           lost == {b \in missed : booking[b].status = "CANCELLED"}
           due == {b \in InScope(v) : booking[b].status \in {"CHECKED_IN", "EXPIRED"}}
<1>1. missed \subseteq due \cup lost
  BY DEF InScope, Made, BookingInv
<1>2. missed \subseteq Bookings /\ due \subseteq Bookings /\ lost \subseteq Bookings
  BY DEF InScope, Made
<1> HIDE DEF missed, due, lost
<1>3. /\ IsFiniteSet(missed) /\ Cardinality(missed) \in Nat /\ Cardinality(missed) <= MaxBookings
      /\ IsFiniteSet(due) /\ Cardinality(due) \in Nat /\ Cardinality(due) <= MaxBookings
      /\ IsFiniteSet(lost) /\ Cardinality(lost) \in Nat
  BY <1>2, MadeIsFinite
<1>4. IsFiniteSet(due \cup lost) /\ Cardinality(due \cup lost) \in Nat
      /\ Cardinality(due \cup lost) <= Cardinality(due) + Cardinality(lost)
  <2>1. IsFiniteSet(due \cap lost) /\ Cardinality(due \cap lost) \in Nat
    BY <1>3, FS_Intersection, FS_CardinalityType
  <2>2. /\ IsFiniteSet(due \cup lost)
        /\ Cardinality(due \cup lost)
              = Cardinality(due) + Cardinality(lost) - Cardinality(due \cap lost)
    BY <1>3, FS_Union
  <2>3. Cardinality(due \cup lost) \in Nat
    BY <2>2, FS_CardinalityType
  <2>4. QED
    BY <1>3, <2>1, <2>2, <2>3
<1>5. Cardinality(missed) <= Cardinality(due \cup lost)
  BY <1>1, <1>4, FS_Subset
<1>6. Cardinality(missed) <= Cardinality(due) + Cardinality(lost)
  BY <1>3, <1>4, <1>5
<1>7. CountMissed(v) = Cardinality(missed) /\ CountPastDue(v) = Cardinality(due)
  BY DEF CountMissed, CountPastDue, missed, due
<1>8. CountMissed(v) \in 0..MaxBookings /\ CountPastDue(v) \in 0..MaxBookings
  BY <1>3, <1>7, Sizes
<1>9. QED
  BY <1>3, <1>6, <1>7, <1>8 DEF missed, lost

LEMMA StatisticsCountsKeeps ==
    ASSUME TypeOK, \A b \in Bookings : BookingInv(b), NEW v \in Visits, VisitInv(v),
           Remembers(v), StatisticsCounts(v)
    PROVE  Moves(v) /\ VisitInv(v)' /\ UNCHANGED booking
<1> DEFINE q == visit[v]
           missed == {b \in InScope(v) : booking[b].missed}
           lost == {b \in missed : booking[b].status = "CANCELLED"}
<1>1. UNCHANGED booking /\ q \in VisitRow /\ WatchInv(v) /\ StatisticsInv(v)
  BY PageIsNat DEF StatisticsCounts, VisitInv
<1>2. WatchInv(v)'
  BY <1>1, Remembering
<1>3. /\ CountMissed(v) = Cardinality(missed)
      /\ CountMissed(v) \in 0..MaxBookings /\ CountPastDue(v) \in 0..MaxBookings
      /\ Cardinality(lost) \in Nat
      /\ CountMissed(v) <= CountPastDue(v) + Cardinality(lost)
  BY MissedArePastDue
<1>4. ASSUME visit'[v].among = q.among, visit'[v].listed = q.listed
      PROVE  missed' = missed /\ lost' = lost
  <2>1. InScope(v)' = InScope(v)
    BY <1>1, <1>4 DEF InScope, Made
  <2>2. QED
    BY <1>1, <2>1
<1>5. CASE q.pc = "violations"
  <2> DEFINE row == [q EXCEPT !.pc = "denominator", !.violations = CountMissed(v)]
  <2>1. Step(v, row) /\ q.kind = "statistics"
    BY <1>5 DEF StatisticsCounts, At
  <2>2. row \in VisitRow
    BY <1>1, <1>3, Zenon DEF VisitRow
  <2>3. /\ row.pc = "denominator" /\ row.kind = "statistics"
        /\ row.violations = Cardinality(missed)
        /\ row.among = q.among /\ row.listed = q.listed
    BY <1>1, <1>3, <2>1 DEF VisitRow
  <2>4. Moves(v) /\ visit'[v] = row
    BY <2>1, <2>2, Stepping DEF TypeOK
  <2> HIDE DEF row
  <2>5. missed' = missed
    BY <1>4, <2>3, <2>4
  <2>6. StatisticsInv(v)'
    <3>1. Cardinality(missed) \in 0..MaxBookings
      BY <1>3
    <3>2. row.violations <= Cardinality(missed)
      BY <2>3, <3>1, Sizes
    <3>3. row.violations <= Cardinality(missed')
      BY <2>5, <3>2, Zenon
    <3>4. QED
      BY <2>3, <2>4, <3>3 DEF StatisticsInv, At
  <2>7. QED
    BY <1>1, <1>2, <2>3, <2>4, <2>6, Elsewhere DEF VisitInv, Listing
<1>6. CASE q.pc = "denominator"
  <2> DEFINE row == [q EXCEPT !.pc = "done", !.denominator = CountPastDue(v)]
  <2>1. Step(v, row) /\ q.kind = "statistics"
    BY <1>6 DEF StatisticsCounts, At
  <2>2. row \in VisitRow
    BY <1>1, <1>3, Zenon DEF VisitRow
  <2>3. /\ row.pc = "done" /\ row.kind = "statistics" /\ row.violations = q.violations
        /\ row.denominator = CountPastDue(v)
        /\ row.among = q.among /\ row.listed = q.listed
    BY <1>1, <2>1 DEF VisitRow
  <2>4. Moves(v) /\ visit'[v] = row
    BY <2>1, <2>2, Stepping DEF TypeOK
  <2>5. q.violations \in 0..MaxBookings
    BY <1>1 DEF VisitRow
  <2> HIDE DEF row
  <2>6. lost' = lost
    BY <1>4, <2>3, <2>4
  <2>7. row.violations <= row.denominator + Cardinality(lost)
    <3>1. q.violations <= CountMissed(v)
      BY <1>1, <1>3, <1>6, <2>1 DEF StatisticsInv, At
    <3> HIDE DEF lost
    <3>2. QED
      BY <1>3, <2>3, <2>5, <3>1, Sizes
  <2>8. StatisticsInv(v)'
    BY <2>3, <2>4, <2>6, <2>7 DEF StatisticsInv, At
  <2>9. QED
    BY <1>1, <1>2, <2>3, <2>4, <2>8, Elsewhere DEF VisitInv, Listing
<1>7. QED
  BY <1>5, <1>6 DEF StatisticsCounts, At

-----------------------------------------------------------------------------
(* The search for an account.                                              *)
LEMMA OneAccount ==
    ASSUME NEW n
    PROVE  /\ \A u, o \in WithId(n) : u = o
           /\ \A u, o \in WithNumber(n) : u = o
           /\ WithId(n) \subseteq Students /\ WithNumber(n) \subseteq Students
           /\ None \notin Students
BY CatalogAssumption, VisitAssumption DEF WithId, WithNumber

LEMMA LocateByIdKeeps ==
    ASSUME TypeOK, NEW v \in Visits, Remembers(v), WatchInv(v), LocateById(v)
    PROVE  Moves(v) /\ VisitInv(v)' /\ UNCHANGED booking
<1> DEFINE start(typed) == [Quiet EXCEPT !.kind = "locate", !.typed = typed]
           users(typed) == IF typed.prefix = "student:" THEN WithNumber(typed.value)
                           ELSE WithId(typed.value)
           first(typed) == IF users(typed) = {} THEN None ELSE CHOOSE u \in users(typed) : TRUE
           none == [Quiet EXCEPT !.kind = "locate", !.pc = "refused"]
<1>1. PICK typed \in Typed :
         Step(v, CASE typed.prefix = "" ->
                        [start(typed) EXCEPT !.pc = "byNumber", !.user = first(typed)]
                   [] typed.prefix # "" /\ users(typed) # {} ->
                        [start(typed) EXCEPT !.pc = "done", !.user = first(typed)]
                   [] OTHER -> none)
  BY DEF LocateById
<1>2. UNCHANGED booking /\ WatchInv(v)'
  BY Remembering DEF LocateById
<1> DEFINE f == first(typed)
           found == [start(typed) EXCEPT !.pc = "done", !.user = f]
           further == [start(typed) EXCEPT !.pc = "byNumber", !.user = f]
<1>3. /\ users(typed) = {} => f = None
      /\ users(typed) # {} => f \in users(typed)
      /\ users(typed) \subseteq Students /\ f \in Students \cup {None}
  BY OneAccount
<1>4. /\ typed.prefix \in {"", "id:", "student:"}
      /\ typed.prefix = "" => users(typed) = WithId(typed.value)
      /\ users(typed) \subseteq Matches(typed)
  BY VisitAssumption DEF Matches
<1>5. start(typed) \in VisitRow
  <2>1. Quiet \in VisitRow /\ "locate" \in Kinds
    BY QuietRow DEF Kinds
  <2>2. QED
    BY <2>1, Zenon DEF VisitRow
<1>6. start(typed).kind = "locate" /\ start(typed).typed = typed
  BY QuietRow DEF VisitRow
<1>7. \/ Step(v, further) /\ typed.prefix = ""
      \/ Step(v, found) /\ users(typed) # {} /\ typed.prefix # ""
      \/ Step(v, none)
  BY <1>1
<1> HIDE DEF start, users, f
<1>8. CASE Step(v, further) /\ typed.prefix = ""
  <2>1. further \in VisitRow
    BY <1>3, <1>5, Zenon DEF VisitRow
  <2>2. /\ further.pc = "byNumber" /\ further.kind = "locate" /\ further.user = f
        /\ further.typed = typed
    BY <1>5, <1>6 DEF VisitRow
  <2>3. Moves(v) /\ visit'[v] = further
    BY <1>8, <2>1, Stepping DEF TypeOK
  <2> HIDE DEF further
  <2>4. WithId(typed.value)' = WithId(typed.value)
    BY <2>3, SeenAlike DEF Moves
  <2>5. f = None \/ f \in WithId(typed.value)
    BY <1>3, <1>4, <1>8
  <2>6. WithId(typed.value) \cap stable'[v].rows \subseteq {f}
    <3>1. \A u, o \in WithId(typed.value) : u = o
      BY OneAccount
    <3>2. WithId(typed.value) # {} => f \in WithId(typed.value)
      BY <1>3, <1>4, <1>8
    <3>3. QED
      BY <3>1, <3>2
  <2>7. LocateInv(v)'
    BY <1>8, <2>2, <2>3, <2>4, <2>5, <2>6 DEF LocateInv, At
  <2>8. QED
    BY <1>2, <2>2, <2>3, <2>7, Elsewhere DEF VisitInv, Listing
<1>9. CASE Step(v, found) /\ users(typed) # {} /\ typed.prefix # ""
  <2>1. found \in VisitRow
    BY <1>3, <1>5, Zenon DEF VisitRow
  <2>2. /\ found.pc = "done" /\ found.kind = "locate" /\ found.user = f
        /\ found.typed = typed
    BY <1>5, <1>6 DEF VisitRow
  <2>3. Moves(v) /\ visit'[v] = found
    BY <1>9, <2>1, Stepping DEF TypeOK
  <2> HIDE DEF found
  <2>4. f \in Matches(typed)
    BY <1>3, <1>4, <1>9
  <2>5. LocateInv(v)'
    BY <1>9, <2>2, <2>3, <2>4, SeenAlike DEF LocateInv, At, Moves
  <2>6. QED
    BY <1>2, <2>2, <2>3, <2>5, Elsewhere DEF VisitInv, Listing
<1>10. CASE Step(v, none)
  <2>1. none \in VisitRow
    <3>1. Quiet \in VisitRow /\ "locate" \in Kinds
      BY QuietRow DEF Kinds
    <3>2. QED
      BY <3>1, Zenon DEF VisitRow
  <2>2. none.pc = "refused" /\ none.kind = "locate"
    BY QuietRow DEF VisitRow
  <2>3. Moves(v) /\ visit'[v] = none
    BY <1>10, <2>1, Stepping DEF TypeOK
  <2> HIDE DEF none
  <2>4. QED
    BY <1>2, <2>2, <2>3, Elsewhere DEF VisitInv, Listing
<1>11. QED
  BY <1>7, <1>8, <1>9, <1>10

(* A set of no more than one element.                                      *)
LEMMA Sole ==
    ASSUME NEW S, IsFiniteSet(S), S # {}, ~(Cardinality(S) > 1), NEW u \in S
    PROVE  S = {u}
<1>1. Cardinality(S) \in Nat /\ Cardinality(S) # 0
  BY FS_CardinalityType, FS_EmptySet
<1>2. Cardinality(S) = 1
  BY <1>1
<1>3. QED
  BY <1>2, FS_Singleton

(* What a lookup that ends with an account remembers.                      *)
LEMMA FoundKeeps ==
    ASSUME TypeOK, NEW v \in Visits, VisitInv(v), Remembers(v),
           visit[v].pc \in {"byNumber", "again"}, NEW users \in SUBSET Students, Found(v, users),
           \A u \in users : /\ u \in Matches(visit[v].typed)
                            /\ stable[v].rows \subseteq {u}
    PROVE  Moves(v) /\ VisitInv(v)'
<1> DEFINE q == visit[v]
<1>1. q \in VisitRow /\ WatchInv(v) /\ q.kind = "locate"
  BY PageIsNat DEF VisitInv, LocateInv
<1>2. PICK u \in users : Step(v, [q EXCEPT !.pc = "done", !.user = u])
  BY DEF Found
<1> DEFINE row == [q EXCEPT !.pc = "done", !.user = u]
<1>3. row \in VisitRow
  <2>1. u \in Students
    OBVIOUS
  <2>2. QED
    BY <1>1, <2>1, Zenon DEF VisitRow
<1>4. row.pc = "done" /\ row.kind = "locate" /\ row.user = u /\ row.typed = q.typed
  BY <1>1 DEF VisitRow
<1>5. Moves(v) /\ visit'[v] = row
  BY <1>2, <1>3, Stepping DEF TypeOK
<1> HIDE DEF row
<1>6. ~Watching(v)'
  BY <1>4, <1>5 DEF Watching, At
<1>7. WatchInv(v)' /\ stable'[v].rows = stable[v].rows
  BY <1>1, <1>6, Remembering
<1>8. LocateInv(v)'
  <2>1. \A t : Matches(t)' = Matches(t)
    BY <1>5, SeenAlike DEF Moves
  <2>2. u \in Matches(q.typed) /\ stable[v].rows \subseteq {u}
    OBVIOUS
  <2>3. QED
    BY <1>4, <1>5, <1>7, <2>1, <2>2 DEF LocateInv, At
<1>9. QED
  BY <1>4, <1>5, <1>7, <1>8, Elsewhere DEF VisitInv, Listing

(* One account by both numbers, or none at all.                            *)
LEMMA LocateByNumberKeeps ==
    ASSUME TypeOK, NEW v \in Visits, VisitInv(v), Remembers(v), LocateByNumber(v)
    PROVE  Moves(v) /\ VisitInv(v)' /\ UNCHANGED booking
<1> DEFINE q == visit[v]
           n == q.typed.value
           ids == {q.user} \ {None}
           both == ids \cup WithNumber(n)
           rows == stable[v].rows
<1>1. /\ q.pc = "byNumber" /\ UNCHANGED booking /\ q \in VisitRow /\ WatchInv(v)
      /\ q.kind = "locate" /\ q.typed.prefix = ""
      /\ q.user = None \/ q.user \in WithId(n)
      /\ WithId(n) \cap rows \subseteq {q.user}
  BY PageIsNat DEF LocateByNumber, VisitInv, LocateInv
<1>2. Matches(q.typed) = WithId(n) \cup WithNumber(n)
  BY <1>1 DEF Matches
<1>3. rows \subseteq WithId(n) \cup WithNumber(n) /\ Watching(v)
  <2>1. Watching(v) /\ Watched(v) = Matches(q.typed)
    BY <1>1 DEF Watching, Watched
  <2>2. QED
    BY <1>1, <1>2, <2>1 DEF WatchInv
<1>4. /\ WithId(n) \subseteq Students /\ WithNumber(n) \subseteq Students /\ None \notin Students
      /\ \A u, o \in WithNumber(n) : u = o
  BY OneAccount
<1>5. rows \subseteq both
  BY <1>1, <1>3, <1>4
<1>6. both \in SUBSET Students /\ both \subseteq Matches(q.typed)
  BY <1>1, <1>2, <1>4
<1>7. CASE both = {}
  <2> DEFINE row == [q EXCEPT !.pc = "again"]
  <2>1. Step(v, row)
    BY <1>7 DEF LocateByNumber
  <2>2. row \in VisitRow
    BY <1>1, Zenon DEF VisitRow
  <2>3. row.pc = "again" /\ row.kind = "locate" /\ row.typed = q.typed
    BY <1>1 DEF VisitRow
  <2>4. Moves(v) /\ visit'[v] = row
    BY <2>1, <2>2, Stepping DEF TypeOK
  <2> HIDE DEF row
  <2>5. Watching(v)' /\ Kept(v)
    BY <1>1, <1>3, <2>3, <2>4 DEF Watching, Kept
  <2>6. WatchInv(v)' /\ stable'[v].rows = {}
    BY <1>1, <1>5, <1>7, <2>5, Remembering
  <2>7. q.typed \in Typed
    BY <1>1 DEF VisitInv, LocateInv
  <2>8. LocateInv(v)'
    BY <1>1, <2>3, <2>4, <2>6, <2>7 DEF LocateInv, At
  <2>9. QED
    BY <1>1, <2>3, <2>4, <2>6, <2>8, Elsewhere DEF VisitInv, Listing
<1>8. CASE both # {} /\ Cardinality(both) > 1
  <2>1. Close(v, "refused")
    BY <1>8 DEF LocateByNumber
  <2>2. QED
    BY <1>1, <2>1, Answers
<1>9. CASE both # {} /\ ~(Cardinality(both) > 1)
  <2>1. Found(v, both)
    BY <1>9 DEF LocateByNumber
  <2>2. IsFiniteSet(both)
    <3>1. PICK x : WithNumber(n) \subseteq {x}
      BY <1>4
    <3>2. IsFiniteSet({q.user} \cup {x}) /\ both \subseteq {q.user} \cup {x}
      BY <3>1, FS_Singleton, FS_Union
    <3>3. QED
      BY <3>2, FS_Subset
  <2> HIDE DEF both
  <2>3. \A u \in both : both = {u}
    BY <1>9, <2>2, Sole
  <2>4. \A u \in both : u \in Matches(q.typed) /\ rows \subseteq {u}
    BY <1>5, <1>6, <2>3
  <2>5. QED
    BY <1>1, <1>6, <2>1, <2>4, FoundKeeps
<1>10. QED
  BY <1>7, <1>8, <1>9

LEMMA LocateAgainKeeps ==
    ASSUME TypeOK, NEW v \in Visits, VisitInv(v), Remembers(v), LocateAgain(v)
    PROVE  Moves(v) /\ VisitInv(v)' /\ UNCHANGED booking
<1> DEFINE q == visit[v]
           users == WithNumber(q.typed.value)
<1>1. /\ q.pc = "again" /\ UNCHANGED booking /\ WatchInv(v)
      /\ q.kind = "locate" /\ q.typed.prefix = "" /\ stable[v].rows = {}
  BY DEF LocateAgain, VisitInv, LocateInv
<1>2. users \in SUBSET Students /\ users \subseteq Matches(q.typed)
  BY <1>1 DEF Matches, WithNumber
<1>3. CASE Close(v, "refused")
  BY <1>1, <1>3, Answers
<1>4. CASE Found(v, users)
  <2> HIDE DEF users
  <2>1. QED
    BY <1>1, <1>2, <1>4, FoundKeeps
<1>5. QED
  BY <1>3, <1>4 DEF LocateAgain

-----------------------------------------------------------------------------
(* Every step of a visit.                                                  *)
LEMMA ReadsKeep ==
    ASSUME TypeOK, \A b \in Bookings : BookingInv(b), NEW v \in Visits, VisitInv(v),
           Remembers(v), Moved, VisitStep(v),
           ~BookCommit(v), ~CancelWrite(v), ~CheckinCommit(v)
    PROVE  Moves(v) /\ VisitInv(v)' /\ UNCHANGED booking
<1>1. WatchInv(v)
  BY DEF VisitInv
<1>2. CASE \/ BookSnapshot(v) \/ CancelLoad(v) \/ AdminCancelLoad(v)
           \/ CheckinArrive(v) \/ CheckinValidate(v)
  BY <1>1, <1>2, BookSnapshotKeeps, CancelLoadKeeps, CheckinArriveKeeps, CheckinValidateKeeps
<1>3. CASE AvailabilityRoom(v) \/ AvailabilitySeats(v) \/ AvailabilityOccupied(v)
  BY <1>1, <1>3, AvailabilityRoomKeeps, AvailabilitySeatsKeeps, AvailabilityOccupiedKeeps
<1>4. CASE QueryStarts(v) \/ ListPage(v) \/ CountTotal(v) \/ AllAsked(v)
  BY <1>1, <1>4, QueryStartsKeeps, ListPageKeeps, CountTotalKeeps, AllAskedKeeps
<1>5. CASE \/ AskOccupied(v) \/ AskFreeSeats(v) \/ AskSeatAttributes(v)
           \/ CodesList(v) \/ CodeOfRoom(v)
  BY <1>1, <1>5, AskOccupiedKeeps, AsksSeatsKeeps, CodesListKeeps, CodeOfRoomKeeps
<1>6. CASE StatisticsRooms(v) \/ StatisticsSeats(v) \/ StatisticsCounts(v)
  BY <1>6, StatisticsReadKeeps, StatisticsCountsKeeps
<1>7. CASE LocateById(v) \/ LocateByNumber(v) \/ LocateAgain(v)
  BY <1>1, <1>7, LocateByIdKeeps, LocateByNumberKeeps, LocateAgainKeeps
<1>8. QED
  BY <1>2, <1>3, <1>4, <1>5, <1>6, <1>7 DEF VisitStep

LEMMA VisitStepKeeps ==
    ASSUME TypeOK, \A b \in Bookings : BookingInv(b), NEW v \in Visits, VisitInv(v),
           Remembers(v), Moved, VisitStep(v)
    PROVE  /\ Moves(v) /\ VisitInv(v)'
           /\ booking' \in [Bookings -> BookingRow \cup {None}]
           /\ BookingsGrow
           /\ \A b \in Bookings : BookingInv(b)'
<1>1. CASE BookCommit(v) \/ CancelWrite(v) \/ CheckinCommit(v)
  BY <1>1, BookCommitKeeps, CancelWriteKeeps, CheckinCommitKeeps
<1>2. CASE ~BookCommit(v) /\ ~CancelWrite(v) /\ ~CheckinCommit(v)
  <2>1. Moves(v) /\ VisitInv(v)' /\ UNCHANGED booking
    BY <1>2, ReadsKeep
  <2>2. CatalogGrows
    BY <2>1 DEF Moves, catalogVars, CatalogGrows
  <2>3. booking' \in [Bookings -> BookingRow \cup {None}]
    BY <2>1 DEF TypeOK, VisitsTypeOK
  <2>4. QED
    BY <2>1, <2>2, <2>3, BookingsRest, BookingInvRests
<1>3. QED
  BY <1>1, <1>2

-----------------------------------------------------------------------------
(* When nothing changes.                                                   *)
LEMMA SameVisit ==
    ASSUME UNCHANGED vars, NEW v \in Visits, VisitInv(v)
    PROVE  VisitInv(v)'
<1>1. /\ UNCHANGED catalogVars /\ UNCHANGED <<booking, now, visit>>
      /\ UNCHANGED stable /\ UNCHANGED moved /\ UNCHANGED seat
  BY DEF vars, visitVars, catalogVars
<1>2. /\ Eligible(v)' = Eligible(v) /\ \A x : Rank(v, x)' = Rank(v, x)
      /\ Made' = Made /\ InScope(v)' = InScope(v)
      /\ \A kind, pc : At(v, kind, pc)' <=> At(v, kind, pc)
      /\ \A b : Holding(b)' <=> Holding(b)
  BY <1>1, EligibleAlike DEF Made, InScope, At, Holding
<1>3. /\ \A r, u : Visible(r, u)' <=> Visible(r, u)
      /\ \A r : SeatsShown(r)' = SeatsShown(r)
      /\ \A n : WithId(n)' = WithId(n)
      /\ \A t : Matches(t)' = Matches(t)
  BY <1>1, SeenAlike
<1>4. WatchInv(v)'
  <2>1. Watching(v)' <=> Watching(v)
    BY <1>1, <1>2 DEF Watching
  <2>2. Watched(v)' = Watched(v)
    BY <1>1, <1>2, <1>3 DEF Watched
  <2>3. QED
    BY <1>1, <2>1, <2>2 DEF VisitInv, WatchInv
<1>5. BookInv(v)' /\ CheckinInv(v)' /\ AvailabilityInv(v)'
  BY <1>1, <1>2 DEF VisitInv, BookInv, CheckinInv, AvailabilityInv
<1>6. ListingInv(v)'
  BY <1>1, <1>2 DEF VisitInv, ListingInv
<1>7. HeldInv(v)'
  BY <1>1, <1>2 DEF VisitInv, HeldInv
<1>8. StatisticsInv(v)'
  BY <1>1, <1>2 DEF VisitInv, StatisticsInv
<1>9. LocateInv(v)'
  BY <1>1, <1>2, <1>3 DEF VisitInv, LocateInv
<1>10. QED
  BY <1>4, <1>5, <1>6, <1>7, <1>8, <1>9 DEF VisitInv

LEMMA NothingChanges ==
    ASSUME IInv, UNCHANGED vars
    PROVE  IInv'
<1>1. UNCHANGED catalogVars /\ UNCHANGED <<booking, now, visit, stable, moved, seat>>
  BY DEF vars, visitVars, catalogVars
<1>2. CatalogInv' /\ CatalogGrows
  BY <1>1, CatalogRests DEF IInv
<1>3. TypeOK'
  BY <1>1, <1>2 DEF IInv, CatalogInv, TypeOK, VisitsTypeOK
<1>4. Moved
  BY <1>1 DEF Moved
<1>5. \A b \in Bookings : BookingInv(b)'
  BY <1>1, <1>2, <1>4, BookingInvRests DEF IInv
<1>6. QED
  BY <1>2, <1>3, <1>5, SameVisit DEF IInv

-----------------------------------------------------------------------------
(* The invariant.                                                          *)
LEMMA OperateKeeps ==
    ASSUME IInv, Operate
    PROVE  IInv'
<1>1. /\ TypeOK /\ CatalogInv /\ Track
      /\ \A b \in Bookings : BookingInv(b)
      /\ \A v \in Visits : VisitInv(v)
      /\ (CatalogNext /\ UNCHANGED visitVars) \/ VisitsNext
  BY DEF IInv, Operate
<1>2. /\ stable' \in [Visits -> StableRow] /\ moved' \subseteq Seats /\ Moved
      /\ \A v \in Visits : Remembers(v)
  BY <1>1, Tracking
<1>3. ASSUME CatalogInv', VisitsTypeOK' PROVE TypeOK'
  BY <1>2, <1>3 DEF TypeOK, CatalogInv, StableRow
<1>4. CASE CatalogNext /\ UNCHANGED visitVars
  <2>1. CatalogInv' /\ CatalogGrows
    BY <1>1, <1>4, CatalogKeeps
  <2>2. UNCHANGED booking /\ UNCHANGED visit /\ VisitsTypeOK' /\ TypeOK'
    BY <1>1, <1>3, <1>4, <2>1 DEF visitVars, TypeOK, VisitsTypeOK
  <2>3. BookingsGrow /\ \A b \in Bookings : BookingInv(b)'
    BY <1>1, <1>2, <2>1, <2>2, BookingsRest, BookingInvRests
  <2>4. \A v \in Visits : VisitInv(v)'
    BY <1>1, <1>2, <2>1, <2>2, <2>3, OthersKeep
  <2>5. QED
    BY <2>1, <2>2, <2>3, <2>4 DEF IInv
<1>5. CASE \E v \in Visits : VisitStep(v)
  <2>1. PICK v \in Visits : VisitStep(v)
    BY <1>5
  <2>2. /\ Moves(v) /\ VisitInv(v)'
        /\ booking' \in [Bookings -> BookingRow \cup {None}]
        /\ BookingsGrow
        /\ \A b \in Bookings : BookingInv(b)'
    BY <1>1, <1>2, <2>1, VisitStepKeeps
  <2>3. CatalogInv' /\ CatalogGrows
    BY <1>1, <2>2, CatalogRests DEF Moves
  <2>4. VisitsTypeOK' /\ TypeOK'
    BY <1>1, <1>3, <2>2, <2>3 DEF Moves, TypeOK, VisitsTypeOK
  <2>5. ASSUME NEW o \in Visits \ {v} PROVE VisitInv(o)'
    <3>1. UNCHANGED visit[o]
      BY <2>2 DEF Moves
    <3>2. QED
      BY <1>1, <1>2, <2>2, <2>3, <2>4, <3>1, OthersKeep
  <2>6. QED
    BY <2>2, <2>3, <2>4, <2>5 DEF IInv
<1>6. CASE Release \/ Tick
  <2>1. /\ UNCHANGED catalogVars /\ UNCHANGED visit /\ now' \in 0..MaxTime
        /\ booking' \in [Bookings -> BookingRow \cup {None}]
        /\ BookingsGrow
        /\ \A b \in Bookings : BookingInv(b)'
    <3>1. CASE Release
      BY <1>1, <1>2, <3>1, ReleaseKeeps DEF TypeOK, VisitsTypeOK
    <3>2. CASE Tick
      <4>1. UNCHANGED catalogVars /\ UNCHANGED visit /\ UNCHANGED booking /\ CatalogGrows
        BY <3>2 DEF Tick, catalogVars, CatalogGrows
      <4>2. now' \in 0..MaxTime
        BY <1>1, <3>2, Sizes DEF Tick, TypeOK, VisitsTypeOK
      <4>3. booking' \in [Bookings -> BookingRow \cup {None}]
        BY <1>1, <4>1 DEF TypeOK, VisitsTypeOK
      <4>4. QED
        BY <1>1, <1>2, <4>1, <4>2, <4>3, BookingsRest, BookingInvRests
    <3>3. QED
      BY <1>6, <3>1, <3>2
  <2>2. CatalogInv' /\ CatalogGrows
    BY <1>1, <2>1, CatalogRests
  <2>3. VisitsTypeOK' /\ TypeOK'
    BY <1>1, <1>3, <2>1, <2>2 DEF TypeOK, VisitsTypeOK
  <2>4. \A v \in Visits : VisitInv(v)'
    BY <1>1, <1>2, <2>1, <2>2, <2>3, OthersKeep
  <2>5. QED
    BY <2>1, <2>2, <2>3, <2>4 DEF IInv
<1>7. QED
  BY <1>1, <1>4, <1>5, <1>6 DEF VisitsNext

(* It holds at the beginning,                                              *)
LEMMA Beginnings ==
    ASSUME Init
    PROVE  IInv
<1>1. PICK first \in Reserved : VisitsInit(first)
  BY DEF Init
<1>2. first \in BookingRow /\ Reserved \subseteq BookingRow
  BY SeatCatalogAssumption
<1>3. /\ \A s \in Seats : seat[s] = IF s \in DOMAIN Furniture THEN Furniture[s] ELSE None
      /\ \A s \in DOMAIN Furniture : s \in Seats /\ Furniture[s] \in SeatRow /\ seat[s] = Furniture[s]
  BY SeatCatalogAssumption DEF Init
<1>4. CatalogTypeOK
  <2>1. department \in [Departments -> {"absent", "active", "inactive"}]
    BY DEF Init
  <2>2. account \in [Students -> Departments \cup {None, "absent"}]
    BY SeatCatalogAssumption DEF Init
  <2>3. room \in [Rooms -> RoomRow \cup {None}]
    BY SeatCatalogAssumption DEF Init
  <2>4. seat \in [Seats -> SeatRow \cup {None}]
    BY SeatCatalogAssumption DEF Init
  <2>5. [pc |-> "idle", op |-> None, seen |-> None] \in ChangeRow
    BY DEF ChangeRow
  <2>6. change \in [Writers -> ChangeRow]
    BY <2>5 DEF Init
  <2>7. QED
    BY <2>1, <2>2, <2>3, <2>4, <2>6 DEF CatalogTypeOK
<1>5. CatalogInv
  <2>1. PlacesDiffer
    <3>1. \A s, o \in DOMAIN Furniture :
             Furniture[s].room = Furniture[o].room /\ Furniture[s].code = Furniture[o].code => s = o
      BY SeatCatalogAssumption
    <3>2. QED
      BY <1>3, <3>1 DEF PlacesDiffer, SeatKeyFree
  <2>2. \A w \in Writers : change[w].pc = "idle"
    BY DEF Init
  <2>3. QED
    BY <1>4, <2>1, <2>2 DEF CatalogInv, LoadedInv, RaceInv
<1>6. VisitsTypeOK /\ \A v \in Visits : visit[v].pc = "idle" /\ visit[v].kind = None
  <2>1. booking \in [Bookings -> BookingRow \cup {None}]
    BY <1>1, <1>2 DEF VisitsInit
  <2>2. now \in 0..MaxTime
    BY <1>1, Sizes DEF VisitsInit
  <2>3. visit \in [Visits -> VisitRow]
    BY <1>1, QuietRow DEF VisitsInit
  <2>4. Quiet.pc = "idle" /\ Quiet.kind = None
    BY DEF Quiet
  <2>5. QED
    BY <1>1, <2>1, <2>2, <2>3, <2>4 DEF VisitsInit, VisitsTypeOK
<1>7. TypeOK
  BY <1>4, <1>6 DEF TypeOK, Init
<1>8. ASSUME NEW b \in Bookings PROVE BookingInv(b)
  <2>1. SUFFICES ASSUME b \in Made PROVE BookingInv(b)
    BY DEF BookingInv
  <2>2. booking[b] = first
    BY <1>1, <2>1 DEF Made, VisitsInit
  <2>3. /\ first.seat \in DOMAIN Furniture /\ first.room = Furniture[first.seat].room
        /\ first.missed => first.status = "EXPIRED"
    <3>1. first \in Reserved
      OBVIOUS
    <3>2. QED
      BY <3>1, SeatCatalogAssumption
  <2>4. seat[first.seat] = Furniture[first.seat] /\ Furniture[first.seat] # None
    BY <1>3, <2>3, CatalogAssumption
  <2>5. QED
    BY <2>2, <2>3, <2>4 DEF BookingInv
<1>9. ASSUME NEW v \in Visits PROVE VisitInv(v)
  <2>1. ~Watching(v) /\ \A kind, pc : pc # "idle" => ~At(v, kind, pc)
    BY <1>6 DEF Watching, At
  <2>2. WatchInv(v) /\ BookInv(v) /\ CheckinInv(v) /\ AvailabilityInv(v)
    BY <1>6, <2>1 DEF WatchInv, BookInv, CheckinInv, AvailabilityInv
  <2>3. ListingInv(v) /\ HeldInv(v) /\ StatisticsInv(v) /\ LocateInv(v)
    BY <1>6, <2>1 DEF ListingInv, Listing, HeldInv, StatisticsInv, LocateInv
  <2>4. QED
    BY <2>2, <2>3 DEF VisitInv
<1>10. QED
  BY <1>5, <1>7, <1>8, <1>9 DEF IInv

(* every step keeps it,                                                    *)
LEMMA StepsKeep ==
    ASSUME IInv, [Next]_vars
    PROVE  IInv'
<1>1. CASE Operate
  BY <1>1, OperateKeeps
<1>2. CASE UNCHANGED vars
  BY <1>2, NothingChanges
<1>3. QED
  BY <1>1, <1>2 DEF Next, Finished

(* and so it holds always, of every writer, visit and reservation.         *)
THEOREM Invariant == Spec => []IInv
<1>1. Init => IInv
  BY Beginnings
<1>2. IInv /\ [Next]_vars => IInv'
  BY StepsKeep
<1>3. QED
  BY <1>1, <1>2, PTL DEF Spec

-----------------------------------------------------------------------------
(* Requests of administrators and visits keep to their types: what is      *)
(* written over an older row is a row, and no page is read past the last   *)
(* there can be.                                                           *)
THEOREM TypeCorrect == Spec => []TypeOK
<1>1. IInv => TypeOK
  BY DEF IInv
<1>2. QED
  BY <1>1, Invariant, PTL

(* Whoever books a seat out of use, or hidden from him, or in a room it    *)
(* has left, does so because an administrator changed the catalogue        *)
(* between his snapshot and his commit.                                    *)
THEOREM StaleByRacesOnly == Spec => []BookingsAreStaleByRacesOnly
<1>1. IInv => BookingsAreStaleByRacesOnly
  BY DEF IInv, VisitInv, BookInv, BookingsAreStaleByRacesOnly
<1>2. QED
  BY <1>1, Invariant, PTL

(* A listing read page by page has all that belonged in it all the time,   *)
(* unless something that belonged in it went away, however many pages.     *)
THEOREM ListingsComplete == Spec => []PagedListingsAreComplete
<1>1. IInv => PagedListingsAreComplete
  BY DEF IInv, VisitInv, ListingInv, PagedListingsAreComplete
<1>2. QED
  BY <1>1, Invariant, PTL

(* The statistics page divides no violations by fewer reservations, but    *)
(* for those that a cancellation has written over.                         *)
THEOREM RateAtMostOne == Spec => []ViolationRateAtMostOne
<1>1. ASSUME IInv PROVE ViolationRateAtMostOne
  <2>1. SUFFICES ASSUME NEW v \in Visits, At(v, "statistics", "done")
                 PROVE  visit[v].violations <= visit[v].denominator
                           + Cardinality({b \in InScope(v) :
                                booking[b].missed /\ booking[b].status = "CANCELLED"})
    BY DEF ViolationRateAtMostOne
  <2>2. {b \in InScope(v) : booking[b].missed /\ booking[b].status = "CANCELLED"}
           = {b \in {x \in InScope(v) : booking[x].missed} : booking[b].status = "CANCELLED"}
    OBVIOUS
  <2>3. StatisticsInv(v)
    BY <1>1 DEF IInv, VisitInv
  <2>4. QED
    BY <2>1, <2>2, <2>3 DEF StatisticsInv
<1>2. QED
  BY <1>1, Invariant, PTL

(* Whatever else breaks a request, a key refuses one without a word of the *)
(* conflict only when it puts a seat and another has put one too, one of   *)
(* the two through the API.                                                *)
THEOREM KeyFailuresAreRaces == Spec => []KeyFailuresAreSeatRaces
<1>1. IInv => KeyFailuresAreSeatRaces
  BY DEF IInv, CatalogInv, RaceInv, RivalDone, Places, KeyFailuresAreSeatRaces
<1>2. QED
  BY <1>1, Invariant, PTL

(* The account found goes by what was typed, and any other that does       *)
(* appeared during the lookup.                                             *)
THEOREM LocatedAsTyped == Spec => []LocatedIsMeant
<1>1. IInv => LocatedIsMeant
  BY DEF IInv, VisitInv, LocateInv, LocatedIsMeant, At
<1>2. QED
  BY <1>1, Invariant, PTL

(* The times of a slice are less than a slice apart.                       *)
LEMMA OneSlice ==
    ASSUME NEW t \in Nat, NEW u \in Nat, Slice(t) = Slice(u)
    PROVE  u - t < SliceLength
<1> DEFINE n == t \div SliceLength
<1>1. /\ n \in Nat /\ n * SliceLength <= t /\ n = u \div SliceLength
      /\ u < (u \div SliceLength) * SliceLength + SliceLength
  BY Sizes, Division DEF Slice
<1> HIDE DEF n
<1>2. n * SliceLength \in Nat /\ u < n * SliceLength + SliceLength
  BY <1>1, Sizes, Multiples
<1>3. QED
  BY <1>1, <1>2, Sizes

(* Who checks in brings a code less than a slice old, of the room of the   *)
(* reservation, in the time for it.                                        *)
THEOREM AtTheDoor == Spec => CheckedInAtTheDoor
<1> DEFINE Door ==
      \A v \in Visits :
          At(v, "checkin", "commit") /\ visit'[v].pc = "done" =>
              LET q == visit[v]
                  b == booking[q.booking]
              IN  /\ q.room = b.room
                  /\ q.at - q.code < SliceLength
                  /\ b.window[1] <= q.at /\ q.at <= b.window[1] + Grace
<1>1. ASSUME IInv PROVE Door
  <2>1. SUFFICES ASSUME NEW v \in Visits, At(v, "checkin", "commit")
                 PROVE  LET q == visit[v]
                            b == booking[q.booking]
                        IN  /\ q.room = b.room
                            /\ q.at - q.code < SliceLength
                            /\ b.window[1] <= q.at /\ q.at <= b.window[1] + Grace
    OBVIOUS
  <2>2. CheckinInv(v) /\ visit[v] \in VisitRow
    BY <1>1 DEF IInv, VisitInv, TypeOK, VisitsTypeOK
  <2>3. visit[v].at \in 0..MaxTime /\ visit[v].code \in 0..MaxTime
    BY <2>2 DEF VisitRow
  <2>4. visit[v].at - visit[v].code < SliceLength
    BY <2>1, <2>2, <2>3, Sizes, OneSlice DEF CheckinInv, At
  <2>5. QED
    BY <2>1, <2>2, <2>4 DEF CheckinInv, At
<1>2. IInv /\ [Next]_vars => [Door]_vars
  BY <1>1
<1>3. QED
  BY <1>2, Invariant, PTL DEF Spec, CheckedInAtTheDoor

(* Which action answers a student who asks for free seats.                 *)
LEMMA WhoAnswers ==
    ASSUME NEW v \in Visits, VisitStep(v)
    PROVE  /\ At(v, "availability", "occupied") => AvailabilityOccupied(v)
           /\ At(v, "available", "asked") => AskFreeSeats(v)
<1>1. SUFFICES ASSUME At(v, "availability", "occupied") \/ At(v, "available", "asked")
               PROVE  \/ AvailabilityOccupied(v) /\ At(v, "availability", "occupied")
                      \/ AskFreeSeats(v) /\ At(v, "available", "asked")
  BY DEF At
<1>2. /\ ~BookSnapshot(v) /\ ~BookCommit(v) /\ ~CancelLoad(v) /\ ~AdminCancelLoad(v)
      /\ ~CancelWrite(v) /\ ~CheckinArrive(v) /\ ~CheckinValidate(v) /\ ~CheckinCommit(v)
  BY <1>1 DEF At, Starts, BookSnapshot, BookCommit, CancelLoad, AdminCancelLoad,
              CancelWrite, CheckinArrive, CheckinValidate, CheckinCommit
<1>3. /\ ~AvailabilityRoom(v) /\ ~AvailabilitySeats(v)
      /\ ~QueryStarts(v) /\ ~ListPage(v) /\ ~CountTotal(v) /\ ~AllAsked(v)
  BY <1>1 DEF At, Starts, AvailabilityRoom, AvailabilitySeats, QueryStarts, ListPage,
              CountTotal, AllAsked
<1>4. /\ ~AskOccupied(v) /\ ~AskSeatAttributes(v) /\ ~CodesList(v) /\ ~CodeOfRoom(v)
  BY <1>1 DEF At, Starts, AskOccupied, AskSeatAttributes, CodesList, CodeOfRoom
<1>5. /\ ~StatisticsRooms(v) /\ ~StatisticsSeats(v) /\ ~StatisticsCounts(v)
      /\ ~LocateById(v) /\ ~LocateByNumber(v) /\ ~LocateAgain(v)
  BY <1>1 DEF At, Starts, StatisticsRooms, StatisticsSeats, StatisticsCounts,
              LocateById, LocateByNumber, LocateAgain
<1>6. AvailabilityOccupied(v) \/ AskFreeSeats(v)
  BY <1>2, <1>3, <1>4, <1>5 DEF VisitStep
<1>7. QED
  BY <1>1, <1>6 DEF AvailabilityOccupied, AskFreeSeats

(* Who moves is the visit whose row changes.                               *)
LEMMA WhoMoves ==
    ASSUME IInv, [Next]_vars, NEW v \in Visits, visit'[v] # visit[v]
    PROVE  VisitStep(v)
<1>1. Operate
  BY DEF Next, Finished, vars, visitVars
<1>2. /\ TypeOK /\ Track
      /\ \A b \in Bookings : BookingInv(b)
      /\ \A o \in Visits : VisitInv(o)
  BY <1>1 DEF IInv, Operate
<1>3. Moved /\ \A o \in Visits : Remembers(o)
  BY <1>2, Tracking
<1>4. ~(CatalogNext /\ UNCHANGED visitVars) /\ ~Release /\ ~Tick
  BY DEF visitVars, Release, Tick
<1>5. PICK o \in Visits : VisitStep(o)
  BY <1>1, <1>4 DEF Operate, VisitsNext
<1>6. Moves(o)
  <2>1. VisitInv(o) /\ Remembers(o)
    BY <1>2, <1>3, <1>5
  <2>2. QED
    BY <1>2, <1>3, <1>5, <2>1, VisitStepKeeps
<1>7. QED
  BY <1>5, <1>6 DEF Moves

(* A seat of the room that has not been moved is booked in that room.      *)
LEMMA BookedInItsRoom ==
    ASSUME IInv, NEW b \in Made, booking[b].seat \notin moved
    PROVE  booking[b].room = seat[booking[b].seat].room
BY DEF IInv, BookingInv, Made

(* What the page of a room shows free is what may be booked: it goes by    *)
(* the room of a reservation and booking by its seat, but a seat that has  *)
(* not been moved has only been booked in its room.  And the assistant     *)
(* offers no seat that was held when it looked and still is.               *)
THEOREM ShownFreeIsFree == Spec => AvailabilityAgreesWithBooking
<1> DEFINE
      taken(v, s, rows) == \E b \in rows : /\ Holding(b) /\ booking[b].seat = s
                                           /\ Meets(booking[b].window, visit[v].window)
      Page(v) == At(v, "availability", "occupied") /\ visit'[v].pc = "done" =>
                    \A s \in stable[v].rows \ moved :
                        (s \in visit'[v].listed) = ~taken(v, s, Made)
      Offer(v) == At(v, "available", "asked") /\ visit'[v].pc = "ask" =>
                    \A s \in (visit'[v].offered \ visit[v].offered) \ moved :
                        ~taken(v, s, stable[v].made)
      Agree ==
        \A v \in Visits :
          LET q == visit[v]
              held(s, rows) == \E b \in rows : /\ Holding(b) /\ booking[b].seat = s
                                               /\ Meets(booking[b].window, q.window)
          IN  /\ At(v, "availability", "occupied") /\ visit'[v].pc = "done" =>
                    \A s \in stable[v].rows \ moved :
                        (s \in visit'[v].listed) = ~held(s, Made)
              /\ At(v, "available", "asked") /\ visit'[v].pc = "ask" =>
                    \A s \in (visit'[v].offered \ q.offered) \ moved :
                        ~held(s, stable[v].made)
<1>1. ASSUME IInv, [Next]_vars, NEW v \in Visits PROVE Page(v)
  <2> DEFINE q == visit[v]
  <2>1. SUFFICES ASSUME At(v, "availability", "occupied"), visit'[v].pc = "done",
                        NEW s \in stable[v].rows \ moved
                 PROVE  (s \in visit'[v].listed) = ~taken(v, s, Made)
    OBVIOUS
  <2>2. AvailabilityOccupied(v)
    BY <1>1, <2>1, WhoMoves, WhoAnswers DEF At
  <2>3. visit'[v].listed = q.listed \ Occupied(q.room, q.window)
    <3>1. visit \in [Visits -> VisitRow]
      BY <1>1 DEF IInv, TypeOK, VisitsTypeOK
    <3>2. visit' = [visit EXCEPT ![v] = [Quiet EXCEPT !.pc = "done", !.kind = "availability",
                                                     !.listed = q.listed \ Occupied(q.room, q.window)]]
      BY <2>2 DEF AvailabilityOccupied, Step
    <3>3. [Quiet EXCEPT !.pc = "done", !.kind = "availability",
                        !.listed = q.listed \ Occupied(q.room, q.window)].listed
             = q.listed \ Occupied(q.room, q.window)
      BY QuietRow DEF VisitRow
    <3>4. QED
      BY <3>1, <3>2, <3>3
  <2>4. s \in q.listed /\ seat[s].room = q.room /\ s \notin moved
    <3>1. WatchInv(v) /\ AvailabilityInv(v)
      BY <1>1 DEF IInv, VisitInv
    <3>2. Watching(v) /\ Watched(v) \subseteq SeatsShown(q.room)
      BY <2>1 DEF At, Watching, Watched
    <3>3. QED
      BY <2>1, <3>1, <3>2 DEF At, WatchInv, AvailabilityInv, SeatsShown
  <2>5. s \in Occupied(q.room, q.window) <=> taken(v, s, Made)
    <3>1. ASSUME NEW b \in Made, booking[b].seat = s
          PROVE  booking[b].room = q.room
      BY <1>1, <2>4, <3>1, BookedInItsRoom
    <3>2. QED
      BY <3>1 DEF Occupied
  <2> HIDE DEF taken
  <2>6. s \in visit'[v].listed <=> ~taken(v, s, Made)
    BY <2>3, <2>4, <2>5
  <2>7. QED
    BY <2>6
<1>2. ASSUME IInv, [Next]_vars, NEW v \in Visits PROVE Offer(v)
  <2> DEFINE q == visit[v]
             free == SeatsShown(q.room) \ q.held
  <2>1. SUFFICES ASSUME At(v, "available", "asked"), visit'[v].pc = "ask",
                        NEW s \in (visit'[v].offered \ q.offered) \ moved,
                        NEW b \in stable[v].made, Holding(b), booking[b].seat = s,
                        Meets(booking[b].window, q.window)
                 PROVE  FALSE
    OBVIOUS
  <2>2. AskFreeSeats(v)
    BY <1>2, <2>1, WhoMoves, WhoAnswers DEF At
  <2>3. visit'[v].offered = q.offered \cup free
    <3>1. visit \in [Visits -> VisitRow] /\ q \in VisitRow
      BY <1>2 DEF IInv, TypeOK, VisitsTypeOK
    <3>2. ~Close(v, "refused")
      BY <1>2, <2>1, Closed DEF IInv, TypeOK
    <3> DEFINE row == [q EXCEPT !.pc = "ask", !.among = @ \cup {q.room}, !.held = {},
                                !.room = None, !.window = None, !.offered = @ \cup free]
    <3>3. visit' = [visit EXCEPT ![v] = row]
      BY <2>2, <3>2 DEF AskFreeSeats, SeatsOf, Step
    <3>4. row.offered = q.offered \cup free
      BY <3>1 DEF VisitRow
    <3> HIDE DEF row
    <3>5. QED
      BY <3>1, <3>3, <3>4
  <2>4. s \notin q.held /\ seat[s].room = q.room /\ s \notin moved
    BY <2>1, <2>3 DEF SeatsShown
  <2>5. b \in Made /\ (booking[b].room = q.room => s \in q.held)
    BY <1>2, <2>1 DEF IInv, VisitInv, HeldInv, At
  <2>6. booking[b].room = q.room
    BY <1>2, <2>1, <2>4, <2>5, BookedInItsRoom
  <2>7. QED
    BY <2>4, <2>5, <2>6
<1>3. (\A v \in Visits : Page(v) /\ Offer(v)) => Agree
  OBVIOUS
<1> HIDE DEF Page, Offer
<1>4. IInv /\ [Next]_vars => Agree
  <2> HIDE DEF Agree
  <2>1. QED
    BY <1>1, <1>2, <1>3
<1>5. IInv /\ [Next]_vars => [Agree]_vars
  BY <1>4
<1>6. QED
  BY <1>5, Invariant, PTL DEF Spec, AvailabilityAgreesWithBooking
=============================================================================
