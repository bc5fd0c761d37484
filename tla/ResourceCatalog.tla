---------------------------- MODULE ResourceCatalog ----------------------------
(***************************************************************************)
(* What administrators keep: departments, student accounts, study rooms    *)
(* and seats.  Every write is a check and a commit, with other writes in   *)
(* between; names and codes are protected by unique keys, which two of the *)
(* four services expect to fail and two do not.                            *)
(*                                                                         *)
(* A request ends "done" (committed), "refused" (an AppError), "failed" (a *)
(* violated key nobody maps) or "broken" (any other error); "unconfirmed"  *)
(* is one that committed before the error.  The last three are answered    *)
(* 500, and all but the committed ones leave nothing behind.               *)
(***************************************************************************)
EXTENDS Integers, FiniteSets

CONSTANTS
    Departments, Students,
    MaxRooms, MaxSeats,     \* bounds on the rows ever inserted
    SeatCodes,
    Hours,                  \* opening hours: <<open, close>>
    Writers,                \* requests of administrators
    Changes,                \* what they may ask for (see Change)
    None

Rooms == 1..MaxRooms
Seats == 1..MaxSeats

RoomRow == [department : Departments \cup {None}, only : BOOLEAN,
            active : BOOLEAN, hours : Hours]
SeatRow == [room : Rooms, code : SeatCodes, active : BOOLEAN]

Doors == {"api", "portal"}

Change ==
    [kind : {"createDepartment", "activateDepartment", "deactivateDepartment"},
     via : Doors, department : Departments]
    \cup [kind : {"createUser"}, via : Doors, user : Students,
          department : Departments \cup {None}]
    \cup [kind : {"createRoom"}, via : Doors, row : RoomRow]
    \cup [kind : {"updateRoom"}, via : Doors, room : Rooms, row : RoomRow]
    \cup [kind : {"deactivateRoom"}, via : Doors, room : Rooms]
    \cup [kind : {"createSeat"}, via : Doors, row : SeatRow]
    \cup [kind : {"updateSeat"}, via : Doors, seat : Seats, row : SeatRow]
    \cup [kind : {"deactivateSeat"}, via : Doors, seat : Seats]

ASSUME CatalogAssumption ==
    /\ MaxRooms \in Nat \ {0} /\ MaxSeats \in Nat \ {0}
    /\ Hours \subseteq Int \X Int
    /\ Changes \subseteq Change
    /\ None \notin Departments /\ None \notin Students /\ None \notin Int
    /\ None \notin RoomRow /\ None \notin SeatRow

VARIABLES
    department,     \* -> "absent" | "active" | "inactive"
    account,        \* student -> "absent", or the account's department
    room, seat,     \* id -> row, None when there is none
    change          \* writer -> [pc, op, seen]

catalogVars == <<department, account, room, seat, change>>

ChangeRow ==
    [pc : {"idle", "write", "done", "refused", "failed", "broken", "unconfirmed"},
     op : Changes \cup {None},
     seen : RoomRow \cup SeatRow \cup [status : {"active", "inactive"}] \cup {None}]

CatalogTypeOK ==
    /\ department \in [Departments -> {"absent", "active", "inactive"}]
    /\ account \in [Students -> Departments \cup {None, "absent"}]
    /\ room \in [Rooms -> RoomRow \cup {None}]
    /\ seat \in [Seats -> SeatRow \cup {None}]
    /\ change \in [Writers -> ChangeRow]

-----------------------------------------------------------------------------
(* Does the row go with the unique key on (room_id, seat_code)?            *)
SeatKeyFree(s, row) ==
    \A o \in Seats \ {s} :
        seat[o] # None => seat[o].room # row.room \/ seat[o].code # row.code

(* get_active_department, or no department at all.                         *)
DepartmentUsable(d) == d = None \/ department[d] = "active"

(* A form of the portal is served by a coroutine that never waits once it  *)
(* has been read, so the event loop serves one of them at a time; requests *)
(* of the API run in threads.                                              *)
LoopIsFree(w, op) ==
    op.via = "portal" =>
        \A o \in Writers \ {w} : change[o].pc = "write" => change[o].op.via = "api"

(* A request arrives, is checked and loads what it will write.             *)
Begin(w, op, ok, seen) ==
    /\ change[w].pc = "idle"
    /\ LoopIsFree(w, op)
    /\ change' = [change EXCEPT ![w] =
          IF ok THEN [pc |-> "write", op |-> op, seen |-> seen]
          ELSE [@ EXCEPT !.pc = "refused"]]
    /\ UNCHANGED <<department, account, room, seat>>

Asked(kind) == {op \in Changes : op.kind = kind}

CreateDepartmentCheck(w) ==
    \E op \in Asked("createDepartment") : Begin(w, op, department[op.department] = "absent", None)

SwitchDepartmentLoad(w) ==
    \E op \in Asked("activateDepartment") \cup Asked("deactivateDepartment") :
        LET status == department[op.department] IN
        IF status = "absent" THEN Begin(w, op, FALSE, None)
        ELSE Begin(w, op, TRUE, [status |-> status])

CreateUserCheck(w) ==
    \E op \in Asked("createUser") :
        Begin(w, op, DepartmentUsable(op.department) /\ account[op.user] = "absent", None)

CreateRoomCheck(w) ==
    \E op \in Asked("createRoom") : Begin(w, op, DepartmentUsable(op.row.department), None)

UpdateRoomLoad(w) ==
    \E op \in Asked("updateRoom") :
        Begin(w, op, room[op.room] # None /\ DepartmentUsable(op.row.department), room[op.room])

DeactivateRoomLoad(w) ==
    \E op \in Asked("deactivateRoom") : Begin(w, op, room[op.room] # None, room[op.room])

CreateSeatCheck(w) ==
    \E op \in Asked("createSeat") :
        Begin(w, op, room[op.row.room] # None /\ SeatKeyFree(None, op.row), None)

UpdateSeatLoad(w) ==
    \E op \in Asked("updateSeat") :
        Begin(w, op, /\ seat[op.seat] # None /\ room[op.row.room] # None
                     /\ SeatKeyFree(op.seat, op.row), seat[op.seat])

DeactivateSeatLoad(w) ==
    \E op \in Asked("deactivateSeat") : Begin(w, op, seat[op.seat] # None, seat[op.seat])

-----------------------------------------------------------------------------
Writes(w, kind) == change[w].pc = "write" /\ change[w].op.kind = kind

Answered(w, how) == change' = [change EXCEPT ![w].pc = how, ![w].seen = None]

(* A violated key is told as the conflict it is.                           *)
MapIntegrityError(w) == Answered(w, "refused")

(* Two creations of one department: the key decides, and the loser is told *)
(* of the conflict.  Mutant: it is not expected.                           *)
CreateDepartmentUnmapped(w) ==
    LET d == change[w].op.department IN
    /\ Writes(w, "createDepartment")
    /\ IF department[d] = "absent"
       THEN department' = [department EXCEPT ![d] = "active"] /\ Answered(w, "done")
       ELSE Answered(w, "failed") /\ UNCHANGED department
    /\ UNCHANGED <<account, room, seat>>

CreateDepartment(w) ==
    LET d == change[w].op.department IN
    /\ Writes(w, "createDepartment")
    /\ IF department[d] = "absent"
       THEN /\ \E status \in {"active", "inactive"} :
                  department' = [department EXCEPT ![d] = status]
            /\ Answered(w, "done")
       ELSE MapIntegrityError(w) /\ UNCHANGED department
    /\ UNCHANGED <<account, room, seat>>

SwitchDepartment(w) ==
    LET op == change[w].op
        status == IF op.kind = "activateDepartment" THEN "active" ELSE "inactive"
    IN  /\ Writes(w, "activateDepartment") \/ Writes(w, "deactivateDepartment")
        /\ department' = [department EXCEPT ![op.department] =
                             IF change[w].seen.status # status THEN status ELSE @]
        /\ Answered(w, "done")
        /\ UNCHANGED <<account, room, seat>>

(* Two creations of one account end like those of one department.          *)
CreateUser(w) ==
    LET op == change[w].op IN
    /\ Writes(w, "createUser")
    /\ IF account[op.user] = "absent"
       THEN account' = [account EXCEPT ![op.user] = op.department] /\ Answered(w, "done")
       ELSE MapIntegrityError(w) /\ UNCHANGED account
    /\ UNCHANGED <<department, room, seat>>

-----------------------------------------------------------------------------
(* A room that is not for one department keeps no department.              *)
Stored(row) == [row EXCEPT !.department = IF row.only THEN @ ELSE None]

(* The ORM writes the columns that differ from what was loaded.            *)
Merge(current, loaded, wanted) ==
    [c \in DOMAIN current |-> IF wanted[c] # loaded[c] THEN wanted[c] ELSE current[c]]

(* The id of the next row; None when the bound is reached.                 *)
FreshId(rows) ==
    LET free == {i \in DOMAIN rows : rows[i] = None} IN
    IF free = {} THEN None ELSE CHOOSE i \in free : \A o \in free : i <= o

CreateRoom(w) ==
    LET r == FreshId(room) IN
    /\ Writes(w, "createRoom")
    /\ IF r = None THEN Answered(w, "refused") /\ UNCHANGED room
       ELSE /\ room' = [room EXCEPT ![r] = Stored(change[w].op.row)]
            /\ Answered(w, "done")
    /\ UNCHANGED <<department, account, seat>>

UpdateRoom(w) ==
    LET op == change[w].op IN
    /\ Writes(w, "updateRoom")
    /\ room' = [room EXCEPT ![op.room] = Merge(@, change[w].seen, Stored(op.row))]
    /\ Answered(w, "done")
    /\ UNCHANGED <<department, account, seat>>

DeactivateRoom(w) ==
    /\ Writes(w, "deactivateRoom")
    /\ room' = [room EXCEPT ![change[w].op.room] =
                   Merge(@, change[w].seen, [change[w].seen EXCEPT !.active = FALSE])]
    /\ Answered(w, "done")
    /\ UNCHANGED <<department, account, seat>>

(* Seats: the key may be taken since the check, and nobody expects that    *)
(* (other errors of the write: WriteBreaks).                               *)
PutSeat(w, s, row) ==
    /\ IF SeatKeyFree(s, row)
       THEN seat' = [seat EXCEPT ![s] = row] /\ Answered(w, "done")
       ELSE Answered(w, "failed") /\ UNCHANGED seat
    /\ UNCHANGED <<department, account, room>>

CreateSeat(w) ==
    LET s == FreshId(seat) IN
    /\ Writes(w, "createSeat")
    /\ IF s = None THEN Answered(w, "refused") /\ UNCHANGED <<department, account, room, seat>>
       ELSE PutSeat(w, s, change[w].op.row)

UpdateSeat(w) ==
    LET op == change[w].op IN
    /\ Writes(w, "updateSeat")
    /\ PutSeat(w, op.seat, Merge(seat[op.seat], change[w].seen, op.row))

DeactivateSeat(w) ==
    LET s == change[w].op.seat IN
    /\ Writes(w, "deactivateSeat")
    /\ PutSeat(w, s, Merge(seat[s], change[w].seen, [change[w].seen EXCEPT !.active = FALSE]))

-----------------------------------------------------------------------------
Breaks(w, from) ==
    /\ change[w].pc = from
    /\ change' = [change EXCEPT ![w] = [pc |-> "broken", op |-> None, seen |-> None]]
    /\ UNCHANGED <<department, account, room, seat>>

(* The portal's form on seats reads its numbers before it handles errors,  *)
(* and the connection may be lost in the checks of any request.            *)
FormBreaks(w) == Breaks(w, "idle")

(* The write fails for a reason of its own: the schemas put no limit to    *)
(* names and codes, their columns do, and only a violated key is mapped;   *)
(* or the connection is lost.                                              *)
WriteBreaks(w) == Breaks(w, "write")

(* The refresh after the commit, or what an answer reads after that.       *)
RefreshBreaks(w) ==
    /\ change[w].pc = "done"
    /\ change' = [change EXCEPT ![w].pc = "unconfirmed"]
    /\ UNCHANGED <<department, account, room, seat>>

CatalogNext ==
    \E w \in Writers :
        \/ CreateDepartmentCheck(w) \/ SwitchDepartmentLoad(w) \/ CreateUserCheck(w)
        \/ CreateRoomCheck(w) \/ UpdateRoomLoad(w) \/ DeactivateRoomLoad(w)
        \/ CreateSeatCheck(w) \/ UpdateSeatLoad(w) \/ DeactivateSeatLoad(w)
        \/ CreateDepartment(w) \/ SwitchDepartment(w) \/ CreateUser(w)
        \/ CreateRoom(w) \/ UpdateRoom(w) \/ DeactivateRoom(w)
        \/ CreateSeat(w) \/ UpdateSeat(w) \/ DeactivateSeat(w)
        \/ FormBreaks(w) \/ WriteBreaks(w) \/ RefreshBreaks(w)
=============================================================================
