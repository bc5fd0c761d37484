------------------------------ MODULE SeatCatalog ------------------------------
(***************************************************************************)
(* Administrators change the catalogue while students use it.              *)
(***************************************************************************)
EXTENDS StudentVisits

CONSTANTS
    Founded, Enrolled,      \* departments and accounts at the beginning
    Building, Furniture,    \* rooms and seats
    Reserved,               \* what the first reservation may be
    MaxRequests             \* bound on the requests that are ever made

(* The rows at the beginning go with the keys of the tables, and what is   *)
(* booked then has not been moved.                                         *)
ASSUME SeatCatalogAssumption ==
    /\ Founded \subseteq Departments
    /\ Enrolled \subseteq [Students -> Departments \cup {None, "absent"}]
    /\ DOMAIN Building \subseteq Rooms /\ \A r \in DOMAIN Building : Building[r] \in RoomRow
    /\ DOMAIN Furniture \subseteq Seats /\ \A s \in DOMAIN Furniture : Furniture[s] \in SeatRow
    /\ \A s, o \in DOMAIN Furniture :
          Furniture[s].room = Furniture[o].room /\ Furniture[s].code = Furniture[o].code => s = o
    /\ Reserved \subseteq BookingRow
    /\ \A row \in Reserved : /\ row.seat \in DOMAIN Furniture
                             /\ row.room = Furniture[row.seat].room
                             /\ row.missed => row.status = "EXPIRED"

VARIABLE
    stable,     \* history: visit -> [rows, withdrawn, made], see Watched
    moved       \* history: seats that have been moved to another room

vars == <<catalogVars, visitVars, stable, moved>>

TypeOK ==
    /\ CatalogTypeOK /\ VisitsTypeOK
    /\ stable \in [Visits -> [rows : SUBSET (Rooms \cup Seats \cup Bookings \cup Students),
                              withdrawn : BOOLEAN, made : SUBSET Bookings]]
    /\ moved \subseteq Seats

-----------------------------------------------------------------------------
(* While a visit reads: what its answer is about, as it is now.  The seats *)
(* of the room, the rows of the listing, the seat to be booked, the        *)
(* accounts that go by what was typed.                                     *)
Watching(v) ==
    \/ visit[v].pc \in {"occupied", "page", "total", "ask", "asked", "byNumber", "again"}
    \/ At(v, "book", "commit")

Watched(v) ==
    LET q == visit[v] IN
    CASE q.pc = "occupied" -> IF Visible(q.room, q.user) THEN SeatsShown(q.room) ELSE {}
      [] q.pc \in {"page", "total", "ask", "asked"} -> Eligible(v)
      [] q.kind = "locate" -> Matches(q.typed)
      [] OTHER -> IF Visible(q.room, q.user) THEN {q.seat} \cap SeatsShown(q.room) ELSE {}

(* The rows that were there all the time, whether any went away, and the   *)
(* reservations there were when the assistant read who holds a seat.       *)
Track ==
    /\ stable' = [v \in Visits |->
          LET was == stable[v]
              made == IF ~At(v, "available", "asked")' THEN {}
                      ELSE IF At(v, "available", "asked") THEN was.made ELSE Made
          IN  IF ~Watching(v)' THEN [was EXCEPT !.made = {}]
              ELSE IF ~Watching(v) \/ visit[v].kind # visit'[v].kind
                   THEN [rows |-> Watched(v)', withdrawn |-> FALSE, made |-> {}]
              ELSE [rows |-> was.rows \cap Watched(v)', made |-> made,
                    withdrawn |-> was.withdrawn \/ ~(Watched(v) \subseteq Watched(v)')]]
    /\ moved' = moved \cup {s \in Seats : seat[s] # None /\ seat'[s].room # seat[s].room}

Init ==
    /\ department = [d \in Departments |-> IF d \in Founded THEN "active" ELSE "absent"]
    /\ account \in Enrolled
    /\ room = [r \in Rooms |-> IF r \in DOMAIN Building THEN Building[r] ELSE None]
    /\ seat = [s \in Seats |-> IF s \in DOMAIN Furniture THEN Furniture[s] ELSE None]
    /\ change = [w \in Writers |-> [pc |-> "idle", op |-> None, seen |-> None]]
    /\ \E row \in Reserved : VisitsInit(row)
    /\ stable = [v \in Visits |-> [rows |-> {}, withdrawn |-> FALSE, made |-> {}]]
    /\ moved = {}

Requested ==
    Cardinality({w \in Writers : change[w].pc # "idle"})
        + Cardinality({v \in Visits : visit[v].pc # "idle"})

Operate ==
    /\ (CatalogNext /\ UNCHANGED visitVars) \/ VisitsNext
    /\ Requested' <= MaxRequests
    /\ Track

Finished ==
    /\ now = MaxTime
    /\ \A w \in Writers : change[w].pc # "write"
    /\ \A v \in Visits : visit[v].pc \in {"idle", "done", "refused"}
    /\ UNCHANGED vars

Next == Operate \/ Finished

Spec == Init /\ [][Next]_vars

-----------------------------------------------------------------------------
(* A reservation is made for a seat in use, in the room it is recorded     *)
(* for, that the student may use, unless the catalogue was changed between *)
(* the snapshot and the commit (reservation_service.py:129).               *)
BookingsAreStaleByRacesOnly ==
    \A v \in Visits : At(v, "book", "done") =>
        stable[v].withdrawn \/ visit[v].seat \in stable[v].rows

(* What a student is shown free is free.  On the page of a room, for a     *)
(* seat that stayed in the room while the page was made, and has not been  *)
(* moved since it was first booked, "AVAILABLE" means that no reservation  *)
(* stands in the way of booking it at that moment, and "OCCUPIED" that one *)
(* does, although the page goes by the room of a reservation and booking   *)
(* by its seat.  The assistant, which reads who holds a seat first, offers *)
(* no seat that was held then and still is.                                *)
AvailabilityAgreesWithBooking ==
    [][\A v \in Visits :
          LET q == visit[v]
              taken(s, rows) == \E b \in rows : /\ Holding(b) /\ booking[b].seat = s
                                                /\ Meets(booking[b].window, q.window)
          IN  /\ At(v, "availability", "occupied") /\ visit'[v].pc = "done" =>
                    \A s \in stable[v].rows \ moved :
                        (s \in visit'[v].listed) = ~taken(s, Made)
              /\ At(v, "available", "asked") /\ visit'[v].pc = "ask" =>
                    \A s \in (visit'[v].offered \ q.offered) \ moved :
                        ~taken(s, stable[v].made)]_vars

(* A listing that is read page by page is complete: what belonged in it    *)
(* from its first statement to its last is in it, unless something that    *)
(* belonged in it went away, which moves later rows to an earlier page     *)
(* (query_service.py of the assistant, _list_visible_rooms and             *)
(* _list_today_reservations); and only then may what is asked for each     *)
(* room listed fail (_query_available_seats, get_current_dynamic_codes).   *)
PagedListingsAreComplete ==
    \A v \in Visits :
        LET q == visit[v] IN
        /\ \/ q.pc \in {"ask", "asked"}
           \/ q.pc = "done" /\ q.kind \in {"available", "attributes", "reservations", "codes"}
           => stable[v].withdrawn \/ stable[v].rows \subseteq q.listed
        /\ q.pc = "refused" /\ q.kind \in {"available", "attributes", "codes"}
           => stable[v].withdrawn

(* However the sweep falls between its statements, the statistics page     *)
(* shows no more violations than reservations they are divided by, but for *)
(* those a cancellation has written over (statistics_service.py).          *)
ViolationRateAtMostOne ==
    \A v \in Visits : At(v, "statistics", "done") =>
        visit[v].violations <= visit[v].denominator
            + Cardinality({b \in InScope(v) : booking[b].missed /\ booking[b].status = "CANCELLED"})

(* The account that is found to have its roles changed is the one that was *)
(* typed: any other that goes by the same number appeared during the       *)
(* lookup (resolve_user_for_role_assignment, permission_service.py).       *)
LocatedIsMeant ==
    \A v \in Visits : visit[v].kind = "locate" /\ visit[v].pc = "done" =>
        /\ visit[v].user \in Matches(visit[v].typed)
        /\ visit[v].typed.prefix = "" => stable[v].rows \subseteq {visit[v].user}

(* Who checks in brings a code that the room of the reservation showed     *)
(* less than one slice before the request arrived, in the time for it,     *)
(* whatever the clock did until the commit (code_service.py,               *)
(* checkin_service.py).                                                    *)
CheckedInAtTheDoor ==
    [][\A v \in Visits :
          At(v, "checkin", "commit") /\ visit'[v].pc = "done" =>
              LET q == visit[v]
                  b == booking[q.booking]
              IN  /\ q.room = b.room
                  /\ q.at - q.code < SliceLength
                  /\ b.window[1] <= q.at /\ q.at <= b.window[1] + Grace]_vars

(* Whatever else may break a request, a key refuses a write without the    *)
(* administrator being told of the conflict only when two requests put     *)
(* seats into one place at once and the other one committed, one of them   *)
(* through the API: departments and accounts expect that race              *)
(* (department_service.py, user_service.py), seats do not                  *)
(* (seat_service.py), and the forms of the portal cannot race with each    *)
(* other.                                                                  *)
KeyFailuresAreSeatRaces ==
    LET places == {"createSeat", "updateSeat"} IN
    \A w \in Writers : change[w].pc = "failed" =>
        /\ change[w].op.kind \in places
        /\ \E o \in Writers \ {w} :
              /\ change[o].pc \in {"done", "unconfirmed"} /\ change[o].op.kind \in places
              /\ "api" \in {change[w].op.via, change[o].op.via}
=============================================================================
