---------------------------- MODULE MCSeatCatalog ----------------------------
EXTENDS SeatCatalog, TLC

CONSTANTS u1, u2, d1, d2, w1, w2, v1, v2

Day == <<1, 5>>
Morning == <<1, 2>>
Public == [department |-> None, only |-> FALSE, active |-> TRUE, hours |-> Day]
Own == [Public EXCEPT !.department = d1, !.only = TRUE]
Desk(r, c) == [room |-> r, code |-> c, active |-> TRUE]

TwoRooms == <<Public, Own>>
TwoSeats == <<Desk(1, "A1"), Desk(2, "A1")>>

Accounts == {u1 :> d1 @@ u2 :> "absent"}
Earlier == {[user |-> u1, seat |-> 1, room |-> 1, window |-> <<1, 4>>,
             status |-> "BOOKED", missed |-> FALSE]}

(* The one's number is the other's id.                                     *)
MCIds == u1 :> 1 @@ u2 :> 2
MCNumbers == u1 :> 2 @@ u2 :> 7
MCTyped == [prefix : {""}, value : {2, 7}]
           \cup {[prefix |-> "id:", value |-> 2], [prefix |-> "student:", value |-> 2]}

MCHours == {Day, Morning}
MCWindows == {<<1, 4>>}

MCChanges ==
    {[kind |-> "createDepartment", via |-> "api", department |-> d2],
     [kind |-> "deactivateDepartment", via |-> "portal", department |-> d1],
     [kind |-> "activateDepartment", via |-> "portal", department |-> d1],
     [kind |-> "createUser", via |-> "api", user |-> u2, department |-> None],
     [kind |-> "createRoom", via |-> "portal", row |-> [Own EXCEPT !.hours = Morning]],
     [kind |-> "updateRoom", via |-> "api", room |-> 1, row |-> Own],
     [kind |-> "deactivateRoom", via |-> "portal", room |-> 1],
     [kind |-> "updateSeat", via |-> "api", seat |-> 1, row |-> Desk(2, "A2")],
     [kind |-> "createSeat", via |-> "portal", row |-> Desk(2, "A2")],
     [kind |-> "deactivateSeat", via |-> "api", seat |-> 1]}

Symmetric == Permutations({w1, w2}) \cup Permutations({v1, v2})
=============================================================================
