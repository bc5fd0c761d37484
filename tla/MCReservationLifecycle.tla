----------------------- MODULE MCReservationLifecycle -----------------------
(***************************************************************************)
(* Two reservations of two users that compete for one seat: 1 covers       *)
(* [1, 4), 2 covers [2, 5), so 2 can be booked only once 1 is released.    *)
(* The window of 1 is [1, 2], it is overdue at 3; for 2 one tick later.    *)
(***************************************************************************)
EXTENDS ReservationLifecycle

MCReservations == 1..2
MCSeatOf       == <<"s1", "s1">>
MCUserOf       == <<"u1", "u2">>
MCStartOf      == <<1, 2>>
MCUntil        == <<4, 5>>

MCCancels ==
    {[target |-> 1, source |-> "STUDENT"],
     [target |-> 1, source |-> "ADMIN"]}

(* Two submissions for reservation 1 (a double click) and one for 2.       *)
MCCheckins ==
    {[target |-> 1, click |-> 1], [target |-> 1, click |-> 2], [target |-> 2, click |-> 1]}

(* Two bookings of different seats and users that fall due together.       *)
PairSeatOf    == <<"s1", "s2">>
PairStartOf   == <<1, 1>>
PairUntil     == <<3, 3>>
PairCancels   == {[target |-> 2, source |-> "ADMIN"]}
PairCheckins  == {[target |-> 1, click |-> 1]}
=============================================================================
