--------------------------- MODULE MCBookingWrite ---------------------------
(***************************************************************************)
(* Small instances of BookingWrite.  Requests 1 and 2 want one seat at     *)
(* overlapping times; 3 wants another seat for the user of 2 while 2 would *)
(* sit, and starts exactly where 1 ends.  1 runs in one process, 2 and 3   *)
(* in the other.                                                           *)
(***************************************************************************)
EXTENDS BookingWrite

MCRequests  == 1..3
MCSeats     == {"s1", "s2"}
MCUsers     == {"u1", "u2"}
MCSeatOf    == <<"s1", "s1", "s2">>
MCUserOf    == <<"u1", "u2", "u2">>
MCFrom      == <<0, 1, 2>>
MCUntil     == <<2, 3, 4>>

MCTwoProcesses == <<"p1", "p2", "p2">>

(* The three most likely to wait for one another: one seat, one user, the  *)
(* first two in one process, where the second is the portal's.  The third  *)
(* is a request that ends where it starts: it is refused, after it took    *)
(* the locks.                                                              *)
TrioRequests  == 1..3
TrioSeatOf    == <<"s1", "s1", "s1">>
TrioUserOf    == <<"u1", "u1", "u1">>
TrioFrom      == <<0, 1, 2>>
TrioUntil     == <<2, 3, 2>>
TrioProcessOf == <<"p1", "p1", "p2">>
=============================================================================
