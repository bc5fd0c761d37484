---------------------------- MODULE BookingLedger ----------------------------
(***************************************************************************)
(* What the reservation component promises, whatever its locks and         *)
(* transactions do: a ledger of reservations in which an entry is held     *)
(* only if, at every instant it covers, no other held entry has the same   *)
(* seat or the same user; and in which a released entry never comes back.  *)
(*                                                                         *)
(* BookingWrite and ReservationLifecycle implement it (see Ledger there).  *)
(***************************************************************************)
EXTENDS Integers, TLAPS

CONSTANTS
    Requests,       \* the reservation requests, each of which may become an entry
    Seats, Users,
    SeatOf, UserOf, \* the seat and the user a request names
    From, Until     \* the half-open interval [From, Until) it asks for

VARIABLE ledger     \* request -> "none" | "held" | "released"

TypeOK == ledger \in [Requests -> {"none", "held", "released"}]

-----------------------------------------------------------------------------
Covers(q, t) == From[q] <= t /\ t < Until[q]

SameSeatOrUser(q, r) == SeatOf[q] = SeatOf[r] \/ UserOf[q] = UserOf[r]

(* Two requests compete when some instant belongs to both.  Two intervals  *)
(* that meet at all meet where one of them starts, so starts are enough.   *)
Compete(q, r) ==
    /\ SameSeatOrUser(q, r)
    /\ \E t \in {From[q], From[r]} : Covers(q, t) /\ Covers(r, t)

Held(q) == ledger[q] = "held"

-----------------------------------------------------------------------------
Init == ledger = [q \in Requests |-> "none"]

Hold(q) ==
    /\ ledger[q] = "none"
    /\ \A r \in Requests : Held(r) => ~Compete(q, r)
    /\ ledger' = [ledger EXCEPT ![q] = "held"]

(* A sweep releases several entries by one commit.                         *)
Release(S) ==
    /\ S # {} /\ \A q \in S : Held(q)
    /\ ledger' = [q \in Requests |-> IF q \in S THEN "released" ELSE ledger[q]]

Next ==
    \/ \E q \in Requests : Hold(q)
    \/ \E S \in SUBSET Requests : Release(S)

Spec == Init /\ [][Next]_ledger

-----------------------------------------------------------------------------
(* Nobody sits on an occupied seat and nobody sits on two seats at once:   *)
(* no two held entries of one seat or one user share an instant.           *)
NoDoubleBooking ==
    \A q, r \in Requests : q # r /\ Held(q) /\ Held(r) => ~Compete(q, r)

-----------------------------------------------------------------------------
(* To compete is to share any instant at all, not just a start.            *)
LEMMA CompetingIsSharing ==
    ASSUME From \in [Requests -> Int], Until \in [Requests -> Int],
           NEW q \in Requests, NEW r \in Requests
    PROVE  Compete(q, r) <=> /\ SameSeatOrUser(q, r)
                             /\ \E t \in Int : Covers(q, t) /\ Covers(r, t)
<1>1. From[q] \in Int /\ From[r] \in Int /\ Until[q] \in Int /\ Until[r] \in Int
  OBVIOUS
<1>2. ASSUME NEW t \in Int, Covers(q, t), Covers(r, t)
      PROVE  \E u \in {From[q], From[r]} : Covers(q, u) /\ Covers(r, u)
  <2>1. CASE From[q] <= From[r]
    BY <1>1, <1>2, <2>1 DEF Covers
  <2>2. CASE From[r] <= From[q]
    BY <1>1, <1>2, <2>2 DEF Covers
  <2>3. QED
    BY <1>1, <2>1, <2>2
<1>3. QED
  BY <1>1, <1>2 DEF Compete

(* Two different requests compete in both orders or in neither.            *)
LEMMA CompeteSymmetric ==
    ASSUME NEW q \in Requests, NEW r \in Requests
    PROVE  Compete(q, r) <=> Compete(r, q)
  BY DEF Compete, SameSeatOrUser

(* The ledger never holds two competing entries, for any requests.         *)
THEOREM LedgerSafe == Spec => [](TypeOK /\ NoDoubleBooking)
<1> USE DEF TypeOK, NoDoubleBooking, Held
<1>1. Init => TypeOK /\ NoDoubleBooking
  BY DEF Init
<1>2. TypeOK /\ NoDoubleBooking /\ [Next]_ledger => (TypeOK /\ NoDoubleBooking)'
  <2> SUFFICES ASSUME TypeOK, NoDoubleBooking, [Next]_ledger
               PROVE  TypeOK' /\ NoDoubleBooking'
    OBVIOUS
  <2>1. CASE UNCHANGED ledger
    BY <2>1
  <2>2. ASSUME NEW q \in Requests, Hold(q)
        PROVE  TypeOK' /\ NoDoubleBooking'
    BY <2>2, CompeteSymmetric DEF Hold
  <2>3. ASSUME NEW S \in SUBSET Requests, Release(S)
        PROVE  TypeOK' /\ NoDoubleBooking'
    BY <2>3 DEF Release
  <2>4. QED
    BY <2>1, <2>2, <2>3 DEF Next
<1>3. QED
  BY <1>1, <1>2, PTL DEF Spec
=============================================================================
