------------------------- MODULE ReservationLifecycle -------------------------
(***************************************************************************)
(* The life of a reservation after it is booked: cancellation by students  *)
(* and administrators (reservation module), check-in by students (checkin  *)
(* module) and the periodic release of overdue bookings with its violation *)
(* record (checkin and violation modules), all on one table, without a     *)
(* common lock.  Each operation is split where another session can get in  *)
(* between: after every SELECT, and between the row-locking UPDATEs of a   *)
(* sweep.  A write and the COMMIT that follows it at once are one action.  *)
(***************************************************************************)
EXTENDS Integers, FiniteSets

CONSTANTS
    Reservations,           \* ids (integers)
    Seats, Users, SeatOf, UserOf, StartOf, Until,
    Grace, Threshold,       \* checkin_grace_minutes, violation_threshold_minutes
    Cancels,                \* cancellation requests: [target, source]
    Checkins,               \* check-in requests: [target]
    Sweepers,               \* scheduler loops, one per server process
    MaxTime,                \* bound on the clock
    MaxFailures             \* bound on failed sweeps

ASSUME LifecycleAssumption ==
    /\ Reservations \subseteq Int
    /\ SeatOf \in [Reservations -> Seats] /\ UserOf \in [Reservations -> Users]
    /\ StartOf \in [Reservations -> Nat] /\ Until \in [Reservations -> Nat]
    /\ Grace \in Nat /\ Threshold \in Nat /\ Grace <= Threshold
    /\ \A c \in Cancels : /\ c.target \in Reservations
                          /\ c.source \in {"STUDENT", "ADMIN"}
    /\ \A k \in Checkins : k.target \in Reservations
    /\ MaxTime \in Nat /\ MaxFailures \in Nat

VARIABLES
    now,            \* datetime.now()
    status,         \* reservation -> its committed status, "NONE" before booking
    records,        \* reservations with a valid check-in record
    violations,     \* reservations with a no-show violation
    cancelPc,       \* cancellation request -> its next statement
    checkin,        \* check-in request -> [pc, at], at is its "now"
    sweep,          \* sweeper -> [pc, cutoff, todo, marked]
    failures        \* failed sweeps so far

vars == <<now, status, records, violations, cancelPc, checkin, sweep, failures>>
actors == <<cancelPc, checkin, sweep, failures>>

Statuses == {"NONE", "BOOKED", "CHECKED_IN", "CANCELLED", "EXPIRED"}
Idle     == [pc |-> "idle", cutoff |-> 0, todo |-> {}, marked |-> {}]

TypeOK ==
    /\ now \in 0..MaxTime
    /\ status \in [Reservations -> Statuses]
    /\ records \subseteq Reservations
    /\ violations \subseteq Reservations
    /\ cancelPc \in [Cancels -> {"idle", "loaded", "approved", "done", "refused"}]
    /\ checkin \in [Checkins -> [pc : {"idle", "arrived", "eligible", "done", "refused"},
                                 at : 0..MaxTime]]
    /\ sweep \in [Sweepers -> [pc : {"idle", "begun", "marking"},
                               cutoff : -Threshold..MaxTime,
                               todo : SUBSET Reservations,
                               marked : SUBSET Reservations]]
    /\ failures \in 0..MaxFailures

Init ==
    /\ now = 0
    /\ status = [r \in Reservations |-> "NONE"]
    /\ records = {}
    /\ violations = {}
    /\ cancelPc = [c \in Cancels |-> "idle"]
    /\ checkin = [k \in Checkins |-> [pc |-> "idle", at |-> 0]]
    /\ sweep = [s \in Sweepers |-> Idle]
    /\ failures = 0

-----------------------------------------------------------------------------
(* The write path of a booking as BookingWrite proves it: the start is in  *)
(* the future and no active row of the seat or the user overlaps.          *)
Active(r) == status[r] \in {"BOOKED", "CHECKED_IN"}

Overlaps(q, r) == StartOf[r] < Until[q] /\ Until[r] > StartOf[q]

Book(r) ==
    /\ status[r] = "NONE"
    /\ now < StartOf[r] /\ StartOf[r] < Until[r]
    /\ \A q \in Reservations :
          /\ Active(q)
          /\ SeatOf[q] = SeatOf[r] \/ UserOf[q] = UserOf[r]
          => ~Overlaps(r, q)
    /\ status' = [status EXCEPT ![r] = "BOOKED"]
    /\ UNCHANGED <<now, records, violations, actors>>

(* Rows another transaction has updated and not yet committed: an UPDATE   *)
(* of such a row waits.                                                    *)
RowLocked(r) == \E s \in Sweepers : r \in sweep[s].marked

-----------------------------------------------------------------------------
(* Cancellation.  session.get loads the row, the status test looks at the  *)
(* loaded copy, a student is held to the time before the start, and the    *)
(* flush sends UPDATE ... WHERE id = ?, whatever the row says by then.     *)
CancelLoad(c) ==
    /\ cancelPc[c] = "idle"
    /\ status[c.target] # "NONE"
    /\ cancelPc' = [cancelPc EXCEPT ![c] =
                       IF status[c.target] = "BOOKED" THEN "loaded" ELSE "refused"]
    /\ UNCHANGED <<now, status, records, violations, checkin, sweep, failures>>

CancelApprove(c) ==
    /\ cancelPc[c] = "loaded"
    /\ cancelPc' = [cancelPc EXCEPT ![c] =
                       IF c.source = "STUDENT" /\ now >= StartOf[c.target]
                       THEN "refused" ELSE "approved"]
    /\ UNCHANGED <<now, status, records, violations, checkin, sweep, failures>>

CancelWrite(c) ==
    LET r == c.target IN
    /\ cancelPc[c] = "approved"
    /\ ~RowLocked(r)
    /\ status' = [status EXCEPT ![r] = "CANCELLED"]
    /\ cancelPc' = [cancelPc EXCEPT ![c] = "done"]
    /\ UNCHANGED <<now, records, violations, checkin, sweep, failures>>

-----------------------------------------------------------------------------
(* Check-in.  The request reads the clock first, then the reservation and  *)
(* its record; the code is valid here (it is checked between the two).     *)
CheckinArrive(k) ==
    /\ checkin[k].pc = "idle"
    /\ status[k.target] # "NONE"
    /\ checkin' = [checkin EXCEPT ![k] = [pc |-> "arrived", at |-> now]]
    /\ UNCHANGED <<now, status, records, violations, cancelPc, sweep, failures>>

InWindow(r, t) == StartOf[r] <= t /\ t <= StartOf[r] + Grace

Eligible(k) ==
    /\ status[k.target] = "BOOKED"
    /\ k.target \notin records
    /\ InWindow(k.target, checkin[k].at)

CheckinRead(k) ==
    /\ checkin[k].pc = "arrived"
    /\ checkin' = [checkin EXCEPT ![k].pc = IF Eligible(k) THEN "eligible" ELSE "refused"]
    /\ UNCHANGED <<now, status, records, violations, cancelPc, sweep, failures>>

(* Mutant: the UPDATE without its test of the status.                      *)
StillThere(r) == status[r] # "NONE"

(* transition_status: UPDATE ... WHERE id = ? AND status = BOOKED.         *)
StillBooked(r) == status[r] = "BOOKED"

(* One transaction: the record (unique per reservation) and the guarded    *)
(* UPDATE; if either fails, both are rolled back.                          *)
CheckinWrite(k) ==
    LET r == k.target
        accepted == r \notin records /\ StillBooked(r)
    IN
    /\ checkin[k].pc = "eligible"
    /\ ~RowLocked(r)
    /\ checkin' = [checkin EXCEPT ![k].pc = IF accepted THEN "done" ELSE "refused"]
    /\ status' = [status EXCEPT ![r] = IF accepted THEN "CHECKED_IN" ELSE @]
    /\ records' = IF accepted THEN records \cup {r} ELSE records
    /\ UNCHANGED <<now, violations, cancelPc, sweep, failures>>

-----------------------------------------------------------------------------
(* The timeout release.  One transaction reads the candidates, then for    *)
(* each, earliest first, marks it and adds the violation, and commits all. *)
(* Mutants: the grace minutes instead of the threshold, and a cutoff that  *)
(* adds the threshold.                                                     *)
SweepBeginAtGrace(s) ==
    /\ sweep[s].pc = "idle"
    /\ sweep' = [sweep EXCEPT ![s].pc = "begun", ![s].cutoff = now - Grace]
    /\ UNCHANGED <<now, status, records, violations, cancelPc, checkin, failures>>

SweepBeginAhead(s) ==
    /\ sweep[s].pc = "idle"
    /\ sweep' = [sweep EXCEPT ![s].pc = "begun", ![s].cutoff = now + Threshold]
    /\ UNCHANGED <<now, status, records, violations, cancelPc, checkin, failures>>

SweepBegin(s) ==
    /\ sweep[s].pc = "idle"
    /\ sweep' = [sweep EXCEPT ![s].pc = "begun", ![s].cutoff = now - Threshold]
    /\ UNCHANGED <<now, status, records, violations, cancelPc, checkin, failures>>

Overdue(r, cutoff) == status[r] = "BOOKED" /\ StartOf[r] <= cutoff

SweepList(s) ==
    /\ sweep[s].pc = "begun"
    /\ sweep' = [sweep EXCEPT ![s].pc = "marking",
                              ![s].todo = {r \in Reservations : Overdue(r, sweep[s].cutoff)}]
    /\ UNCHANGED <<now, status, records, violations, cancelPc, checkin, failures>>

(* Mutant: the candidates in any order.                                    *)
IsAny(r, todo) == r \in todo

(* ORDER BY start_time, id.                                                *)
IsNext(r, todo) ==
    /\ r \in todo
    /\ \A q \in todo : StartOf[r] < StartOf[q] \/ (StartOf[r] = StartOf[q] /\ r <= q)

SweepMark(s) ==
    \E r \in sweep[s].todo :
        /\ sweep[s].pc = "marking"
        /\ IsNext(r, sweep[s].todo)
        /\ ~RowLocked(r)
        /\ sweep' = [sweep EXCEPT ![s].todo = @ \ {r},
                                  ![s].marked = IF StillBooked(r) THEN @ \cup {r} ELSE @]
        /\ UNCHANGED <<now, status, records, violations, cancelPc, checkin, failures>>

(* Mutant: the sweep commits the rows and leaves the violations behind.    *)
SweepCommitRowsOnly(s) ==
    /\ sweep[s].pc = "marking" /\ sweep[s].todo = {}
    /\ status' = [r \in Reservations |->
                     IF r \in sweep[s].marked THEN "EXPIRED" ELSE status[r]]
    /\ sweep' = [sweep EXCEPT ![s] = Idle]
    /\ UNCHANGED <<now, records, violations, cancelPc, checkin, failures>>

SweepCommit(s) ==
    /\ sweep[s].pc = "marking" /\ sweep[s].todo = {}
    /\ status' = [r \in Reservations |->
                     IF r \in sweep[s].marked THEN "EXPIRED" ELSE status[r]]
    /\ violations' = violations \cup sweep[s].marked
    /\ sweep' = [sweep EXCEPT ![s] = Idle]
    /\ UNCHANGED <<now, records, cancelPc, checkin, failures>>

(* A failed statement or a crash: _run_task rolls the whole sweep back and *)
(* the next tick starts over.                                              *)
SweepFail(s) ==
    /\ sweep[s].pc # "idle"
    /\ failures < MaxFailures
    /\ failures' = failures + 1
    /\ sweep' = [sweep EXCEPT ![s] = Idle]
    /\ UNCHANGED <<now, status, records, violations, cancelPc, checkin>>

Tick ==
    /\ now < MaxTime
    /\ now' = now + 1
    /\ UNCHANGED <<status, records, violations, actors>>

-----------------------------------------------------------------------------
Sweeping(s) == SweepBegin(s) \/ SweepList(s) \/ SweepMark(s) \/ SweepCommit(s)

Next ==
    \/ \E r \in Reservations : Book(r)
    \/ \E c \in Cancels : CancelLoad(c) \/ CancelApprove(c) \/ CancelWrite(c)
    \/ \E k \in Checkins : CheckinArrive(k) \/ CheckinRead(k) \/ CheckinWrite(k)
    \/ \E s \in Sweepers : Sweeping(s) \/ SweepFail(s)
    \/ Tick

Spec == Init /\ [][Next]_vars

(* Time passes and every scheduler loop keeps ticking and running; nothing *)
(* is assumed of students and administrators.                              *)
FairSpec == Spec /\ WF_vars(Tick) /\ \A s \in Sweepers : WF_vars(Sweeping(s))

-----------------------------------------------------------------------------
LedgerOf ==
    [r \in Reservations |->
        IF status[r] = "NONE" THEN "none"
        ELSE IF status[r] \in {"BOOKED", "CHECKED_IN"} THEN "held" ELSE "released"]

Ledger == INSTANCE BookingLedger WITH
    Requests <- Reservations, From <- StartOf, ledger <- LedgerOf

(* Whatever cancellations, check-ins and sweeps do to a row, in whatever   *)
(* order, it never becomes active again once released, so they keep the    *)
(* promise the write path was proved to keep.                              *)
ImplementsLedger == Ledger!Spec

(* A student who checked in gets no violation, and a student with a        *)
(* violation has no valid check-in: the sweep and the check-in decide the  *)
(* same row, each by a guarded UPDATE, and only one of them can win.       *)
AttendedOrMissed == records \cap violations = {}

(* Everything the sweep does to a reservation it does at once: an expired  *)
(* reservation has its violation, and a checked-in one its record.         *)
TransactionsAreWhole ==
    \A r \in Reservations :
        /\ status[r] = "EXPIRED" => r \in violations
        /\ status[r] = "CHECKED_IN" => r \in records

(* Nobody is punished early or twice over: a reservation gets a violation  *)
(* only when its threshold has passed by the time the sweep commits, and   *)
(* the commit is what takes it out of BOOKED.                              *)
NoEarlyViolation ==
    [][\A r \in violations' \ violations :
          /\ now >= StartOf[r] + Threshold
          /\ status[r] = "BOOKED"]_vars

(* A booking nobody touches does not hold its seat for ever: it leaves     *)
(* BOOKED by check-in, by cancellation or by the sweep.                    *)
EveryBookingSettles ==
    \A r \in Reservations : status[r] = "BOOKED" ~> status[r] # "BOOKED"

(* "Only booked reservations can be cancelled.", says the error message of *)
(* the cancellation.  It does not hold: the message comes from the loaded  *)
(* copy, and a check-in or a sweep may commit before the write.            *)
OnlyBookedIsCancelled ==
    [][\A r \in Reservations :
          status'[r] = "CANCELLED" /\ status[r] # "CANCELLED" => status[r] = "BOOKED"]_vars
=============================================================================
