----------------------------- MODULE BookingWrite -----------------------------
(***************************************************************************)
(* The write path of a new reservation:                                    *)
(* ReservationService._create_reservation inside                           *)
(* ConflictService.serialized_reservation_write, statement by statement.   *)
(*                                                                         *)
(* Every request runs in a thread of some server process.  It takes two    *)
(* in-process locks (seat, then user), on PostgreSQL the two transaction-  *)
(* level advisory locks as well, re-checks the seat, the user, the window  *)
(* and both overlap rules with separate SELECTs at READ COMMITTED, inserts *)
(* and commits.  The commit, not the end of the block, releases the        *)
(* advisory locks.  A statement may fail, a process may crash, and other   *)
(* endpoints change rows between any two statements.                       *)
(*                                                                         *)
(* The handlers of the API run in a thread pool, those of the portal are   *)
(* coroutines that call the same synchronous code on the event loop: while *)
(* one of them waits for a lock, its process starts no request and closes  *)
(* no session.                                                             *)
(***************************************************************************)
EXTENDS Integers

CONSTANTS
    Requests, Seats, Users,
    SeatOf, UserOf, From, Until,
    Processes, ProcessOf,   \* server processes; the one each request runs in
    Portal,                 \* the requests served by a coroutine of the portal
    Postgres,               \* TRUE: advisory locks; FALSE: SQLite, thread locks only
    MaxCrashes,             \* bound on process crashes
    Nobody                  \* owner of a free lock

ASSUME RequestAssumption ==
    /\ SeatOf \in [Requests -> Seats]
    /\ UserOf \in [Requests -> Users]
    /\ From \in [Requests -> Int]
    /\ Until \in [Requests -> Int]
    /\ ProcessOf \in [Requests -> Processes]
    /\ Nobody \notin Requests

ASSUME PortalAssumption == Portal \subseteq Requests

(* Without advisory locks only one process may write: the thread locks are *)
(* a module-level dictionary of that process.                              *)
ASSUME DeploymentAssumption ==
    /\ Postgres \in BOOLEAN
    /\ MaxCrashes \in Nat
    /\ ~Postgres => \A q, r \in Requests : ProcessOf[q] = ProcessOf[r]

VARIABLES
    pc,             \* request -> the statement it executes next
    answer,         \* request -> what the caller was told
    status,         \* request -> status of its committed row, "NONE" without one
    threadLock,     \* process -> key -> owner of the threading.Lock
    advisory,       \* key -> owner of the advisory lock in the database
    crashes         \* crashes so far

vars == <<pc, answer, status, threadLock, advisory, crashes>>
locks == <<threadLock, advisory>>

Keys == ({"seat"} \X Seats) \cup ({"user"} \X Users)
SeatKey(q) == <<"seat", SeatOf[q]>>
UserKey(q) == <<"user", UserOf[q]>>

Statuses == {"NONE", "BOOKED", "CHECKED_IN", "CANCELLED", "EXPIRED"}
Answers  == {"none", "created", "rejected", "error"}

(* Where a request stands.  Queueing: before both thread locks are held.   *)
(* Guarded: inside the try block that rolls back.  Leaving: the way out.   *)
(* Ghost: the process is gone, its database session not yet.               *)
Guarded  == {"eligibility", "seatConflict", "userOverlap", "insert", "refresh"}
Leaving  == {"rollback", "unlockUser", "unlockSeat", "close"}
Ghost    == {"orphan", "inflight"}
Running  == {"threadSeat", "threadUser", "advisorySeat", "advisoryUser"}
              \cup Guarded \cup Leaving
Counters == {"idle", "done", "dead"} \cup Running \cup Ghost

TypeOK ==
    /\ pc \in [Requests -> Counters]
    /\ answer \in [Requests -> Answers]
    /\ status \in [Requests -> Statuses]
    /\ threadLock \in [Processes -> [Keys -> Requests \cup {Nobody}]]
    /\ advisory \in [Keys -> Requests \cup {Nobody}]
    /\ crashes \in Nat

Init ==
    /\ pc = [q \in Requests |-> "idle"]
    /\ answer = [q \in Requests |-> "none"]
    /\ status = [q \in Requests |-> "NONE"]
    /\ threadLock = [p \in Processes |-> [k \in Keys |-> Nobody]]
    /\ advisory = [k \in Keys |-> Nobody]
    /\ crashes = 0

-----------------------------------------------------------------------------
(* Rows that block others: status IN (BOOKED, CHECKED_IN).                 *)
Active(q) == status[q] \in {"BOOKED", "CHECKED_IN"}

(* Mutant: only a row that covers the start of the new one counts.         *)
OverlapsAtStart(q, r) == From[r] <= From[q] /\ Until[r] > From[q]

(* The WHERE clause of both conflict queries.                              *)
Overlaps(q, r) == From[r] < Until[q] /\ Until[r] > From[q]

SeatConflict(q) ==
    \E r \in Requests : Active(r) /\ SeatOf[r] = SeatOf[q] /\ Overlaps(q, r)

UserOverlap(q) ==
    \E r \in Requests : Active(r) /\ UserOf[r] = UserOf[q] /\ Overlaps(q, r)

(* What the end of q's transaction leaves of the advisory locks.           *)
WithoutAdvisory(q) ==
    [k \in Keys |-> IF advisory[k] = q THEN Nobody ELSE advisory[k]]

Go(q, from, to) == pc[q] = from /\ pc' = [pc EXCEPT ![q] = to]

-----------------------------------------------------------------------------
(* The event loop of p runs no coroutine: after its form is parsed         *)
(* create_reservation_page awaits nothing until its answer is returned.    *)
LoopIsFree(p) ==
    \A q \in Portal : ProcessOf[q] = p => pc[q] \notin Running \ {"close"}

Arrive(q) ==
    /\ LoopIsFree(ProcessOf[q])
    /\ Go(q, "idle", "threadSeat")
    /\ UNCHANGED <<answer, status, locks, crashes>>

TakeThreadLock(q, k, from, to) ==
    /\ Go(q, from, to)
    /\ threadLock[ProcessOf[q]][k] = Nobody
    /\ threadLock' = [threadLock EXCEPT ![ProcessOf[q]][k] = q]
    /\ UNCHANGED <<answer, status, advisory, crashes>>

TakeThreadSeat(q) == TakeThreadLock(q, SeatKey(q), "threadSeat", "threadUser")
TakeThreadUser(q) ==
    TakeThreadLock(q, UserKey(q), "threadUser",
                   IF Postgres THEN "advisorySeat" ELSE "eligibility")

(* SELECT pg_advisory_xact_lock(namespace, value) waits for the owner.     *)
TakeAdvisory(q, k, from, to) ==
    /\ Go(q, from, to)
    /\ advisory[k] = Nobody
    /\ advisory' = [advisory EXCEPT ![k] = q]
    /\ UNCHANGED <<answer, status, threadLock, crashes>>

TakeAdvisorySeat(q) == TakeAdvisory(q, SeatKey(q), "advisorySeat", "advisoryUser")
TakeAdvisoryUser(q) == TakeAdvisory(q, UserKey(q), "advisoryUser", "eligibility")

(* One check of the block: pass to the next one, or raise.                 *)
Check(q, from, to, refused) ==
    /\ pc[q] = from
    /\ pc' = [pc EXCEPT ![q] = IF refused THEN "rollback" ELSE to]
    /\ answer' = [answer EXCEPT ![q] = IF refused THEN "rejected" ELSE @]
    /\ UNCHANGED <<status, locks, crashes>>

CheckSeat(q) == Check(q, "seatConflict", "userOverlap", SeatConflict(q))
CheckUser(q) == Check(q, "userOverlap", "insert", UserOverlap(q))

(* The checks that read nothing this module changes: the seat and its room *)
(* are active and visible, the user is not penalised, start < end, and the *)
(* rules about the clock, the configured maximum and the opening hours.    *)
(* All but start < end may go either way, and may change at any time.      *)
CheckEligibility(q) ==
    \E otherRuleBroken \in BOOLEAN :
        Check(q, "eligibility", "seatConflict",
              From[q] >= Until[q] \/ otherRuleBroken)

(* INSERT and COMMIT: the row and the release of the advisory locks become *)
(* visible together.                                                       *)
CommitRow(q) ==
    /\ status' = [status EXCEPT ![q] = "BOOKED"]
    /\ advisory' = WithoutAdvisory(q)

InsertAndCommit(q) ==
    /\ Go(q, "insert", "refresh")
    /\ CommitRow(q)
    /\ UNCHANGED <<answer, threadLock, crashes>>

Refresh(q) ==
    /\ Go(q, "refresh", "unlockUser")
    /\ answer' = [answer EXCEPT ![q] = "created"]
    /\ UNCHANGED <<status, locks, crashes>>

(* Mutant: a failed statement is reported as a business refusal.           *)
FailureIsRefusal(q) ==
    /\ pc[q] \in Guarded \cup {"advisorySeat", "advisoryUser"}
    /\ pc' = [pc EXCEPT ![q] = IF @ \in Guarded THEN "rollback" ELSE "unlockUser"]
    /\ answer' = [answer EXCEPT ![q] = "rejected"]
    /\ UNCHANGED <<status, locks, crashes>>

(* Any statement may raise (lost connection, pool timeout).  Inside the    *)
(* guarded block this leads to rollback; in the advisory loop it skips it, *)
(* and the advisory lock already taken lives on until the session closes.  *)
StatementFails(q) ==
    /\ pc[q] \in Guarded \cup {"advisorySeat", "advisoryUser"}
    /\ pc' = [pc EXCEPT ![q] = IF @ \in Guarded THEN "rollback" ELSE "unlockUser"]
    /\ answer' = [answer EXCEPT ![q] = "error"]
    /\ UNCHANGED <<status, locks, crashes>>

Rollback(q) ==
    /\ Go(q, "rollback", "unlockUser")
    /\ advisory' = WithoutAdvisory(q)
    /\ UNCHANGED <<answer, status, threadLock, crashes>>

(* finally: for lock in reversed(locks): lock.release()                    *)
GiveThreadLock(q, k, from, to) ==
    /\ Go(q, from, to)
    /\ threadLock' = [threadLock EXCEPT ![ProcessOf[q]][k] = Nobody]
    /\ UNCHANGED <<answer, status, advisory, crashes>>

(* Mutant: one of the locks is left out of the loop.                       *)
KeepThreadSeat(q) ==
    /\ Go(q, "unlockSeat", "close")
    /\ UNCHANGED <<answer, status, locks, crashes>>

GiveThreadUser(q) == GiveThreadLock(q, UserKey(q), "unlockUser", "unlockSeat")
GiveThreadSeat(q) == GiveThreadLock(q, SeatKey(q), "unlockSeat", "close")

(* Mutant: the session is not closed.                                      *)
LeaveSessionOpen(q) ==
    /\ Go(q, "close", "done")
    /\ UNCHANGED <<answer, status, locks, crashes>>

(* get_db closes the session after the handler: an implicit rollback.      *)
(* Its second half is scheduled by the event loop.                         *)
CloseSession(q) ==
    /\ LoopIsFree(ProcessOf[q])
    /\ Go(q, "close", "done")
    /\ advisory' = WithoutAdvisory(q)
    /\ UNCHANGED <<answer, status, threadLock, crashes>>

-----------------------------------------------------------------------------
(* A process dies with its locks.  Its database sessions outlive it until  *)
(* the server notices; a COMMIT already sent may still take effect.        *)
Crash(p) ==
    /\ crashes < MaxCrashes
    /\ crashes' = crashes + 1
    /\ pc' = [q \in Requests |->
                 IF ProcessOf[q] # p \/ pc[q] \notin Running THEN pc[q]
                 ELSE IF ~Postgres THEN "dead"
                 ELSE IF pc[q] = "insert" THEN "inflight" ELSE "orphan"]
    /\ threadLock' = [threadLock EXCEPT ![p] = [k \in Keys |-> Nobody]]
    /\ UNCHANGED <<answer, status, advisory>>

InFlightCommit(q) ==
    /\ Go(q, "inflight", "dead")
    /\ CommitRow(q)
    /\ UNCHANGED <<answer, threadLock, crashes>>

SessionAborted(q) ==
    /\ pc[q] \in Ghost
    /\ pc' = [pc EXCEPT ![q] = "dead"]
    /\ advisory' = WithoutAdvisory(q)
    /\ UNCHANGED <<answer, status, threadLock, crashes>>

-----------------------------------------------------------------------------
(* The other writers of a row.  Check-in and expiry are guarded UPDATEs;   *)
(* a cancellation is an unguarded one and overwrites whatever it finds.    *)
TransitionStatus(q, current, new) ==
    /\ status[q] = current
    /\ status' = [status EXCEPT ![q] = new]
    /\ UNCHANGED <<pc, answer, locks, crashes>>

(* Mutants: a check-in without the WHERE status = BOOKED, a cancellation   *)
(* that writes a status the table does not know.                           *)
CheckInAnything(q) ==
    \E current \in Statuses \ {"NONE", "CHECKED_IN"} :
        TransitionStatus(q, current, "CHECKED_IN")
CancelMisspelt(q) == TransitionStatus(q, "BOOKED", "CANCELED")

CheckIn(q) == TransitionStatus(q, "BOOKED", "CHECKED_IN")
Expire(q)  == TransitionStatus(q, "BOOKED", "EXPIRED")
Cancel(q)  ==
    \E current \in Statuses \ {"NONE", "CANCELLED"} :
        TransitionStatus(q, current, "CANCELLED")

(* Every request has been answered or lost: nothing is left to do.         *)
Finished ==
    /\ \A q \in Requests : pc[q] \in {"done", "dead"}
    /\ UNCHANGED vars

-----------------------------------------------------------------------------
(* The steps the thread of q takes on its own, and with its failures.      *)
Progress(q) ==
    \/ TakeThreadSeat(q) \/ TakeThreadUser(q)
    \/ TakeAdvisorySeat(q) \/ TakeAdvisoryUser(q)
    \/ CheckEligibility(q) \/ CheckSeat(q) \/ CheckUser(q)
    \/ InsertAndCommit(q) \/ Refresh(q) \/ Rollback(q)
    \/ GiveThreadUser(q) \/ GiveThreadSeat(q) \/ CloseSession(q)

Step(q) == Progress(q) \/ StatementFails(q)

(* The steps the database server takes for the session of a lost process.  *)
ServerStep(q) == InFlightCommit(q) \/ SessionAborted(q)

RowStep(q) == CheckIn(q) \/ Expire(q) \/ Cancel(q)

Next ==
    \/ \E q \in Requests : Arrive(q) \/ Step(q) \/ ServerStep(q) \/ RowStep(q)
    \/ \E p \in Processes : Crash(p)
    \/ Finished

Spec == Init /\ [][Next]_vars

(* Threads are scheduled and the server reaps lost sessions.  Nothing is   *)
(* assumed of arrivals, failures, the other endpoints, or who wins a lock. *)
Fairness == \A q \in Requests : WF_vars(Progress(q)) /\ WF_vars(ServerStep(q))

FairSpec == Spec /\ Fairness

-----------------------------------------------------------------------------
(* The ledger these rows stand for.                                        *)
LedgerOf ==
    [q \in Requests |->
        IF status[q] = "NONE" THEN "none"
        ELSE IF status[q] \in {"BOOKED", "CHECKED_IN"} THEN "held" ELSE "released"]

Ledger == INSTANCE BookingLedger WITH ledger <- LedgerOf

(* The write path implements the ledger: a row becomes active only when no *)
(* active row of its seat or its user shares an instant with it, however   *)
(* the checks, commits, failures and crashes of the requests interleave,   *)
(* and a row that stopped being active never becomes active again.         *)
ImplementsLedger == Ledger!Spec

(* No two active rows of one seat, or of one user, share an instant        *)
(* (conflict_service.py: the point of serialized_reservation_write).       *)
NoDoubleBooking == Ledger!NoDoubleBooking

(* A caller that was told "rejected" has no row and a caller that was told *)
(* "created" has one; only an error may go either way, because a refresh   *)
(* can fail after the commit.                                              *)
AnswersMatchRows ==
    \A q \in Requests :
        /\ answer[q] = "created" => status[q] # "NONE"
        /\ answer[q] = "rejected" => status[q] = "NONE"

(* No lock outlives the request that took it: a held thread lock belongs   *)
(* to a running request of that process, a held advisory lock to a request *)
(* whose database session is still open.                                   *)
NoLockLeaks ==
    /\ \A p \in Processes, k \in Keys :
          LET q == threadLock[p][k] IN
          q # Nobody => ProcessOf[q] = p /\ pc[q] \in Running \ {"threadSeat", "close"}
    /\ \A k \in Keys : advisory[k] # Nobody => pc[advisory[k]] \in Running \cup Ghost

(* q waits for the advisory lock r holds.                                  *)
WaitsFor(q, r) ==
    \/ pc[q] = "advisorySeat" /\ advisory[SeatKey(q)] = r
    \/ pc[q] = "advisoryUser" /\ advisory[UserKey(q)] = r

(* A lock that a failed request kept is waited for, and only the session's *)
(* close would free it, on an event loop that a coroutine keeps busy.      *)
LoopStuck ==
    \E q, r \in Requests :
        WaitsFor(q, r) /\ pc[r] = "close" /\ ~LoopIsFree(ProcessOf[r])

(* Every request that arrives is answered, or lost with its process: the   *)
(* two pairs of locks are taken in one global order and given back on      *)
(* every path, so no set of requests waits for one another.  One knot      *)
(* remains: a request that failed between its advisory locks keeps the     *)
(* first until its session is closed, and the coroutine that waits for     *)
(* that lock may be what keeps the loop from closing it.                   *)
EveryRequestEnds ==
    \A q \in Requests :
        pc[q] \in Running \cup Ghost ~> pc[q] \in {"done", "dead"} \/ LoopStuck
=============================================================================
