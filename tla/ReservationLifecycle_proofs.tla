---------------------- MODULE ReservationLifecycle_proofs ----------------------
(***************************************************************************)
(* Proofs about ReservationLifecycle, for any reservations, requests and   *)
(* scheduler loops, and any minutes of grace and threshold.                *)
(*                                                                         *)
(* What makes them work: a row a sweep has marked is locked, so it stays   *)
(* BOOKED until the sweep commits or fails, and a row enters CHECKED_IN or *)
(* EXPIRED together with its record or its violation.                      *)
(***************************************************************************)
EXTENDS ReservationLifecycle, TLAPS

(* A sweep has a cutoff its threshold has passed, its candidates started   *)
(* by then, and the rows it marked are BOOKED and its own.                 *)
SweepInv ==
    \A s \in Sweepers :
        /\ sweep[s].pc # "idle" => sweep[s].cutoff + Threshold <= now
        /\ sweep[s].pc # "marking" => sweep[s].todo = {} /\ sweep[s].marked = {}
        /\ \A r \in sweep[s].todo \cup sweep[s].marked : StartOf[r] <= sweep[s].cutoff
        /\ \A r \in sweep[s].marked :
              /\ status[r] = "BOOKED"
              /\ \A t \in Sweepers : r \in sweep[t].marked => t = s

(* Records and violations follow the status, whatever a cancellation does  *)
(* to a row afterwards.                                                    *)
OutcomeInv ==
    \A r \in Reservations :
        /\ status[r] = "CHECKED_IN" => r \in records
        /\ status[r] = "EXPIRED" => r \in violations
        /\ r \in records => status[r] \in {"CHECKED_IN", "CANCELLED"} /\ r \notin violations
        /\ r \in violations => status[r] \in {"EXPIRED", "CANCELLED"}

(* A cancellation under way has seen a row.                                *)
CancelInv ==
    \A c \in Cancels : cancelPc[c] # "idle" => status[c.target] # "NONE"

IInv == TypeOK /\ SweepInv /\ OutcomeInv /\ CancelInv

-----------------------------------------------------------------------------
(* What a step that leaves the table and the sweeps alone leaves alone.    *)
table == <<status, records, violations>>

LEMMA QuietStep ==
    ASSUME IInv, UNCHANGED <<table, sweep>>, now' \in Int, now <= now'
    PROVE  SweepInv' /\ OutcomeInv'
<1>1. OutcomeInv'
  BY DEF IInv, OutcomeInv, table
<1>2. SweepInv'
  <2>1. \A s \in Sweepers : sweep[s].cutoff \in Int
    BY LifecycleAssumption DEF IInv, TypeOK
  <2>2. now \in Int /\ Threshold \in Int
    BY LifecycleAssumption DEF IInv, TypeOK
  <2>3. QED
    BY <2>1, <2>2 DEF IInv, SweepInv, table
<1>3. QED
  BY <1>1, <1>2

(* The invariant is kept by each operation.  First the types.              *)
CheckinRows == [pc : {"idle", "arrived", "eligible", "done", "refused"}, at : 0..MaxTime]

SweepRows == [pc : {"idle", "begun", "marking"}, cutoff : -Threshold..MaxTime,
              todo : SUBSET Reservations, marked : SUBSET Reservations]

(* Every step leaves the variables with their types.                       *)
LEMMA TypesStep ==
    ASSUME TypeOK, [Next]_vars PROVE TypeOK'
<1> USE LifecycleAssumption
<1>1. CASE UNCHANGED vars
  BY <1>1 DEF vars, TypeOK
<1>2. ASSUME NEW r \in Reservations, Book(r) PROVE TypeOK'
  BY <1>2 DEF Book, actors, TypeOK, Statuses
<1>3. ASSUME NEW c \in Cancels, CancelLoad(c) \/ CancelApprove(c) \/ CancelWrite(c)
      PROVE  TypeOK'
  BY <1>3 DEF CancelLoad, CancelApprove, CancelWrite, TypeOK, Statuses
<1>a. checkin \in [Checkins -> CheckinRows] /\ sweep \in [Sweepers -> SweepRows]
  BY DEF TypeOK, CheckinRows, SweepRows
<1>b. ASSUME checkin' \in [Checkins -> CheckinRows],
             UNCHANGED <<now, status, records, violations, cancelPc, sweep, failures>>
      PROVE  TypeOK'
  BY <1>b DEF TypeOK, CheckinRows
<1>c. ASSUME sweep' \in [Sweepers -> SweepRows],
             UNCHANGED <<now, status, records, violations, cancelPc, checkin, failures>>
      PROVE  TypeOK'
  BY <1>c DEF TypeOK, SweepRows
<1>4. ASSUME NEW k \in Checkins, CheckinArrive(k) \/ CheckinRead(k) PROVE TypeOK'
  <2>1. checkin[k] \in CheckinRows
    BY <1>a
  <2>2. CASE CheckinArrive(k)
    <3>1. [pc |-> "arrived", at |-> now] \in CheckinRows
      BY DEF TypeOK, CheckinRows
    <3>2. QED
      BY <1>a, <1>b, <2>2, <3>1 DEF CheckinArrive
  <2>3. CASE CheckinRead(k)
    <3>1. [checkin[k] EXCEPT !.pc = IF Eligible(k) THEN "eligible" ELSE "refused"]
             \in CheckinRows
      BY <2>1 DEF CheckinRows
    <3>2. checkin' \in [Checkins -> CheckinRows]
      BY <1>a, <2>3, <3>1 DEF CheckinRead
    <3>3. QED
      BY <1>b, <2>3, <3>2 DEF CheckinRead
  <2>4. QED
    BY <1>4, <2>2, <2>3
<1>5. ASSUME NEW k \in Checkins, CheckinWrite(k) PROVE TypeOK'
  BY <1>5 DEF CheckinWrite, TypeOK, Statuses
<1>6. ASSUME NEW s \in Sweepers, SweepBegin(s) PROVE TypeOK'
  <2>1. [sweep[s] EXCEPT !.pc = "begun", !.cutoff = now - Threshold] \in SweepRows
    <3>1. now - Threshold \in -Threshold..MaxTime
      BY DEF TypeOK
    <3>2. QED
      BY <1>a, <3>1 DEF SweepRows
  <2>2. sweep' \in [Sweepers -> SweepRows]
    BY <1>a, <1>6, <2>1 DEF SweepBegin
  <2>3. QED
    BY <1>c, <1>6, <2>2 DEF SweepBegin
<1>7. ASSUME NEW s \in Sweepers, SweepList(s) PROVE TypeOK'
  <2> DEFINE due == {r \in Reservations : Overdue(r, sweep[s].cutoff)}
  <2>1. [sweep[s] EXCEPT !.pc = "marking", !.todo = due] \in SweepRows
    BY <1>a DEF SweepRows
  <2>2. sweep' \in [Sweepers -> SweepRows]
    BY <1>a, <1>7, <2>1 DEF SweepList
  <2>3. QED
    BY <1>c, <1>7, <2>2 DEF SweepList
<1>8. ASSUME NEW s \in Sweepers, SweepMark(s) PROVE TypeOK'
  <2>1. PICK r \in sweep[s].todo :
           sweep' = [sweep EXCEPT ![s].todo = @ \ {r},
                                  ![s].marked = IF StillBooked(r) THEN @ \cup {r} ELSE @]
    BY <1>8 DEF SweepMark
  <2>2. r \in Reservations /\ sweep[s] \in SweepRows
    BY <1>a DEF SweepRows
  <2>3. [sweep[s] EXCEPT !.todo = @ \ {r},
                         !.marked = IF StillBooked(r) THEN @ \cup {r} ELSE @] \in SweepRows
    BY <2>2 DEF SweepRows
  <2>4. sweep' \in [Sweepers -> SweepRows]
    BY <1>a, <2>1, <2>3
  <2>5. QED
    BY <1>c, <1>8, <2>4 DEF SweepMark
<1>9. ASSUME NEW s \in Sweepers, SweepCommit(s) PROVE TypeOK'
  <2>1. sweep[s].marked \subseteq Reservations
    BY <1>a DEF SweepRows
  <2>2. Idle \in SweepRows
    BY DEF Idle, SweepRows
  <2>3. sweep' \in [Sweepers -> SweepRows]
    BY <1>a, <1>9, <2>2 DEF SweepCommit
  <2>4. status' \in [Reservations -> Statuses] /\ violations' \subseteq Reservations
    BY <1>9, <2>1 DEF SweepCommit, TypeOK, Statuses
  <2>5. QED
    BY <1>9, <2>3, <2>4 DEF SweepCommit, TypeOK, SweepRows
<1>10. ASSUME NEW s \in Sweepers, SweepFail(s) PROVE TypeOK'
  BY <1>10 DEF SweepFail, TypeOK, Idle
<1>11. CASE Tick
  BY <1>11 DEF Tick, actors, TypeOK
<1>12. QED
  BY <1>1, <1>2, <1>3, <1>4, <1>5, <1>6, <1>7, <1>8, <1>9, <1>10, <1>11 DEF Next, Sweeping

(* Then the invariant itself, operation by operation.                      *)
LEMMA InvStep ==
    ASSUME IInv, [Next]_vars PROVE IInv'
<1> USE LifecycleAssumption
<1>1. TypeOK'
  BY TypesStep DEF IInv
<1>2. now \in Int /\ Threshold \in Int /\ Threshold >= 0
  BY DEF IInv, TypeOK
<1>3. ASSUME UNCHANGED <<table, sweep>>, now' \in Int, now <= now', CancelInv'
      PROVE  IInv'
  BY <1>1, <1>3, QuietStep DEF IInv
<1>4. CASE UNCHANGED vars
  BY <1>2, <1>3, <1>4 DEF vars, table, IInv, CancelInv
<1>5. ASSUME NEW r \in Reservations, Book(r) PROVE IInv'
  <2>1. SweepInv'
    BY <1>5 DEF IInv, SweepInv, Book, actors, TypeOK
  <2>2. OutcomeInv'
    BY <1>5 DEF IInv, OutcomeInv, Book, TypeOK
  <2>3. CancelInv'
    BY <1>5 DEF IInv, CancelInv, Book, actors, TypeOK
  <2>4. QED
    BY <1>1, <2>1, <2>2, <2>3 DEF IInv
<1>6. ASSUME NEW c \in Cancels, CancelLoad(c) \/ CancelApprove(c) PROVE IInv'
  <2>1. CancelInv'
    BY <1>6 DEF IInv, CancelInv, CancelLoad, CancelApprove, TypeOK
  <2>2. QED
    BY <1>2, <1>3, <1>6, <2>1 DEF CancelLoad, CancelApprove, table
<1>7. ASSUME NEW c \in Cancels, CancelWrite(c) PROVE IInv'
  <2>1. SweepInv'
    BY <1>7 DEF IInv, SweepInv, CancelWrite, RowLocked, TypeOK
  <2>2. OutcomeInv'
    BY <1>7 DEF IInv, OutcomeInv, CancelWrite, TypeOK
  <2>3. CancelInv'
    BY <1>7 DEF IInv, CancelInv, CancelWrite, TypeOK
  <2>4. QED
    BY <1>1, <2>1, <2>2, <2>3 DEF IInv
<1>8. ASSUME NEW k \in Checkins, CheckinArrive(k) \/ CheckinRead(k) PROVE IInv'
  BY <1>2, <1>3, <1>8 DEF CheckinArrive, CheckinRead, table, IInv, CancelInv
<1>9. ASSUME NEW k \in Checkins, CheckinWrite(k) PROVE IInv'
  <2>1. SweepInv'
    BY <1>9 DEF IInv, SweepInv, CheckinWrite, RowLocked, TypeOK
  <2>2. OutcomeInv'
    BY <1>9 DEF IInv, OutcomeInv, CheckinWrite, StillBooked, TypeOK
  <2>3. CancelInv'
    BY <1>9 DEF IInv, CancelInv, CheckinWrite, StillBooked, TypeOK
  <2>4. QED
    BY <1>1, <2>1, <2>2, <2>3 DEF IInv
<1>10. ASSUME NEW s \in Sweepers, Sweeping(s) \/ SweepFail(s) PROVE IInv'
  <2>1. SweepInv'
    <3>1. CASE SweepBegin(s)
      BY <1>2, <3>1 DEF IInv, SweepInv, SweepBegin, TypeOK
    <3>2. CASE SweepList(s)
      BY <3>2 DEF IInv, SweepInv, SweepList, Overdue, TypeOK
    <3>3. CASE SweepMark(s)
      BY <3>3 DEF IInv, SweepInv, SweepMark, RowLocked, StillBooked, TypeOK
    <3>4. CASE SweepCommit(s)
      BY <3>4 DEF IInv, SweepInv, SweepCommit, Idle, TypeOK
    <3>5. CASE SweepFail(s)
      BY <3>5 DEF IInv, SweepInv, SweepFail, Idle, TypeOK
    <3>6. QED
      BY <1>10, <3>1, <3>2, <3>3, <3>4, <3>5 DEF Sweeping
  <2>2. OutcomeInv' /\ CancelInv'
    <3>1. CASE UNCHANGED <<status, records, violations, cancelPc>>
      BY <3>1 DEF IInv, OutcomeInv, CancelInv
    <3>2. CASE SweepCommit(s)
      BY <3>2 DEF IInv, SweepInv, OutcomeInv, CancelInv, SweepCommit, TypeOK
    <3>3. QED
      BY <1>10, <3>1, <3>2 DEF Sweeping, SweepBegin, SweepList, SweepMark, SweepFail
  <2>3. QED
    BY <1>1, <2>1, <2>2 DEF IInv
<1>11. CASE Tick
  BY <1>2, <1>3, <1>11 DEF Tick, actors, table, IInv, CancelInv
<1>12. QED
  BY <1>4, <1>5, <1>6, <1>7, <1>8, <1>9, <1>10, <1>11 DEF Next

(* The invariant holds in every reachable state.                           *)
THEOREM LifecycleInvariant == Spec => []IInv
<1>1. Init => IInv
  BY LifecycleAssumption
     DEF Init, IInv, TypeOK, SweepInv, OutcomeInv, CancelInv, Statuses, Idle
<1>2. IInv /\ [Next]_vars => IInv'
  BY InvStep
<1>3. QED
  BY <1>1, <1>2, PTL DEF Spec

-----------------------------------------------------------------------------
(* Type correctness, for any instance.                                     *)
THEOREM LifecycleTypeCorrect == Spec => []TypeOK
<1>1. IInv => TypeOK
  BY DEF IInv
<1>2. QED
  BY <1>1, LifecycleInvariant, PTL

(* Nobody is both recorded present and punished, whichever of check-in and *)
(* sweep wins the row, and whatever is cancelled before or after.          *)
THEOREM NobodyPresentAndPunished == Spec => []AttendedOrMissed
<1>1. IInv => AttendedOrMissed
  BY DEF IInv, TypeOK, OutcomeInv, AttendedOrMissed
<1>2. QED
  BY <1>1, LifecycleInvariant, PTL

(* No expired row without its violation, no checked-in row without its     *)
(* record, with any number of loops failing anywhere.                      *)
THEOREM OutcomesAreWhole == Spec => []TransactionsAreWhole
<1>1. IInv => TransactionsAreWhole
  BY DEF IInv, OutcomeInv, TransactionsAreWhole
<1>2. QED
  BY <1>1, LifecycleInvariant, PTL

(* No violation before the threshold has passed: the cutoff a sweep works  *)
(* with was right when it began, and the clock has only moved on.          *)
THEOREM ViolationsAreDue == Spec => NoEarlyViolation
<1>1. IInv /\ [Next]_vars
        => [\A r \in violations' \ violations :
              /\ now >= StartOf[r] + Threshold
              /\ status[r] = "BOOKED"]_vars
  <2> SUFFICES ASSUME IInv, [Next]_vars, NEW r \in violations' \ violations
               PROVE  now >= StartOf[r] + Threshold /\ status[r] = "BOOKED"
    OBVIOUS
  <2>1. PICK s \in Sweepers : SweepCommit(s)
    BY DEF Next, Book, CancelLoad, CancelApprove, CancelWrite, CheckinArrive, CheckinRead,
           CheckinWrite, Sweeping, SweepBegin, SweepList, SweepMark, SweepFail, Tick, vars
  <2>2. r \in sweep[s].marked /\ sweep[s].pc # "idle"
    BY <2>1 DEF SweepCommit
  <2>3. /\ status[r] = "BOOKED"
        /\ StartOf[r] <= sweep[s].cutoff /\ sweep[s].cutoff + Threshold <= now
    BY <2>2 DEF IInv, SweepInv
  <2>4. r \in Reservations /\ sweep[s].cutoff \in Int /\ now \in Int
    BY <2>2, LifecycleAssumption DEF IInv, TypeOK
  <2>5. StartOf[r] \in Int /\ Threshold \in Int
    BY <2>4, LifecycleAssumption
  <2>6. QED
    BY <2>3, <2>4, <2>5
<1>2. QED
  BY <1>1, LifecycleInvariant, PTL DEF Spec, NoEarlyViolation

-----------------------------------------------------------------------------
(* The lifecycle implements the ledger.                                    *)

(* A booking enters the ledger where nothing competes.                     *)
LEMMA BookHolds ==
    ASSUME IInv, NEW r \in Reservations, Book(r) PROVE Ledger!Hold(r)
<1>1. LedgerOf[r] = "none" /\ LedgerOf' = [LedgerOf EXCEPT ![r] = "held"]
  BY DEF LedgerOf, Book, IInv, TypeOK
<1>2. ASSUME NEW q \in Reservations, Ledger!Held(q) PROVE ~Ledger!Compete(r, q)
  <2>1. Active(q)
    BY <1>2 DEF Ledger!Held, LedgerOf, Active
  <2>2. SeatOf[r] = SeatOf[q] \/ UserOf[r] = UserOf[q] => ~Overlaps(r, q)
    BY <2>1 DEF Book
  <2>3. StartOf[r] \in Int /\ StartOf[q] \in Int /\ Until[r] \in Int /\ Until[q] \in Int
    BY LifecycleAssumption
  <2>4. QED
    BY <2>2, <2>3 DEF Ledger!Compete, Ledger!SameSeatOrUser, Ledger!Covers, Overlaps
<1>3. QED
  BY <1>1, <1>2 DEF Ledger!Hold

(* A cancellation of a row releases its entry, or finds it released.       *)
LEMMA CancelReleases ==
    ASSUME IInv, NEW c \in Cancels, CancelWrite(c)
    PROVE  Ledger!Release({c.target}) \/ UNCHANGED LedgerOf
<1>1. c.target \in Reservations /\ status[c.target] # "NONE"
  BY LifecycleAssumption DEF IInv, CancelInv, CancelWrite
<1>2. status' = [status EXCEPT ![c.target] = "CANCELLED"]
  BY DEF CancelWrite
<1>3. CASE Active(c.target)
  <2>1. LedgerOf[c.target] = "held"
    BY <1>1, <1>3 DEF LedgerOf, Active
  <2>2. LedgerOf' = [q \in Reservations |->
                       IF q \in {c.target} THEN "released" ELSE LedgerOf[q]]
    BY <1>1, <1>2 DEF LedgerOf, IInv, TypeOK
  <2>3. QED
    BY <2>1, <2>2 DEF Ledger!Release, Ledger!Held
<1>4. CASE ~Active(c.target)
  BY <1>1, <1>2, <1>4 DEF LedgerOf, Active, IInv, TypeOK
<1>5. QED
  BY <1>3, <1>4

(* A sweep releases the entries of all rows it marked by one commit.       *)
LEMMA CommitReleases ==
    ASSUME IInv, NEW s \in Sweepers, SweepCommit(s)
    PROVE  Ledger!Release(sweep[s].marked) \/ UNCHANGED LedgerOf
<1>1. /\ sweep[s].marked \subseteq Reservations
      /\ \A r \in sweep[s].marked : status[r] = "BOOKED"
  BY DEF IInv, TypeOK, SweepInv
<1>2. LedgerOf' = [r \in Reservations |->
                     IF r \in sweep[s].marked THEN "released" ELSE LedgerOf[r]]
  BY <1>1 DEF LedgerOf, SweepCommit
<1>3. \A r \in sweep[s].marked : Ledger!Held(r)
  BY <1>1 DEF LedgerOf, Ledger!Held
<1>4. CASE sweep[s].marked = {}
  BY <1>2, <1>4 DEF LedgerOf
<1>5. CASE sweep[s].marked # {}
  BY <1>2, <1>3, <1>5 DEF Ledger!Release
<1>6. QED
  BY <1>4, <1>5

(* Cancellations, check-ins and sweeps keep the promise of the ledger: a   *)
(* released reservation never becomes active again.                        *)
THEOREM LifecycleImplementsLedger == Spec => ImplementsLedger
<1>1. Init => Ledger!Init
  BY DEF Init, Ledger!Init, LedgerOf
<1>2. IInv /\ [Next]_vars => [Ledger!Next]_LedgerOf
  <2> SUFFICES ASSUME IInv, [Next]_vars PROVE Ledger!Next \/ UNCHANGED LedgerOf
    OBVIOUS
  <2>1. CASE UNCHANGED status
    BY <2>1 DEF LedgerOf
  <2>2. ASSUME NEW r \in Reservations, Book(r) PROVE Ledger!Next
    BY <2>2, BookHolds DEF Ledger!Next
  <2>3. ASSUME NEW c \in Cancels, CancelWrite(c) PROVE Ledger!Next \/ UNCHANGED LedgerOf
    <3>1. {c.target} \in SUBSET Reservations
      BY LifecycleAssumption
    <3>2. QED
      BY <2>3, <3>1, CancelReleases DEF Ledger!Next
  <2>4. ASSUME NEW k \in Checkins, CheckinWrite(k) PROVE UNCHANGED LedgerOf
    BY <2>4, LifecycleAssumption DEF CheckinWrite, StillBooked, LedgerOf, IInv, TypeOK
  <2>5. ASSUME NEW s \in Sweepers, SweepCommit(s) PROVE Ledger!Next \/ UNCHANGED LedgerOf
    <3>1. sweep[s].marked \in SUBSET Reservations
      BY DEF IInv, TypeOK
    <3>2. QED
      BY <2>5, <3>1, CommitReleases DEF Ledger!Next
  <2>6. QED
    BY <2>1, <2>2, <2>3, <2>4, <2>5
       DEF Next, CancelLoad, CancelApprove, CheckinArrive, CheckinRead, Sweeping,
           SweepBegin, SweepList, SweepMark, SweepFail, Tick, vars
<1>3. QED
  BY <1>1, <1>2, LifecycleInvariant, PTL DEF Spec, ImplementsLedger, Ledger!Spec
=============================================================================
