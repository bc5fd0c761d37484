------------------------- MODULE BookingWrite_proofs -------------------------
(***************************************************************************)
(* Proofs about BookingWrite for every set of requests, seats, users and   *)
(* processes, every assignment of intervals and any number of crashes.     *)
(*                                                                         *)
(* The argument: a request that has passed a conflict query still owns the *)
(* lock of the seat (of the user) it asked about, so nobody else can have  *)
(* committed a clashing row since.  LockInv says who owns what and when,   *)
(* FactInv what the answered queries still guarantee.                      *)
(***************************************************************************)
EXTENDS BookingWrite, TLAPS

(* The requests whose row does not exist yet.                              *)
BeforeCommit == {"idle", "threadSeat", "threadUser", "advisorySeat", "advisoryUser",
                 "eligibility", "seatConflict", "userOverlap", "insert", "inflight"}

(* Where a request owns its thread locks and its advisory locks.           *)
OwnsThreadSeat   == Running \ {"threadSeat", "close"}
OwnsThreadUser   == OwnsThreadSeat \ {"threadUser", "unlockSeat"}
OwnsAdvisoryUser == {"eligibility", "seatConflict", "userOverlap", "insert", "inflight"}
OwnsAdvisorySeat == OwnsAdvisoryUser \cup {"advisoryUser"}

ThreadInv ==
    \A q \in Requests :
        /\ pc[q] \in OwnsThreadSeat => threadLock[ProcessOf[q]][SeatKey(q)] = q
        /\ pc[q] \in OwnsThreadUser => threadLock[ProcessOf[q]][UserKey(q)] = q

ThreadOwnerInv ==
    \A p \in Processes, k \in Keys :
        threadLock[p][k] # Nobody =>
            LET q == threadLock[p][k] IN
            /\ ProcessOf[q] = p
            /\ \/ k = SeatKey(q) /\ pc[q] \in OwnsThreadSeat
               \/ k = UserKey(q) /\ pc[q] \in OwnsThreadUser

AdvisoryInv ==
    /\ Postgres => \A q \in Requests :
        /\ pc[q] \in OwnsAdvisorySeat => advisory[SeatKey(q)] = q
        /\ pc[q] \in OwnsAdvisoryUser => advisory[UserKey(q)] = q
    /\ ~Postgres =>
        /\ \A q \in Requests : pc[q] \notin Ghost \cup {"advisorySeat", "advisoryUser"}
        /\ \A k \in Keys : advisory[k] = Nobody

AdvisoryOwnerInv ==
    \A k \in Keys : advisory[k] # Nobody => pc[advisory[k]] \in Running \cup Ghost

RowInv ==
    \A q \in Requests :
        /\ pc[q] \in BeforeCommit => status[q] = "NONE" /\ answer[q] = "none"
        /\ pc[q] = "refresh" => status[q] # "NONE"
        /\ answer[q] = "rejected" => status[q] = "NONE" /\ pc[q] # "refresh"
        /\ answer[q] = "created" => status[q] # "NONE"

FactInv ==
    \A q \in Requests :
        /\ pc[q] \in {"userOverlap", "insert", "inflight"} => ~SeatConflict(q)
        /\ pc[q] \in {"insert", "inflight"} => ~UserOverlap(q)

LockInv == ThreadInv /\ ThreadOwnerInv /\ AdvisoryInv /\ AdvisoryOwnerInv

IInv == TypeOK /\ LockInv /\ RowInv /\ FactInv

-----------------------------------------------------------------------------
(* The sets of program counters, and the few facts about keys, that every  *)
(* proof below needs.                                                      *)
USE RequestAssumption, DeploymentAssumption
USE DEF Running, Guarded, Leaving, Ghost, BeforeCommit,
        OwnsThreadSeat, OwnsThreadUser, OwnsAdvisorySeat, OwnsAdvisoryUser

(* The two keys of a request are keys, and a seat key is never a user key  *)
(* (conflict_service.py: the kind is part of the key and the namespace).   *)
LEMMA KeyFacts ==
    ASSUME NEW q \in Requests, NEW r \in Requests
    PROVE  /\ SeatKey(q) \in Keys /\ UserKey(q) \in Keys
           /\ SeatKey(q) # UserKey(r)
           /\ SeatKey(q) = SeatKey(r) <=> SeatOf[q] = SeatOf[r]
           /\ UserKey(q) = UserKey(r) <=> UserOf[q] = UserOf[r]
  BY DEF SeatKey, UserKey, Keys

(* Type correctness of the write path: every variable keeps its type.      *)
LEMMA TypeStep == TypeOK /\ [Next]_vars => TypeOK'
<1> SUFFICES ASSUME TypeOK, [Next]_vars PROVE TypeOK'
  OBVIOUS
<1> USE DEF TypeOK, Counters, Answers, Statuses
<1>1. CASE UNCHANGED vars
  BY <1>1 DEF vars
<1>2. ASSUME NEW q \in Requests, Arrive(q) PROVE TypeOK'
  BY <1>2 DEF Arrive, Go, locks
<1>3. ASSUME NEW q \in Requests, Step(q) PROVE TypeOK'
  <2>0. SeatKey(q) \in Keys /\ UserKey(q) \in Keys /\ ProcessOf[q] \in Processes
    BY KeyFacts
  <2>1. CASE TakeThreadSeat(q) \/ TakeThreadUser(q)
    <3>1. PICK k \in Keys, to \in Counters :
             /\ pc' = [pc EXCEPT ![q] = to]
             /\ threadLock' = [threadLock EXCEPT ![ProcessOf[q]][k] = q]
             /\ UNCHANGED <<answer, status, advisory, crashes>>
      BY <2>0, <2>1 DEF TakeThreadSeat, TakeThreadUser, TakeThreadLock, Go
    <3>2. threadLock' \in [Processes -> [Keys -> Requests \cup {Nobody}]]
      BY <3>1
    <3>3. QED
      BY <3>1, <3>2
  <2>2. CASE TakeAdvisorySeat(q) \/ TakeAdvisoryUser(q)
    <3>1. PICK k \in Keys, to \in Counters :
             /\ pc' = [pc EXCEPT ![q] = to]
             /\ advisory' = [advisory EXCEPT ![k] = q]
             /\ UNCHANGED <<answer, status, threadLock, crashes>>
      BY <2>0, <2>2 DEF TakeAdvisorySeat, TakeAdvisoryUser, TakeAdvisory, Go
    <3>2. QED
      BY <3>1
  <2>3. CASE CheckEligibility(q) \/ CheckSeat(q) \/ CheckUser(q)
    BY <2>3 DEF CheckEligibility, CheckSeat, CheckUser, Check, locks
  <2>4. CASE InsertAndCommit(q)
    BY <2>4 DEF InsertAndCommit, CommitRow, WithoutAdvisory, Go
  <2>5. CASE Refresh(q) \/ StatementFails(q)
    <3>1. PICK to \in Counters, told \in Answers :
             /\ pc' = [pc EXCEPT ![q] = to]
             /\ answer' = [answer EXCEPT ![q] = told]
             /\ UNCHANGED <<status, threadLock, advisory, crashes>>
      BY <2>5 DEF Refresh, StatementFails, Go, locks
    <3>2. QED
      BY <3>1
  <2>6. CASE Rollback(q) \/ CloseSession(q)
    BY <2>6 DEF Rollback, CloseSession, WithoutAdvisory, Go
  <2>7. CASE GiveThreadUser(q) \/ GiveThreadSeat(q)
    <3>1. PICK k \in Keys, to \in Counters :
             /\ pc' = [pc EXCEPT ![q] = to]
             /\ threadLock' = [threadLock EXCEPT ![ProcessOf[q]][k] = Nobody]
             /\ UNCHANGED <<answer, status, advisory, crashes>>
      BY <2>0, <2>7 DEF GiveThreadUser, GiveThreadSeat, GiveThreadLock, Go
    <3>2. threadLock' \in [Processes -> [Keys -> Requests \cup {Nobody}]]
      BY <3>1
    <3>3. QED
      BY <3>1, <3>2
  <2>8. QED
    BY <1>3, <2>1, <2>2, <2>3, <2>4, <2>5, <2>6, <2>7 DEF Step, Progress
<1>4. ASSUME NEW q \in Requests, ServerStep(q) PROVE TypeOK'
  BY <1>4 DEF ServerStep, InFlightCommit, SessionAborted, CommitRow, WithoutAdvisory, Go
<1>5. ASSUME NEW q \in Requests, RowStep(q) PROVE TypeOK'
  BY <1>5 DEF RowStep, CheckIn, Expire, Cancel, TransitionStatus, locks
<1>6. ASSUME NEW p \in Processes, Crash(p) PROVE TypeOK'
  BY <1>6 DEF Crash
<1>7. QED
  BY <1>1, <1>2, <1>3, <1>4, <1>5, <1>6 DEF Next, Finished

-----------------------------------------------------------------------------
(* Ownership of the thread locks.                                          *)

(* A step that moves no thread lock and no request across the borders of   *)
(* the owning regions keeps the ownership of the thread locks.             *)
LEMMA ThreadUnmoved ==
    ASSUME ThreadInv, ThreadOwnerInv, UNCHANGED threadLock, TypeOK,
           \A q \in Requests :
               /\ pc'[q] \in OwnsThreadSeat <=> pc[q] \in OwnsThreadSeat
               /\ pc'[q] \in OwnsThreadUser <=> pc[q] \in OwnsThreadUser
    PROVE  ThreadInv' /\ ThreadOwnerInv'
<1> USE DEF SeatKey, UserKey
<1>1. ThreadInv'
  BY DEF ThreadInv
<1>2. ThreadOwnerInv'
  <2> SUFFICES ASSUME NEW p \in Processes, NEW k \in Keys, threadLock[p][k] # Nobody
               PROVE  LET q == threadLock[p][k] IN
                      /\ ProcessOf[q] = p
                      /\ \/ k = SeatKey(q) /\ pc'[q] \in OwnsThreadSeat
                         \/ k = UserKey(q) /\ pc'[q] \in OwnsThreadUser
    BY DEF ThreadOwnerInv
  <2>1. threadLock[p][k] \in Requests
    BY DEF TypeOK
  <2>2. QED
    BY <2>1 DEF ThreadOwnerInv
<1>3. QED
  BY <1>1, <1>2

(* A thread that takes a free lock it names owns it, and disturbs no other *)
(* owner: the lock was free.                                               *)
LEMMA ThreadTaken ==
    ASSUME TypeOK, ThreadInv, ThreadOwnerInv,
           NEW q \in Requests, TakeThreadSeat(q) \/ TakeThreadUser(q)
    PROVE  ThreadInv' /\ ThreadOwnerInv'
<1>1. PICK k \in Keys :
         /\ threadLock[ProcessOf[q]][k] = Nobody
         /\ threadLock' = [threadLock EXCEPT ![ProcessOf[q]][k] = q]
         /\ \/ /\ k = SeatKey(q)
               /\ pc[q] = "threadSeat"
               /\ pc' = [pc EXCEPT ![q] = "threadUser"]
            \/ /\ k = UserKey(q)
               /\ pc[q] = "threadUser"
               /\ pc' = [pc EXCEPT ![q] = IF Postgres THEN "advisorySeat" ELSE "eligibility"]
  BY KeyFacts DEF TakeThreadSeat, TakeThreadUser, TakeThreadLock, Go
<1>2. \A p \in Processes, j \in Keys :
         threadLock'[p][j] = IF p = ProcessOf[q] /\ j = k THEN q ELSE threadLock[p][j]
  BY <1>1 DEF TypeOK
<1>3. ProcessOf[q] \in Processes /\ q # Nobody
  OBVIOUS
<1>4. pc'[q] \in OwnsThreadSeat /\ (k = UserKey(q) => pc'[q] \in OwnsThreadUser)
  BY <1>1, KeyFacts DEF TypeOK
<1>5. \A r \in Requests : r # q => pc'[r] = pc[r]
  BY <1>1 DEF TypeOK
<1>6. ThreadInv'
  <2> SUFFICES ASSUME NEW r \in Requests
               PROVE  /\ pc'[r] \in OwnsThreadSeat => threadLock'[ProcessOf[r]][SeatKey(r)] = r
                      /\ pc'[r] \in OwnsThreadUser => threadLock'[ProcessOf[r]][UserKey(r)] = r
    BY DEF ThreadInv, SeatKey, UserKey
  <2>1. CASE r = q
    <3>1. CASE k = SeatKey(q)
      <4>1. pc'[q] = "threadUser"
        BY <1>1, <3>1, KeyFacts DEF TypeOK
      <4>2. QED
        BY <1>2, <1>3, <2>1, <3>1, <4>1
    <3>2. CASE k = UserKey(q)
      <4>1. pc[q] \in OwnsThreadSeat /\ SeatKey(q) # k
        BY <1>1, <3>2, KeyFacts
      <4>2. threadLock[ProcessOf[q]][SeatKey(q)] = q
        BY <4>1 DEF ThreadInv
      <4>3. QED
        BY <1>2, <1>3, <2>1, <3>2, <4>1, <4>2, KeyFacts
    <3>3. QED
      BY <1>1, <3>1, <3>2
  <2>2. CASE r # q
    <3>1. /\ pc'[r] = pc[r] /\ ProcessOf[r] \in Processes
          /\ SeatKey(r) \in Keys /\ UserKey(r) \in Keys /\ r # Nobody
      BY <1>5, <2>2, KeyFacts
    <3>2. QED
      BY <1>1, <1>2, <2>2, <3>1 DEF ThreadInv
  <2>3. QED
    BY <2>1, <2>2
<1>7. ThreadOwnerInv'
  <2> SUFFICES ASSUME NEW p \in Processes, NEW j \in Keys, threadLock'[p][j] # Nobody
               PROVE  LET r == threadLock'[p][j] IN
                      /\ ProcessOf[r] = p
                      /\ \/ j = SeatKey(r) /\ pc'[r] \in OwnsThreadSeat
                         \/ j = UserKey(r) /\ pc'[r] \in OwnsThreadUser
    BY DEF ThreadOwnerInv, SeatKey, UserKey
  <2>1. CASE p = ProcessOf[q] /\ j = k
    BY <1>1, <1>2, <1>4, <2>1
  <2>2. CASE ~(p = ProcessOf[q] /\ j = k)
    <3>1. threadLock'[p][j] = threadLock[p][j] /\ threadLock[p][j] \in Requests
      BY <1>2, <2>2 DEF TypeOK
    <3> DEFINE r == threadLock[p][j]
    <3>2. /\ ProcessOf[r] = p
          /\ \/ j = SeatKey(r) /\ pc[r] \in OwnsThreadSeat
             \/ j = UserKey(r) /\ pc[r] \in OwnsThreadUser
      BY <3>1 DEF ThreadOwnerInv
    <3>3. pc[r] \in OwnsThreadSeat => pc'[r] \in OwnsThreadSeat
      BY <1>4, <1>5, <3>1
    <3>4. pc[r] \in OwnsThreadUser => pc'[r] \in OwnsThreadUser
      BY <1>1, <1>5, <3>1
    <3>5. QED
      BY <3>1, <3>2, <3>3, <3>4
  <2>3. QED
    BY <2>1, <2>2
<1>8. QED
  BY <1>6, <1>7

(* A thread on its way out gives back a lock it owns, the user lock first, *)
(* and leaves the owning region of that lock with the same step.           *)
LEMMA ThreadGiven ==
    ASSUME TypeOK, ThreadInv, ThreadOwnerInv,
           NEW q \in Requests, GiveThreadUser(q) \/ GiveThreadSeat(q)
    PROVE  ThreadInv' /\ ThreadOwnerInv'
<1>1. PICK k \in Keys :
         /\ threadLock' = [threadLock EXCEPT ![ProcessOf[q]][k] = Nobody]
         /\ \/ /\ k = UserKey(q)
               /\ pc[q] = "unlockUser"
               /\ pc' = [pc EXCEPT ![q] = "unlockSeat"]
            \/ /\ k = SeatKey(q)
               /\ pc[q] = "unlockSeat"
               /\ pc' = [pc EXCEPT ![q] = "close"]
  BY KeyFacts DEF GiveThreadUser, GiveThreadSeat, GiveThreadLock, Go
<1>2. \A p \in Processes, j \in Keys :
         threadLock'[p][j] = IF p = ProcessOf[q] /\ j = k THEN Nobody ELSE threadLock[p][j]
  BY <1>1 DEF TypeOK
<1>3. threadLock[ProcessOf[q]][k] = q
  BY <1>1 DEF ThreadInv
<1>4. \A r \in Requests : r # q => pc'[r] = pc[r]
  BY <1>1 DEF TypeOK
<1>5. ThreadInv'
  <2> SUFFICES ASSUME NEW r \in Requests
               PROVE  /\ pc'[r] \in OwnsThreadSeat => threadLock'[ProcessOf[r]][SeatKey(r)] = r
                      /\ pc'[r] \in OwnsThreadUser => threadLock'[ProcessOf[r]][UserKey(r)] = r
    BY DEF ThreadInv, SeatKey, UserKey
  <2>0. ProcessOf[r] \in Processes /\ SeatKey(r) \in Keys /\ UserKey(r) \in Keys
    BY KeyFacts
  <2>1. CASE r = q
    <3>1. pc'[q] \notin OwnsThreadUser /\ (k = SeatKey(q) => pc'[q] \notin OwnsThreadSeat)
      BY <1>1, KeyFacts DEF TypeOK
    <3>2. k = UserKey(q) => SeatKey(q) # k /\ pc[q] \in OwnsThreadSeat
      BY <1>1, KeyFacts
    <3>3. QED
      BY <1>1, <1>2, <2>0, <2>1, <3>1, <3>2 DEF ThreadInv
  <2>2. CASE r # q
    BY <1>2, <1>3, <1>4, <2>0, <2>2 DEF ThreadInv
  <2>3. QED
    BY <2>1, <2>2
<1>6. ThreadOwnerInv'
  <2> SUFFICES ASSUME NEW p \in Processes, NEW j \in Keys, threadLock'[p][j] # Nobody
               PROVE  LET r == threadLock'[p][j] IN
                      /\ ProcessOf[r] = p
                      /\ \/ j = SeatKey(r) /\ pc'[r] \in OwnsThreadSeat
                         \/ j = UserKey(r) /\ pc'[r] \in OwnsThreadUser
    BY DEF ThreadOwnerInv, SeatKey, UserKey
  <2> DEFINE r == threadLock[p][j]
  <2>1. /\ threadLock'[p][j] = r /\ r \in Requests
        /\ ~(p = ProcessOf[q] /\ j = k)
    BY <1>2 DEF TypeOK
  <2>2. /\ ProcessOf[r] = p
        /\ \/ j = SeatKey(r) /\ pc[r] \in OwnsThreadSeat
           \/ j = UserKey(r) /\ pc[r] \in OwnsThreadUser
    BY <2>1 DEF ThreadOwnerInv
  <2>3. CASE r = q
    <3>1. k = UserKey(q) /\ j = SeatKey(q) /\ pc'[q] = "unlockSeat"
      BY <1>1, <2>1, <2>2, <2>3 DEF TypeOK
    <3>2. QED
      BY <2>1, <2>2, <2>3, <3>1
  <2>4. CASE r # q
    BY <1>4, <2>1, <2>2, <2>4
  <2>5. QED
    BY <2>3, <2>4
<1>7. QED
  BY <1>5, <1>6

(* A crash takes the locks of the process and all its running requests.    *)
LEMMA ThreadCrashed ==
    ASSUME TypeOK, ThreadInv, ThreadOwnerInv, NEW p \in Processes, Crash(p)
    PROVE  ThreadInv' /\ ThreadOwnerInv'
<1>1. \A o \in Processes, k \in Keys :
         threadLock'[o][k] = IF o = p THEN Nobody ELSE threadLock[o][k]
  BY DEF Crash, TypeOK
<1>2. \A q \in Requests :
         /\ ProcessOf[q] = p => pc'[q] \notin OwnsThreadSeat
         /\ ProcessOf[q] # p => pc'[q] = pc[q]
  BY DEF Crash, TypeOK
<1>3. \A q \in Requests : SeatKey(q) \in Keys /\ UserKey(q) \in Keys
  BY KeyFacts
<1>4. ThreadInv'
  <2> SUFFICES ASSUME NEW r \in Requests
               PROVE  /\ pc'[r] \in OwnsThreadSeat => threadLock'[ProcessOf[r]][SeatKey(r)] = r
                      /\ pc'[r] \in OwnsThreadUser => threadLock'[ProcessOf[r]][UserKey(r)] = r
    BY DEF ThreadInv, SeatKey, UserKey
  <2>1. ProcessOf[r] \in Processes
    OBVIOUS
  <2>2. CASE ProcessOf[r] = p
    BY <1>2, <2>2
  <2>3. CASE ProcessOf[r] # p
    BY <1>1, <1>2, <1>3, <2>1, <2>3 DEF ThreadInv
  <2>4. QED
    BY <2>2, <2>3
<1>5. ThreadOwnerInv'
  <2> SUFFICES ASSUME NEW o \in Processes, NEW k \in Keys, threadLock'[o][k] # Nobody
               PROVE  LET r == threadLock'[o][k] IN
                      /\ ProcessOf[r] = o
                      /\ \/ k = SeatKey(r) /\ pc'[r] \in OwnsThreadSeat
                         \/ k = UserKey(r) /\ pc'[r] \in OwnsThreadUser
    BY DEF ThreadOwnerInv, SeatKey, UserKey
  <2>1. o # p /\ threadLock'[o][k] = threadLock[o][k] /\ threadLock[o][k] \in Requests
    BY <1>1 DEF TypeOK
  <2>2. QED
    BY <1>2, <2>1 DEF ThreadOwnerInv
<1>6. QED
  BY <1>4, <1>5

(* The ownership of the thread locks is inductive.                         *)
LEMMA ThreadStep ==
    TypeOK /\ ThreadInv /\ ThreadOwnerInv /\ [Next]_vars => ThreadInv' /\ ThreadOwnerInv'
<1> SUFFICES ASSUME TypeOK, ThreadInv, ThreadOwnerInv, [Next]_vars
             PROVE  ThreadInv' /\ ThreadOwnerInv'
  OBVIOUS
<1> DEFINE Unmoved ==
      /\ UNCHANGED threadLock
      /\ \A r \in Requests : /\ pc'[r] \in OwnsThreadSeat <=> pc[r] \in OwnsThreadSeat
                             /\ pc'[r] \in OwnsThreadUser <=> pc[r] \in OwnsThreadUser
<1>1. Unmoved => ThreadInv' /\ ThreadOwnerInv'
  BY ThreadUnmoved
<1>2. CASE UNCHANGED vars
  BY <1>1, <1>2 DEF vars
<1>3. ASSUME NEW q \in Requests, Arrive(q) PROVE Unmoved
  BY <1>3 DEF Arrive, Go, locks, TypeOK
<1>4. ASSUME NEW q \in Requests, Step(q) PROVE ThreadInv' /\ ThreadOwnerInv'
  <2>1. CASE TakeThreadSeat(q) \/ TakeThreadUser(q)
    BY <2>1, ThreadTaken
  <2>2. CASE GiveThreadUser(q) \/ GiveThreadSeat(q)
    BY <2>2, ThreadGiven
  <2>3. CASE TakeAdvisorySeat(q) \/ TakeAdvisoryUser(q)
    BY <1>1, <2>3 DEF TakeAdvisorySeat, TakeAdvisoryUser, TakeAdvisory, Go, TypeOK
  <2>4. CASE CheckEligibility(q) \/ CheckSeat(q) \/ CheckUser(q)
    <3>1. UNCHANGED threadLock /\ \E from, to \in OwnsThreadUser :
             pc[q] = from /\ pc' = [pc EXCEPT ![q] = to]
      BY <2>4 DEF CheckEligibility, CheckSeat, CheckUser, Check, locks
    <3>2. QED
      BY <1>1, <3>1 DEF TypeOK
  <2>5. CASE InsertAndCommit(q) \/ Refresh(q) \/ StatementFails(q)
    BY <1>1, <2>5 DEF InsertAndCommit, Refresh, StatementFails, Go, locks, TypeOK
  <2>6. CASE Rollback(q) \/ CloseSession(q)
    BY <1>1, <2>6 DEF Rollback, CloseSession, Go, TypeOK
  <2>7. QED
    BY <1>4, <2>1, <2>2, <2>3, <2>4, <2>5, <2>6 DEF Step, Progress
<1>5. ASSUME NEW q \in Requests, ServerStep(q) PROVE Unmoved
  BY <1>5 DEF ServerStep, InFlightCommit, SessionAborted, Go, TypeOK
<1>6. ASSUME NEW q \in Requests, RowStep(q) PROVE Unmoved
  BY <1>6 DEF RowStep, CheckIn, Expire, Cancel, TransitionStatus, locks
<1>7. ASSUME NEW p \in Processes, Crash(p) PROVE ThreadInv' /\ ThreadOwnerInv'
  BY <1>7, ThreadCrashed
<1>8. QED
  BY <1>1, <1>2, <1>3, <1>4, <1>5, <1>6, <1>7 DEF Next, Finished

-----------------------------------------------------------------------------
(* Ownership of the advisory locks.                                        *)

(* The end of the transaction of q frees the locks of q only.              *)
LEMMA AdvisoryFreed ==
    ASSUME TypeOK, NEW q \in Requests, advisory' = WithoutAdvisory(q), NEW k \in Keys
    PROVE  /\ advisory'[k] # q
           /\ advisory[k] # q => advisory'[k] = advisory[k]
  BY DEF WithoutAdvisory

(* A step that changes no advisory lock keeps their ownership when it lets *)
(* no request into an owning region or out of its open session.            *)
LEMMA AdvisoryUnmoved ==
    ASSUME TypeOK, AdvisoryInv, AdvisoryOwnerInv, UNCHANGED advisory,
           Postgres => \A q \in Requests :
               /\ pc'[q] \in OwnsAdvisorySeat => pc[q] \in OwnsAdvisorySeat
               /\ pc'[q] \in OwnsAdvisoryUser => pc[q] \in OwnsAdvisoryUser
               /\ pc[q] \in Running \cup Ghost => pc'[q] \in Running \cup Ghost,
           ~Postgres => \A q \in Requests :
               pc'[q] \notin Ghost \cup {"advisorySeat", "advisoryUser"}
    PROVE  AdvisoryInv' /\ AdvisoryOwnerInv'
<1>1. AdvisoryInv'
  BY DEF AdvisoryInv, SeatKey, UserKey
<1>2. AdvisoryOwnerInv'
  BY DEF AdvisoryInv, AdvisoryOwnerInv, TypeOK
<1>3. QED
  BY <1>1, <1>2

(* A step of q that ends its transaction and leaves the owning regions.    *)
LEMMA AdvisoryReleased ==
    ASSUME TypeOK, AdvisoryInv, AdvisoryOwnerInv,
           NEW q \in Requests, advisory' = WithoutAdvisory(q),
           NEW to \in {"refresh", "unlockUser", "done", "dead"},
           pc' = [pc EXCEPT ![q] = to]
    PROVE  AdvisoryInv' /\ AdvisoryOwnerInv'
<1>1. \A r \in Requests : pc'[r] = IF r = q THEN to ELSE pc[r]
  BY DEF TypeOK
<1>2. \A k \in Keys : advisory'[k] = IF advisory[k] = q THEN Nobody ELSE advisory[k]
  BY DEF WithoutAdvisory
<1>3. \A r \in Requests : SeatKey(r) \in Keys /\ UserKey(r) \in Keys
  BY KeyFacts
<1>4. AdvisoryInv'
  BY <1>1, <1>2, <1>3 DEF AdvisoryInv, SeatKey, UserKey
<1>5. AdvisoryOwnerInv'
  BY <1>1, <1>2 DEF AdvisoryOwnerInv, TypeOK
<1>6. QED
  BY <1>4, <1>5

(* A request takes an advisory lock only when it is free.                  *)
LEMMA AdvisoryTaken ==
    ASSUME TypeOK, AdvisoryInv, AdvisoryOwnerInv,
           NEW q \in Requests, TakeAdvisorySeat(q) \/ TakeAdvisoryUser(q)
    PROVE  AdvisoryInv' /\ AdvisoryOwnerInv'
<1>1. PICK k \in Keys, to \in {"advisoryUser", "eligibility"} :
         /\ advisory[k] = Nobody
         /\ advisory' = [advisory EXCEPT ![k] = q]
         /\ pc[q] \in {"advisorySeat", "advisoryUser"}
         /\ pc' = [pc EXCEPT ![q] = to]
         /\ \/ k = SeatKey(q) /\ to = "advisoryUser"
            \/ k = UserKey(q) /\ to = "eligibility" /\ pc[q] = "advisoryUser"
  <2>1. SeatKey(q) \in Keys /\ UserKey(q) \in Keys
    BY KeyFacts
  <2>2. CASE TakeAdvisorySeat(q)
    BY <2>1, <2>2 DEF TakeAdvisorySeat, TakeAdvisory, Go
  <2>3. CASE TakeAdvisoryUser(q)
    BY <2>1, <2>3 DEF TakeAdvisoryUser, TakeAdvisory, Go
  <2>4. QED
    BY <2>2, <2>3
<1>2. \A r \in Requests : pc'[r] = IF r = q THEN to ELSE pc[r]
  BY <1>1 DEF TypeOK
<1>3. \A j \in Keys : advisory'[j] = IF j = k THEN q ELSE advisory[j]
  BY <1>1 DEF TypeOK
<1>4. \A r \in Requests : SeatKey(r) \in Keys /\ UserKey(r) \in Keys /\ r # Nobody
  BY KeyFacts
<1>5. Postgres
  BY <1>1 DEF AdvisoryInv
<1>6. AdvisoryInv'
  <2> SUFFICES ASSUME NEW r \in Requests
               PROVE  /\ pc'[r] \in OwnsAdvisorySeat => advisory'[SeatKey(r)] = r
                      /\ pc'[r] \in OwnsAdvisoryUser => advisory'[UserKey(r)] = r
    BY <1>5 DEF AdvisoryInv, SeatKey, UserKey
  <2>1. CASE r = q
    BY <1>1, <1>2, <1>3, <1>4, <1>5, <2>1 DEF AdvisoryInv
  <2>2. CASE r # q
    BY <1>1, <1>2, <1>3, <1>4, <1>5, <2>2 DEF AdvisoryInv
  <2>3. QED
    BY <2>1, <2>2
<1>7. AdvisoryOwnerInv'
  BY <1>1, <1>2, <1>3 DEF AdvisoryOwnerInv, TypeOK
<1>8. QED
  BY <1>6, <1>7

(* The ownership of the advisory locks is inductive.                       *)
LEMMA AdvisoryStep ==
    TypeOK /\ AdvisoryInv /\ AdvisoryOwnerInv /\ [Next]_vars
        => AdvisoryInv' /\ AdvisoryOwnerInv'
<1> SUFFICES ASSUME TypeOK, AdvisoryInv, AdvisoryOwnerInv, [Next]_vars
             PROVE  AdvisoryInv' /\ AdvisoryOwnerInv'
  OBVIOUS
<1> DEFINE Unmoved ==
      /\ UNCHANGED advisory
      /\ Postgres => \A r \in Requests :
           /\ pc'[r] \in OwnsAdvisorySeat => pc[r] \in OwnsAdvisorySeat
           /\ pc'[r] \in OwnsAdvisoryUser => pc[r] \in OwnsAdvisoryUser
           /\ pc[r] \in Running \cup Ghost => pc'[r] \in Running \cup Ghost
      /\ ~Postgres => \A r \in Requests :
           pc'[r] \notin Ghost \cup {"advisorySeat", "advisoryUser"}
<1>1. Unmoved => AdvisoryInv' /\ AdvisoryOwnerInv'
  BY AdvisoryUnmoved
<1> HIDE DEF Unmoved
<1> USE DEF TypeOK
<1>2. CASE UNCHANGED vars
  BY <1>1, <1>2 DEF vars, Unmoved, AdvisoryInv
<1>3. ASSUME NEW q \in Requests, Arrive(q) PROVE Unmoved
  BY <1>3 DEF Arrive, Go, locks, Unmoved, AdvisoryInv
<1>4. ASSUME NEW q \in Requests, Step(q) PROVE AdvisoryInv' /\ AdvisoryOwnerInv'
  <2>1. CASE TakeThreadSeat(q) \/ TakeThreadUser(q)
    BY <1>1, <2>1 DEF TakeThreadSeat, TakeThreadUser, TakeThreadLock, Go, Unmoved, AdvisoryInv
  <2>2. CASE GiveThreadUser(q) \/ GiveThreadSeat(q)
    BY <1>1, <2>2 DEF GiveThreadUser, GiveThreadSeat, GiveThreadLock, Go, Unmoved, AdvisoryInv
  <2>3. CASE TakeAdvisorySeat(q) \/ TakeAdvisoryUser(q)
    BY <2>3, AdvisoryTaken
  <2>4. CASE CheckEligibility(q) \/ CheckSeat(q) \/ CheckUser(q)
    <3>1. UNCHANGED advisory /\ \E from \in OwnsAdvisoryUser, to \in OwnsAdvisoryUser \cup {"rollback"} :
             pc[q] = from /\ pc' = [pc EXCEPT ![q] = to] /\ to # "inflight"
      BY <2>4 DEF CheckEligibility, CheckSeat, CheckUser, Check, locks
    <3>2. QED
      BY <1>1, <3>1 DEF Unmoved, AdvisoryInv
  <2>5. CASE InsertAndCommit(q)
    BY <2>5, AdvisoryReleased DEF InsertAndCommit, CommitRow, Go
  <2>6. CASE Refresh(q) \/ StatementFails(q)
    BY <1>1, <2>6 DEF Refresh, StatementFails, Go, locks, Unmoved, AdvisoryInv
  <2>7. CASE Rollback(q) \/ CloseSession(q)
    BY <2>7, AdvisoryReleased DEF Rollback, CloseSession, Go
  <2>8. QED
    BY <1>4, <2>1, <2>2, <2>3, <2>4, <2>5, <2>6, <2>7 DEF Step, Progress
<1>5. ASSUME NEW q \in Requests, ServerStep(q) PROVE AdvisoryInv' /\ AdvisoryOwnerInv'
  BY <1>5, AdvisoryReleased DEF ServerStep, InFlightCommit, SessionAborted, CommitRow, Go
<1>6. ASSUME NEW q \in Requests, RowStep(q) PROVE Unmoved
  BY <1>6 DEF RowStep, CheckIn, Expire, Cancel, TransitionStatus, locks, Unmoved, AdvisoryInv
<1>7. ASSUME NEW p \in Processes, Crash(p) PROVE Unmoved
  BY <1>7 DEF Crash, Unmoved, AdvisoryInv
<1>8. QED
  BY <1>1, <1>2, <1>3, <1>4, <1>5, <1>6, <1>7 DEF Next, Finished

-----------------------------------------------------------------------------
(* Rows and answers.                                                       *)

(* A request has its row exactly once, no earlier than its commit, and its *)
(* answer agrees with it.                                                  *)
LEMMA RowInvStep == TypeOK /\ AdvisoryInv /\ RowInv /\ [Next]_vars => RowInv'
<1> SUFFICES ASSUME TypeOK, AdvisoryInv, RowInv, [Next]_vars PROVE RowInv'
  OBVIOUS
<1> USE DEF TypeOK, RowInv
<1>1. CASE UNCHANGED vars
  BY <1>1 DEF vars
<1>2. ASSUME NEW q \in Requests, Arrive(q) PROVE RowInv'
  BY <1>2 DEF Arrive, Go, locks
<1>3. ASSUME NEW q \in Requests, Step(q) PROVE RowInv'
  <2>1. CASE TakeThreadSeat(q) \/ TakeThreadUser(q)
    BY <2>1 DEF TakeThreadSeat, TakeThreadUser, TakeThreadLock, Go
  <2>2. CASE TakeAdvisorySeat(q) \/ TakeAdvisoryUser(q)
    BY <2>2 DEF TakeAdvisorySeat, TakeAdvisoryUser, TakeAdvisory, Go
  <2>3. CASE CheckEligibility(q) \/ CheckSeat(q) \/ CheckUser(q)
    BY <2>3 DEF CheckEligibility, CheckSeat, CheckUser, Check, locks
  <2>4. CASE InsertAndCommit(q)
    BY <2>4 DEF InsertAndCommit, CommitRow, Go
  <2>5. CASE Refresh(q) \/ StatementFails(q)
    BY <2>5 DEF Refresh, StatementFails, Go, locks
  <2>6. CASE Rollback(q) \/ CloseSession(q)
    BY <2>6 DEF Rollback, CloseSession, Go
  <2>7. CASE GiveThreadUser(q) \/ GiveThreadSeat(q)
    BY <2>7 DEF GiveThreadUser, GiveThreadSeat, GiveThreadLock, Go
  <2>8. QED
    BY <1>3, <2>1, <2>2, <2>3, <2>4, <2>5, <2>6, <2>7 DEF Step, Progress
<1>4. ASSUME NEW q \in Requests, ServerStep(q) PROVE RowInv'
  BY <1>4 DEF ServerStep, InFlightCommit, SessionAborted, CommitRow, Go
<1>5. ASSUME NEW q \in Requests, RowStep(q) PROVE RowInv'
  BY <1>5 DEF RowStep, CheckIn, Expire, Cancel, TransitionStatus, locks, Statuses
<1>6. ASSUME NEW p \in Processes, Crash(p) PROVE RowInv'
  BY <1>6 DEF Crash
<1>7. QED
  BY <1>1, <1>2, <1>3, <1>4, <1>5, <1>6 DEF Next, Finished

-----------------------------------------------------------------------------
(* What an answered conflict query still guarantees.                       *)

(* Two requests never stand inside the same critical section: between its  *)
(* lock and its commit, a request is alone with its seat and with its user *)
(* (by the advisory locks on PostgreSQL, by the thread locks otherwise).   *)
LEMMA Exclusion ==
    ASSUME TypeOK, LockInv, NEW q \in Requests, NEW r \in Requests, q # r,
           pc[q] \in OwnsAdvisoryUser, pc[r] \in OwnsAdvisoryUser
    PROVE  SeatOf[q] # SeatOf[r] /\ UserOf[q] # UserOf[r]
<1>1. CASE Postgres
  BY <1>1, KeyFacts DEF LockInv, AdvisoryInv
<1>2. CASE ~Postgres
  <2>1. pc[q] \in OwnsThreadUser /\ pc[r] \in OwnsThreadUser
    BY <1>2 DEF LockInv, AdvisoryInv
  <2>2. ProcessOf[q] = ProcessOf[r]
    BY <1>2
  <2>3. QED
    BY <2>1, <2>2, KeyFacts DEF LockInv, ThreadInv
<1>3. QED
  BY <1>1, <1>2

(* The answers of the conflict queries stay true until the commit: only a  *)
(* commit makes a row active, and only the owner of the lock can commit.   *)
LEMMA FactStep ==
    TypeOK /\ LockInv /\ RowInv /\ FactInv /\ [Next]_vars => FactInv'
<1> SUFFICES ASSUME TypeOK, LockInv, RowInv, FactInv, [Next]_vars PROVE FactInv'
  OBVIOUS
<1> USE DEF TypeOK
(* Only a commit activates a row; any other step keeps the facts it finds. *)
<1> DEFINE NoNewActive == \A r \in Requests : Active(r)' => Active(r)
           NoNewFact   == \A r \in Requests :
               /\ pc'[r] \in {"userOverlap", "insert", "inflight"} =>
                     pc[r] \in {"userOverlap", "insert", "inflight"} \/ ~SeatConflict(r)
               /\ pc'[r] \in {"insert", "inflight"} =>
                     pc[r] \in {"insert", "inflight"} \/ ~UserOverlap(r)
<1>1. NoNewActive /\ NoNewFact => FactInv'
  BY DEF FactInv, SeatConflict, UserOverlap, Overlaps, Active
<1> HIDE DEF NoNewActive, NoNewFact
<1>2. CASE UNCHANGED vars
  BY <1>1, <1>2 DEF vars, NoNewActive, NoNewFact, Active
<1>3. ASSUME NEW q \in Requests, CommitRow(q), pc[q] \in {"insert", "inflight"},
             pc' \in {[pc EXCEPT ![q] = "refresh"], [pc EXCEPT ![q] = "dead"]}
      PROVE  FactInv'
  <2> SUFFICES ASSUME NEW r \in Requests
               PROVE  /\ pc'[r] \in {"userOverlap", "insert", "inflight"} => ~SeatConflict(r)'
                      /\ pc'[r] \in {"insert", "inflight"} => ~UserOverlap(r)'
    BY DEF FactInv
  <2>1. CASE pc'[r] \in {"userOverlap", "insert", "inflight"}
    <3>1. r # q /\ pc'[r] = pc[r]
      BY <1>3, <2>1
    <3>2. SeatOf[q] # SeatOf[r] /\ UserOf[q] # UserOf[r]
      BY <1>3, <2>1, <3>1, Exclusion
    <3>3. \A x \in Requests : x # q => Active(x)' = Active(x)
      BY <1>3 DEF CommitRow, Active
    <3>4. QED
      BY <2>1, <3>1, <3>2, <3>3 DEF FactInv, SeatConflict, UserOverlap, Overlaps
  <2>2. QED
    BY <2>1
<1>4. ASSUME NEW q \in Requests, Arrive(q) PROVE FactInv'
  BY <1>1, <1>4 DEF Arrive, Go, locks, NoNewActive, NoNewFact, Active
<1>5. ASSUME NEW q \in Requests, Step(q) PROVE FactInv'
  <2>1. CASE TakeThreadSeat(q) \/ TakeThreadUser(q)
    BY <1>1, <2>1 DEF TakeThreadSeat, TakeThreadUser, TakeThreadLock, Go, NoNewActive, NoNewFact, Active
  <2>2. CASE TakeAdvisorySeat(q) \/ TakeAdvisoryUser(q)
    BY <1>1, <2>2 DEF TakeAdvisorySeat, TakeAdvisoryUser, TakeAdvisory, Go, NoNewActive, NoNewFact, Active
  <2>3. CASE CheckEligibility(q) \/ CheckSeat(q) \/ CheckUser(q)
    BY <1>1, <2>3 DEF CheckEligibility, CheckSeat, CheckUser, Check, locks, NoNewActive, NoNewFact, Active
  <2>4. CASE InsertAndCommit(q)
    BY <1>3, <2>4 DEF InsertAndCommit, Go
  <2>5. CASE Refresh(q) \/ StatementFails(q)
    BY <1>1, <2>5 DEF Refresh, StatementFails, Go, locks, NoNewActive, NoNewFact, Active
  <2>6. CASE Rollback(q) \/ CloseSession(q)
    BY <1>1, <2>6 DEF Rollback, CloseSession, Go, NoNewActive, NoNewFact, Active
  <2>7. CASE GiveThreadUser(q) \/ GiveThreadSeat(q)
    BY <1>1, <2>7 DEF GiveThreadUser, GiveThreadSeat, GiveThreadLock, Go, NoNewActive, NoNewFact, Active
  <2>8. QED
    BY <1>5, <2>1, <2>2, <2>3, <2>4, <2>5, <2>6, <2>7 DEF Step, Progress
<1>6. ASSUME NEW q \in Requests, ServerStep(q) PROVE FactInv'
  <2>1. CASE InFlightCommit(q)
    BY <1>3, <2>1 DEF InFlightCommit, Go
  <2>2. CASE SessionAborted(q)
    BY <1>1, <2>2 DEF SessionAborted, NoNewActive, NoNewFact, Active
  <2>3. QED
    BY <1>6, <2>1, <2>2 DEF ServerStep
<1>7. ASSUME NEW q \in Requests, RowStep(q) PROVE FactInv'
  BY <1>1, <1>7 DEF RowStep, CheckIn, Expire, Cancel, TransitionStatus, locks, NoNewActive, NoNewFact, Active
<1>8. ASSUME NEW p \in Processes, Crash(p) PROVE FactInv'
  BY <1>1, <1>8 DEF Crash, NoNewActive, NoNewFact, Active
<1>9. QED
  BY <1>2, <1>4, <1>5, <1>6, <1>7, <1>8 DEF Next, Finished

-----------------------------------------------------------------------------
(* The inductive invariant and what follows from it.                       *)
THEOREM WriteInvariant == Spec => []IInv
<1>1. Init => IInv
  BY KeyFacts DEF Init, IInv, TypeOK, Counters, Statuses, Answers, LockInv, ThreadInv,
                  ThreadOwnerInv, AdvisoryInv, AdvisoryOwnerInv, RowInv, FactInv
<1>2. IInv /\ [Next]_vars => IInv'
  BY TypeStep, ThreadStep, AdvisoryStep, RowInvStep, FactStep DEF IInv, LockInv
<1>3. QED
  BY <1>1, <1>2, PTL DEF Spec

(* Type correctness of the write path, for every deployment.               *)
THEOREM WriteTypeCorrect == Spec => []TypeOK
  BY WriteInvariant, PTL DEF IInv

(* No request leaves a lock behind, on any path out of the block, after    *)
(* any failed statement and any crash.                                     *)
THEOREM WriteLeaksNoLock == Spec => []NoLockLeaks
<1>1. IInv => NoLockLeaks
  <2> SUFFICES ASSUME IInv PROVE NoLockLeaks
    OBVIOUS
  <2>1. ASSUME NEW p \in Processes, NEW k \in Keys, threadLock[p][k] # Nobody
        PROVE  LET q == threadLock[p][k] IN
               ProcessOf[q] = p /\ pc[q] \in Running \ {"threadSeat", "close"}
    BY <2>1 DEF IInv, LockInv, ThreadOwnerInv
  <2>2. QED
    BY <2>1 DEF NoLockLeaks, IInv, LockInv, AdvisoryOwnerInv
<1>2. QED
  BY <1>1, WriteInvariant, PTL

(* What a caller was told agrees with the table.                           *)
THEOREM WriteAnswersMatchRows == Spec => []AnswersMatchRows
<1>1. IInv => AnswersMatchRows
  BY DEF IInv, RowInv, AnswersMatchRows
<1>2. QED
  BY <1>1, WriteInvariant, PTL

-----------------------------------------------------------------------------
(* The write path implements the ledger.                                   *)

(* A commit enters the request in the ledger, where nothing competes.      *)
LEMMA CommitHolds ==
    ASSUME IInv, NEW q \in Requests, pc[q] \in {"insert", "inflight"}, CommitRow(q)
    PROVE  Ledger!Hold(q)
<1>1. LedgerOf[q] = "none"
  BY DEF LedgerOf, IInv, RowInv
<1>2. LedgerOf' = [LedgerOf EXCEPT ![q] = "held"]
  BY DEF LedgerOf, CommitRow, IInv, TypeOK
<1>3. ASSUME NEW r \in Requests, Ledger!Held(r) PROVE ~Ledger!Compete(q, r)
  <2>1. Active(r)
    BY <1>3 DEF Ledger!Held, LedgerOf, Active
  <2>2. SeatOf[q] = SeatOf[r] \/ UserOf[q] = UserOf[r] => ~Overlaps(q, r)
    BY <2>1 DEF IInv, FactInv, SeatConflict, UserOverlap
  <2>3. QED
    BY <2>2 DEF Ledger!Compete, Ledger!SameSeatOrUser, Ledger!Covers, Overlaps
<1>4. QED
  BY <1>1, <1>2, <1>3 DEF Ledger!Hold

(* A transition of a row keeps its entry or releases it, and never         *)
(* brings a released one back.                                             *)
LEMMA TransitionReleases ==
    ASSUME IInv, NEW q \in Requests, RowStep(q)
    PROVE  Ledger!Release({q}) \/ UNCHANGED LedgerOf
<1>1. PICK current, new \in Statuses :
         /\ status[q] = current
         /\ status' = [status EXCEPT ![q] = new]
         /\ current # "NONE" /\ new # "NONE"
         /\ new \in {"BOOKED", "CHECKED_IN"} => current \in {"BOOKED", "CHECKED_IN"}
  BY DEF RowStep, CheckIn, Expire, Cancel, TransitionStatus, Statuses
<1>2. CASE current \in {"BOOKED", "CHECKED_IN"} /\ new \notin {"BOOKED", "CHECKED_IN"}
  <2>1. /\ LedgerOf[q] = "held"
        /\ LedgerOf' = [r \in Requests |-> IF r \in {q} THEN "released" ELSE LedgerOf[r]]
    BY <1>1, <1>2 DEF LedgerOf, IInv, TypeOK
  <2>2. QED
    BY <2>1 DEF Ledger!Release, Ledger!Held
<1>3. CASE ~(current \in {"BOOKED", "CHECKED_IN"} /\ new \notin {"BOOKED", "CHECKED_IN"})
  BY <1>1, <1>3 DEF LedgerOf, IInv, TypeOK
<1>4. QED
  BY <1>2, <1>3

(* BookingWrite implements BookingLedger under the mapping LedgerOf.       *)
THEOREM WriteImplementsLedger == Spec => ImplementsLedger
<1>1. Init => Ledger!Init
  BY DEF Init, Ledger!Init, LedgerOf
<1>2. IInv /\ [Next]_vars => [Ledger!Next]_LedgerOf
  <2> SUFFICES ASSUME IInv, [Next]_vars PROVE Ledger!Next \/ UNCHANGED LedgerOf
    OBVIOUS
  <2>1. UNCHANGED status => UNCHANGED LedgerOf
    BY DEF LedgerOf
  <2>2. ASSUME NEW q \in Requests, InsertAndCommit(q) \/ InFlightCommit(q)
        PROVE  Ledger!Next
    <3>1. Ledger!Hold(q)
      BY <2>2, CommitHolds DEF InsertAndCommit, InFlightCommit, Go
    <3>2. QED
      BY <3>1 DEF Ledger!Next
  <2>3. ASSUME NEW q \in Requests, RowStep(q)
        PROVE  Ledger!Next \/ UNCHANGED LedgerOf
    BY <2>3, TransitionReleases DEF Ledger!Next
  <2>4. CASE UNCHANGED vars
    BY <2>1, <2>4 DEF vars
  <2>5. ASSUME NEW q \in Requests, Arrive(q) \/ Step(q) \/ ServerStep(q)
        PROVE  Ledger!Next \/ UNCHANGED LedgerOf
    BY <2>1, <2>2, <2>5
       DEF Step, Progress, ServerStep, Arrive, TakeThreadSeat, TakeThreadUser, TakeThreadLock,
           TakeAdvisorySeat, TakeAdvisoryUser, TakeAdvisory, CheckEligibility, CheckSeat,
           CheckUser, Check, Refresh, StatementFails, Rollback, GiveThreadUser,
           GiveThreadSeat, GiveThreadLock, CloseSession, SessionAborted
  <2>6. ASSUME NEW p \in Processes, Crash(p) PROVE UNCHANGED LedgerOf
    BY <2>1, <2>6 DEF Crash
  <2>7. QED
    BY <2>3, <2>4, <2>5, <2>6 DEF Next, Finished
<1>3. QED
  BY <1>1, <1>2, WriteInvariant, PTL DEF Spec, ImplementsLedger, Ledger!Spec

(* No double booking, for any requests on any number of processes: the     *)
(* ledger has none, and the write path implements the ledger.              *)
THEOREM WriteNeverDoubleBooks == Spec => []NoDoubleBooking
<1>1. Ledger!Spec => [](Ledger!TypeOK /\ Ledger!NoDoubleBooking)
  BY Ledger!LedgerSafe
<1>2. QED
  BY <1>1, WriteImplementsLedger, PTL DEF NoDoubleBooking, ImplementsLedger
=============================================================================
