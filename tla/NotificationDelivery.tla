------------------------ MODULE NotificationDelivery ------------------------
(***************************************************************************)
(* The notification module and the scheduler that drives it: every server  *)
(* process runs a loop, and each tick of a loop runs four tasks in order,  *)
(* two reminders, the release of overdue bookings and the release notice.  *)
(* A message is claimed in the database (PENDING), handed to the mail      *)
(* server, and marked SENT or FAILED; only a FAILED message is tried again.*)
(* Each database transaction and the delivery are steps of their own:      *)
(* other loops, students and administrators act in between, a statement or *)
(* a delivery may fail, and a process may die and come back.               *)
(***************************************************************************)
EXTENDS Integers

CONSTANTS
    Reservations,       \* ids (integers)
    StartOf,
    Lead, NoShowAfter,  \* the 15 and 10 minutes of the two reminders
    Threshold,          \* violation_threshold_minutes
    Loops,              \* scheduler loops, one per server process
    MaxTime,            \* bound on the clock
    MaxErrors,          \* bound on failed statements and deliveries
    MaxCrashes          \* bound on process crashes

ASSUME DeliveryAssumption ==
    /\ Reservations \subseteq Int
    /\ StartOf \in [Reservations -> Nat]
    /\ Lead \in Nat /\ NoShowAfter \in Nat /\ Threshold \in Nat
    /\ MaxTime \in Nat /\ MaxErrors \in Nat /\ MaxCrashes \in Nat

VARIABLES
    now,        \* datetime.now(), to the minute
    status,     \* reservation -> status of its row
    log,        \* <<reservation, type>> -> status of its row in notification_logs
    mails,      \* <<reservation, type>> -> mails the mail server accepted
    unsure,     \* <<reservation, type>> -> those whose acceptance the client missed
    loop,       \* loop -> [pc, task, at, todo, turn, seen]
    errors, crashes

vars == <<now, status, log, mails, unsure, loop, errors, crashes>>
outbox == <<log, mails, unsure>>

Types    == {"RESERVATION_REMINDER", "NO_SHOW_REMINDER", "AUTO_CANCEL_NOTICE"}
Messages == Reservations \X Types
Tasks    == <<"RESERVATION_REMINDER", "NO_SHOW_REMINDER", "EXPIRED_RELEASE",
              "AUTO_CANCEL_NOTICE">>

Statuses == {"BOOKED", "CHECKED_IN", "CANCELLED", "EXPIRED"}
Idle     == [pc |-> "idle", task |-> 1, at |-> 0, todo |-> {}, turn |-> 0, seen |-> "NONE"]

(* A loop between the claim of a message and its verdict.                  *)
Sending == {"deliver", "accepted", "refused"}

TypeOK ==
    /\ now \in 0..MaxTime
    /\ status \in [Reservations -> Statuses]
    /\ log \in [Messages -> {"NONE", "PENDING", "SENT", "FAILED"}]
    /\ mails \in [Messages -> Nat] /\ unsure \in [Messages -> Nat]
    /\ loop \in [Loops -> [pc : {"idle", "task", "next", "claim"} \cup Sending,
                           task : 1..4, at : 0..MaxTime, todo : SUBSET Reservations,
                           turn : Int, seen : {"NONE", "FAILED"}]]
    /\ errors \in 0..MaxErrors /\ crashes \in 0..MaxCrashes

Init ==
    /\ now = 0
    /\ status = [r \in Reservations |-> "BOOKED"]
    /\ log = [m \in Messages |-> "NONE"]
    /\ mails = [m \in Messages |-> 0]
    /\ unsure = [m \in Messages |-> 0]
    /\ loop = [s \in Loops |-> Idle]
    /\ errors = 0 /\ crashes = 0

-----------------------------------------------------------------------------
(* Who a task concerns, at the time "at" its tick began.  The reminders    *)
(* and the release look for BOOKED rows, the notice for EXPIRED ones.      *)
Concerns(task, r, at) ==
    \/ /\ task = "RESERVATION_REMINDER"
       /\ status[r] = "BOOKED" /\ at < StartOf[r] /\ StartOf[r] <= at + Lead
    \/ /\ task = "NO_SHOW_REMINDER"
       /\ status[r] = "BOOKED" /\ StartOf[r] <= at - NoShowAfter
    \/ /\ task = "EXPIRED_RELEASE"
       /\ status[r] = "BOOKED" /\ StartOf[r] <= at - Threshold
    \/ /\ task = "AUTO_CANCEL_NOTICE"
       /\ status[r] = "EXPIRED"

Candidates(s) ==
    {r \in Reservations : Concerns(Tasks[loop[s].task], r, loop[s].at)}

Message(s) == <<loop[s].turn, Tasks[loop[s].task]>>

(* Mutant: the tick does not end with its last task.                       *)
AfterTaskNoEnd(s) ==
    [Idle EXCEPT !.pc = "task", !.task = loop[s].task + 1, !.at = loop[s].at]

(* The loop after the end of its task, of its last task: of its tick.      *)
AfterTask(s) ==
    IF loop[s].task = 4 THEN Idle
    ELSE [Idle EXCEPT !.pc = "task", !.task = loop[s].task + 1, !.at = loop[s].at]

(* The loop after the message it was busy with.                            *)
AfterMessage(s) ==
    [loop[s] EXCEPT !.pc = "next", !.todo = @ \ {loop[s].turn}, !.turn = 0, !.seen = "NONE"]

TickBegin(s) ==
    /\ loop[s].pc = "idle"
    /\ loop' = [loop EXCEPT ![s] = [Idle EXCEPT !.pc = "task", !.at = now]]
    /\ UNCHANGED <<now, status, outbox, errors, crashes>>

(* The candidates of a reminder or of the notice, read once per task.      *)
ListCandidates(s) ==
    /\ loop[s].pc = "task" /\ Tasks[loop[s].task] \in Types
    /\ loop' = [loop EXCEPT ![s].pc = "next", ![s].todo = Candidates(s)]
    /\ UNCHANGED <<now, status, outbox, errors, crashes>>

(* The release, one transaction (ReservationLifecycle has its steps).      *)
ReleaseExpired(s) ==
    /\ loop[s].pc = "task" /\ Tasks[loop[s].task] = "EXPIRED_RELEASE"
    /\ status' = [r \in Reservations |->
                     IF r \in Candidates(s) THEN "EXPIRED" ELSE status[r]]
    /\ loop' = [loop EXCEPT ![s] = AfterTask(s)]
    /\ UNCHANGED <<now, outbox, errors, crashes>>

EndTask(s) ==
    /\ loop[s].pc = "next" /\ loop[s].todo = {}
    /\ loop' = [loop EXCEPT ![s] = AfterTask(s)]
    /\ UNCHANGED <<now, status, outbox, errors, crashes>>

(* ORDER BY start_time, id; for the notice updated_at, id, the order in    *)
(* which the release, earliest start first, updated the rows.              *)
IsNext(r, todo) ==
    /\ r \in todo
    /\ \A q \in todo : StartOf[r] < StartOf[q] \/ (StartOf[r] = StartOf[q] /\ r <= q)

(* Mutant: a message that failed once is not tried again.                  *)
ReadLogNoRetry(s) ==
    \E r \in loop[s].todo :
        /\ loop[s].pc = "next" /\ IsNext(r, loop[s].todo)
        /\ loop' = [loop EXCEPT ![s] =
                       IF log[<<r, Tasks[loop[s].task]>>] # "NONE"
                       THEN [@ EXCEPT !.todo = @ \ {r}]
                       ELSE [@ EXCEPT !.pc = "claim", !.turn = r]]
        /\ UNCHANGED <<now, status, outbox, errors, crashes>>

(* get_log: a message that is SENT or PENDING is left alone.               *)
ReadLog(s) ==
    \E r \in loop[s].todo :
        LET found == log[<<r, Tasks[loop[s].task]>>] IN
        /\ loop[s].pc = "next"
        /\ IsNext(r, loop[s].todo)
        /\ \/ /\ found \in {"SENT", "PENDING"}
              /\ loop' = [loop EXCEPT ![s].todo = @ \ {r}]
           \/ /\ found \in {"NONE", "FAILED"}
              /\ loop' = [loop EXCEPT ![s].pc = "claim", ![s].turn = r, ![s].seen = found]
        /\ UNCHANGED <<now, status, outbox, errors, crashes>>

(* Mutant: whatever get_log has found, the message is taken.               *)
ClaimableAlways(s) == log[Message(s)] \in {"NONE", "PENDING", "SENT", "FAILED"}

(* Nobody else has claimed the message since get_log: the unique key of    *)
(* the INSERT and the WHERE status = FAILED of the UPDATE see to it.       *)
Claimable(s) == log[Message(s)] = loop[s].seen

Claim(s) ==
    /\ loop[s].pc = "claim"
    /\ IF Claimable(s)
       THEN /\ log' = [log EXCEPT ![Message(s)] = "PENDING"]
            /\ loop' = [loop EXCEPT ![s].pc = "deliver"]
       ELSE /\ loop' = [loop EXCEPT ![s] = AfterMessage(s)]
            /\ UNCHANGED log
    /\ UNCHANGED <<now, status, mails, unsure, errors, crashes>>

DeliveryAccepted(s) ==
    /\ loop[s].pc = "deliver"
    /\ mails' = [mails EXCEPT ![Message(s)] = @ + 1]
    /\ loop' = [loop EXCEPT ![s].pc = "accepted"]
    /\ UNCHANGED <<now, status, log, unsure, errors, crashes>>

(* An exception of the delivery: no usable address, no connection, or an   *)
(* error after the server has taken the mail.                              *)
DeliveryRaises(s) ==
    \E taken \in {0, 1} :
        /\ loop[s].pc = "deliver"
        /\ errors < MaxErrors
        /\ errors' = errors + 1
        /\ mails' = [mails EXCEPT ![Message(s)] = @ + taken]
        /\ unsure' = [unsure EXCEPT ![Message(s)] = @ + taken]
        /\ loop' = [loop EXCEPT ![s].pc = "refused"]
        /\ UNCHANGED <<now, status, log, crashes>>

(* Mutant: the row is marked SENT whatever the mail server said.           *)
FinalizeAlwaysSent(s) ==
    /\ loop[s].pc \in {"accepted", "refused"}
    /\ log' = [log EXCEPT ![Message(s)] = "SENT"]
    /\ loop' = [loop EXCEPT ![s] = AfterMessage(s)]
    /\ UNCHANGED <<now, status, mails, unsure, errors, crashes>>

(* _transition_claimed_log from PENDING.  A row that is no longer PENDING  *)
(* after a delivery is an exception and ends the task.                     *)
Finalize(s) ==
    LET found   == log[Message(s)] = "PENDING"
        verdict == IF loop[s].pc = "accepted" THEN "SENT" ELSE "FAILED"
    IN
    /\ loop[s].pc \in {"accepted", "refused"}
    /\ log' = IF found THEN [log EXCEPT ![Message(s)] = verdict] ELSE log
    /\ loop' = [loop EXCEPT ![s] =
                   IF ~found /\ verdict = "SENT" THEN AfterTask(s) ELSE AfterMessage(s)]
    /\ UNCHANGED <<now, status, mails, unsure, errors, crashes>>

(* A statement of the task raises: _run_task rolls back and goes on with   *)
(* the next task.  A claim already committed stays.                        *)
TaskFails(s) ==
    /\ loop[s].pc \in {"task", "next", "claim", "accepted", "refused"}
    /\ errors < MaxErrors
    /\ errors' = errors + 1
    /\ loop' = [loop EXCEPT ![s] = AfterTask(s)]
    /\ UNCHANGED <<now, status, outbox, crashes>>

(* The process dies anywhere and is started again.                         *)
Crash(s) ==
    /\ loop[s].pc # "idle"
    /\ crashes < MaxCrashes
    /\ crashes' = crashes + 1
    /\ loop' = [loop EXCEPT ![s] = Idle]
    /\ UNCHANGED <<now, status, outbox, errors>>

-----------------------------------------------------------------------------
(* The student or an administrator: a check-in of a BOOKED row, and a      *)
(* cancellation, which may overwrite what it finds (ReservationLifecycle). *)
CheckIn(r) ==
    /\ status[r] = "BOOKED"
    /\ status' = [status EXCEPT ![r] = "CHECKED_IN"]
    /\ UNCHANGED <<now, outbox, loop, errors, crashes>>

Cancel(r) ==
    /\ status[r] # "CANCELLED"
    /\ status' = [status EXCEPT ![r] = "CANCELLED"]
    /\ UNCHANGED <<now, outbox, loop, errors, crashes>>

Tick ==
    /\ now < MaxTime
    /\ now' = now + 1
    /\ UNCHANGED <<status, outbox, loop, errors, crashes>>

-----------------------------------------------------------------------------
Run(s) ==
    \/ TickBegin(s) \/ ListCandidates(s) \/ ReleaseExpired(s) \/ EndTask(s)
    \/ ReadLog(s) \/ Claim(s) \/ DeliveryAccepted(s) \/ Finalize(s)

Next ==
    \/ \E s \in Loops : Run(s) \/ DeliveryRaises(s) \/ TaskFails(s) \/ Crash(s)
    \/ \E r \in Reservations : CheckIn(r) \/ Cancel(r)
    \/ Tick

Spec == Init /\ [][Next]_vars

(* Time passes and every loop runs; of errors and crashes nothing is       *)
(* assumed but the bounds.                                                 *)
FairSpec == Spec /\ WF_vars(Tick) /\ \A s \in Loops : WF_vars(Run(s))

-----------------------------------------------------------------------------
(* One message is in the hands of one loop at a time, and its row says so  *)
(* until that loop has given its verdict: two loops that find the same     *)
(* candidate, or the same failed message, never both deliver it.           *)
OneSenderPerMessage ==
    \A s \in Loops : loop[s].pc \in Sending =>
        /\ log[Message(s)] = "PENDING"
        /\ \A t \in Loops \ {s} :
              loop[t].pc \in Sending => Message(t) # Message(s)

(* Scanning again and again does not repeat a successful message: a user   *)
(* gets a message twice only if the mail server took it while the client   *)
(* saw an error, and whoever is recorded as notified was sent a mail.      *)
OneMailPerMessage ==
    \A m \in Messages :
        /\ mails[m] <= 1 + unsure[m]
        /\ log[m] = "SENT" => mails[m] = 1 + unsure[m]

(* SENT is final, and no mail leaves without a claim: the count of mails   *)
(* moves only while the row is PENDING.                                    *)
SentIsFinal ==
    [][\A m \in Messages :
          /\ log[m] = "SENT" => log'[m] = "SENT"
          /\ mails'[m] # mails[m] => log[m] = "PENDING" /\ log'[m] = "PENDING"]_vars

(* A claim whose loop is gone: a crash or a failed statement came between  *)
(* the claim and the verdict.  No scan looks at the message again.         *)
Orphaned(m) ==
    /\ log[m] = "PENDING"
    /\ \A s \in Loops : loop[s].pc \in Sending => Message(s) # m

(* Whoever lost a booking to the sweep hears of it, whatever task failed   *)
(* and whichever process died on the way, unless a late cancellation hides *)
(* the row from the notice; an orphaned claim is the only way to lose one. *)
EveryReleaseIsAnnounced ==
    \A r \in Reservations :
        LET notice == <<r, "AUTO_CANCEL_NOTICE">> IN
        status[r] = "EXPIRED" ~>
            status[r] # "EXPIRED" \/ log[notice] = "SENT" \/ Orphaned(notice)
=============================================================================
