---------------------- MODULE NotificationDelivery_proofs ----------------------
(***************************************************************************)
(* Proofs about NotificationDelivery, for any reservations, any number of  *)
(* scheduler loops, errors and crashes, and any minutes of lead.           *)
(*                                                                         *)
(* What makes them work: a loop that sends a message has found its row     *)
(* unclaimed and made it PENDING, and while a row is PENDING its count of  *)
(* mails tells how far the one loop that sends it has come.                *)
(***************************************************************************)
EXTENDS NotificationDelivery, TLAPS

Pcs == {"idle", "task", "next", "claim", "deliver", "accepted", "refused"}

LoopRows == [pc : Pcs, task : 1..4, at : 0..MaxTime, todo : SUBSET Reservations,
             turn : Int, seen : {"NONE", "FAILED"}]

LogStates == {"NONE", "PENDING", "SENT", "FAILED"}

(* A loop at work on a message is in one of the three tasks that send, and *)
(* its message is about a reservation.                                     *)
AtWork == {"claim", "deliver", "accepted", "refused"}

WorkInv ==
    \A s \in Loops :
        /\ loop[s].pc \in AtWork \cup {"next"} => loop[s].task # 3
        /\ loop[s].pc \in AtWork => loop[s].turn \in Reservations

(* How many mails a message has cost, told from its row and, while the row *)
(* is PENDING, from the loop that sends it.                                *)
MailInv ==
    /\ \A m \in Messages :
          /\ mails[m] <= 1 + unsure[m]
          /\ log[m] \in {"NONE", "FAILED"} => mails[m] = unsure[m]
          /\ log[m] = "SENT" => mails[m] = 1 + unsure[m]
    /\ \A s \in Loops :
          /\ loop[s].pc \in {"deliver", "refused"} => mails[Message(s)] = unsure[Message(s)]
          /\ loop[s].pc = "accepted" => mails[Message(s)] = 1 + unsure[Message(s)]

IInv == TypeOK /\ WorkInv /\ OneSenderPerMessage /\ MailInv

-----------------------------------------------------------------------------
(* The tasks that send messages are the first, the second and the fourth.  *)
LEMMA SendingTasks ==
    ASSUME NEW i \in 1..4
    PROVE  /\ i # 3 => Tasks[i] \in Types
           /\ Tasks[i] \in Types => i # 3
<1>1. Tasks[1] = "RESERVATION_REMINDER" /\ Tasks[2] = "NO_SHOW_REMINDER"
      /\ Tasks[3] = "EXPIRED_RELEASE" /\ Tasks[4] = "AUTO_CANCEL_NOTICE"
  BY DEF Tasks
<1>2. i = 1 \/ i = 2 \/ i = 3 \/ i = 4
  OBVIOUS
<1>3. QED
  BY <1>1, <1>2 DEF Types

LEMMA LoopTypes ==
    TypeOK <=> /\ now \in 0..MaxTime
               /\ status \in [Reservations -> Statuses]
               /\ log \in [Messages -> LogStates]
               /\ mails \in [Messages -> Nat] /\ unsure \in [Messages -> Nat]
               /\ loop \in [Loops -> LoopRows]
               /\ errors \in 0..MaxErrors /\ crashes \in 0..MaxCrashes
<1>1. {"idle", "task", "next", "claim"} \cup Sending = Pcs
  BY DEF Sending, Pcs
<1>2. QED
  BY <1>1 DEF TypeOK, LoopRows, LogStates

(* A loop at work has a message.                                           *)
LEMMA WorkHasMessage ==
    ASSUME TypeOK, WorkInv, NEW s \in Loops, loop[s].pc \in AtWork
    PROVE  Message(s) \in Messages
<1>1. loop[s].task \in 1..4 /\ loop[s].task # 3 /\ loop[s].turn \in Reservations
  BY LoopTypes DEF LoopRows, WorkInv
<1>2. Tasks[loop[s].task] \in Types
  BY <1>1, SendingTasks
<1>3. QED
  BY <1>1, <1>2 DEF Message, Messages

(* What a loop is after its task or its message.                           *)
LEMMA AfterTypes ==
    ASSUME TypeOK, NEW s \in Loops
    PROVE  /\ Idle \in LoopRows /\ Idle.pc = "idle"
           /\ AfterTask(s) \in LoopRows /\ AfterTask(s).pc \in {"idle", "task"}
           /\ AfterMessage(s) \in LoopRows /\ AfterMessage(s).pc = "next"
           /\ AfterMessage(s).task = loop[s].task
<1>1. Idle \in LoopRows /\ Idle.pc = "idle"
  BY DeliveryAssumption DEF Idle, LoopRows, Pcs
<1>2. loop[s] \in LoopRows
  BY LoopTypes
<1>3. AfterTask(s) \in LoopRows /\ AfterTask(s).pc \in {"idle", "task"}
  <2>1. CASE loop[s].task = 4
    BY <1>1, <2>1 DEF AfterTask
  <2>2. CASE loop[s].task # 4
    <3>1. AfterTask(s) = [pc |-> "task", task |-> loop[s].task + 1, at |-> loop[s].at,
                          todo |-> {}, turn |-> 0, seen |-> "NONE"]
      BY <2>2 DEF AfterTask, Idle
    <3>2. loop[s].task + 1 \in 1..4 /\ loop[s].at \in 0..MaxTime
      BY <1>2, <2>2 DEF LoopRows
    <3>3. QED
      BY <3>1, <3>2 DEF LoopRows, Pcs
  <2>3. QED
    BY <2>1, <2>2
<1>4. AfterMessage(s) \in LoopRows /\ AfterMessage(s).pc = "next"
      /\ AfterMessage(s).task = loop[s].task
  <2>1. PICK p \in Pcs, k \in 1..4, a \in 0..MaxTime, d \in SUBSET Reservations,
             u \in Int, n \in {"NONE", "FAILED"} :
             loop[s] = [pc |-> p, task |-> k, at |-> a, todo |-> d, turn |-> u, seen |-> n]
    BY <1>2 DEF LoopRows
  <2>2. AfterMessage(s) = [[pc |-> p, task |-> k, at |-> a, todo |-> d, turn |-> u,
                            seen |-> n] EXCEPT !.pc = "next", !.todo = @ \ {u},
                                               !.turn = 0, !.seen = "NONE"]
    <3>1. loop[s].turn = u
      BY <2>1
    <3>2. QED
      BY <2>1, <3>1, Zenon DEF AfterMessage
  <2>3. AfterMessage(s) = [pc |-> "next", task |-> k, at |-> a, todo |-> d \ {u},
                           turn |-> 0, seen |-> "NONE"]
    BY <2>2
  <2>4. loop[s].task = k
    BY <2>1
  <2>5. QED
    BY <2>3, <2>4 DEF LoopRows, Pcs
<1>5. QED
  BY <1>1, <1>3, <1>4

-----------------------------------------------------------------------------
(* A loop that moves without touching the outbox, and does not come to     *)
(* send a message by it, disturbs nothing.                                 *)
LEMMA QuietMove ==
    ASSUME IInv, NEW s \in Loops, NEW l \in LoopRows,
           loop' = [loop EXCEPT ![s] = l],
           l.pc \notin Sending,
           l.pc \in {"claim", "next"} => l.task # 3,
           l.pc = "claim" => l.turn \in Reservations,
           UNCHANGED outbox,
           now' \in 0..MaxTime, status' \in [Reservations -> Statuses],
           errors' \in 0..MaxErrors, crashes' \in 0..MaxCrashes
    PROVE  IInv'
<1>1. TypeOK'
  <2>1. loop' \in [Loops -> LoopRows]
    BY LoopTypes DEF IInv
  <2>2. log' = log /\ mails' = mails /\ unsure' = unsure
    BY DEF outbox
  <2>3. QED
    BY <2>1, <2>2 DEF IInv, TypeOK, LoopRows, Pcs, Sending
<1>2. loop \in [Loops -> LoopRows]
  BY LoopTypes DEF IInv
<1>3. \A t \in Loops : t # s => loop'[t] = loop[t] /\ Message(t)' = Message(t)
  BY <1>2 DEF Message
<1>4. loop'[s] = l
  BY <1>2
<1>5. \A t \in Loops : loop'[t].pc \in Sending => t # s
  BY <1>4
<1>6. WorkInv'
  BY <1>3, <1>4 DEF IInv, WorkInv, AtWork, Sending
<1>7. OneSenderPerMessage'
  BY <1>3, <1>5 DEF IInv, OneSenderPerMessage, outbox
<1>8. MailInv'
  <2>1. \A t \in Loops : loop'[t].pc \in {"deliver", "accepted", "refused"} => t # s
    BY <1>5 DEF Sending
  <2>2. log' = log /\ mails' = mails /\ unsure' = unsure
    BY DEF outbox
  <2>3. QED
    BY <1>3, <2>1, <2>2 DEF IInv, MailInv
<1>9. QED
  BY <1>1, <1>6, <1>7, <1>8 DEF IInv

(* A step that leaves the loops and the outbox alone disturbs nothing.     *)
LEMMA OutsideMove ==
    ASSUME IInv, UNCHANGED <<outbox, loop, errors, crashes>>,
           now' \in 0..MaxTime, status' \in [Reservations -> Statuses]
    PROVE  IInv'
<1>1. log' = log /\ mails' = mails /\ unsure' = unsure /\ loop' = loop
      /\ errors' = errors /\ crashes' = crashes
  BY DEF outbox
<1>2. TypeOK'
  BY <1>1 DEF IInv, TypeOK
<1>3. \A t \in Loops : Message(t)' = Message(t)
  BY <1>1 DEF Message
<1>4. WorkInv' /\ OneSenderPerMessage' /\ MailInv'
  BY <1>1, <1>3 DEF IInv, WorkInv, OneSenderPerMessage, MailInv
<1>5. QED
  BY <1>2, <1>4 DEF IInv

-----------------------------------------------------------------------------
(* One lemma per step of a loop that is quiet.                             *)
LEMMA TickBeginKeeps == ASSUME IInv, NEW s \in Loops, TickBegin(s) PROVE IInv'
<1> DEFINE l == [Idle EXCEPT !.pc = "task", !.at = now]
<1>1. l \in LoopRows /\ l.pc = "task"
  <2>1. Idle \in LoopRows /\ now \in 0..MaxTime
    BY AfterTypes DEF IInv, TypeOK
  <2>2. QED
    BY <2>1 DEF LoopRows, Pcs
<1>2. l.pc \notin Sending
  BY <1>1 DEF Sending
<1>3. loop' = [loop EXCEPT ![s] = l] /\ UNCHANGED <<now, status, outbox, errors, crashes>>
  BY DEF TickBegin
<1>4. now' \in 0..MaxTime /\ status' \in [Reservations -> Statuses]
      /\ errors' \in 0..MaxErrors /\ crashes' \in 0..MaxCrashes
  BY <1>3 DEF IInv, TypeOK
<1> HIDE DEF l
<1>5. QED
  BY <1>1, <1>2, <1>3, <1>4, QuietMove

LEMMA ListCandidatesKeeps == ASSUME IInv, NEW s \in Loops, ListCandidates(s) PROVE IInv'
<1> DEFINE l == [loop[s] EXCEPT !.pc = "next", !.todo = Candidates(s)]
<1>1. loop[s] \in LoopRows /\ Candidates(s) \in SUBSET Reservations /\ "next" \in Pcs
  BY LoopTypes DEF IInv, Candidates, Pcs
<1>2. l \in LoopRows /\ l.pc = "next" /\ l.task = loop[s].task
  BY <1>1 DEF LoopRows
<1>3. l.task # 3
  BY <1>1, <1>2, SendingTasks DEF ListCandidates, LoopRows
<1>4. l.pc \notin Sending
  BY <1>2 DEF Sending
<1>5. loop' = [loop EXCEPT ![s] = l] /\ UNCHANGED <<now, status, outbox, errors, crashes>>
  BY LoopTypes DEF ListCandidates, IInv
<1>6. now' \in 0..MaxTime /\ status' \in [Reservations -> Statuses]
      /\ errors' \in 0..MaxErrors /\ crashes' \in 0..MaxCrashes
  BY <1>5 DEF IInv, TypeOK
<1> HIDE DEF l
<1>7. QED
  BY <1>2, <1>3, <1>4, <1>5, <1>6, QuietMove

(* The end of a task, however it ends.                                     *)
LEMMA AfterTaskKeeps ==
    ASSUME IInv, NEW s \in Loops, loop' = [loop EXCEPT ![s] = AfterTask(s)],
           UNCHANGED outbox,
           now' \in 0..MaxTime, status' \in [Reservations -> Statuses],
           errors' \in 0..MaxErrors, crashes' \in 0..MaxCrashes
    PROVE  IInv'
<1>1. AfterTask(s) \in LoopRows /\ AfterTask(s).pc \in {"idle", "task"}
  BY AfterTypes DEF IInv
<1>2. AfterTask(s).pc \notin Sending
  BY <1>1 DEF Sending
<1>3. QED
  BY <1>1, <1>2, QuietMove

LEMMA ReleaseExpiredKeeps == ASSUME IInv, NEW s \in Loops, ReleaseExpired(s) PROVE IInv'
<1>1. status' \in [Reservations -> Statuses]
  BY DEF IInv, TypeOK, ReleaseExpired, Statuses
<1>2. now' \in 0..MaxTime /\ errors' \in 0..MaxErrors /\ crashes' \in 0..MaxCrashes
  BY DEF IInv, TypeOK, ReleaseExpired
<1>3. loop' = [loop EXCEPT ![s] = AfterTask(s)] /\ UNCHANGED outbox
  BY DEF ReleaseExpired
<1>4. QED
  BY <1>1, <1>2, <1>3, AfterTaskKeeps

LEMMA EndTaskKeeps == ASSUME IInv, NEW s \in Loops, EndTask(s) PROVE IInv'
<1>1. now' \in 0..MaxTime /\ status' \in [Reservations -> Statuses]
      /\ errors' \in 0..MaxErrors /\ crashes' \in 0..MaxCrashes
  BY DEF IInv, TypeOK, EndTask
<1>2. QED
  BY <1>1, AfterTaskKeeps DEF EndTask

LEMMA TaskFailsKeeps == ASSUME IInv, NEW s \in Loops, TaskFails(s) PROVE IInv'
<1>1. now' \in 0..MaxTime /\ status' \in [Reservations -> Statuses]
      /\ errors' \in 0..MaxErrors /\ crashes' \in 0..MaxCrashes
  BY DeliveryAssumption DEF IInv, TypeOK, TaskFails
<1>2. QED
  BY <1>1, AfterTaskKeeps DEF TaskFails

LEMMA CrashKeeps == ASSUME IInv, NEW s \in Loops, Crash(s) PROVE IInv'
<1>1. now' \in 0..MaxTime /\ status' \in [Reservations -> Statuses]
      /\ errors' \in 0..MaxErrors /\ crashes' \in 0..MaxCrashes
  BY DeliveryAssumption DEF IInv, TypeOK, Crash
<1>2. Idle \in LoopRows /\ Idle.pc = "idle"
  BY AfterTypes DEF IInv
<1>3. Idle.pc \notin Sending
  BY <1>2 DEF Sending
<1>4. loop' = [loop EXCEPT ![s] = Idle] /\ UNCHANGED outbox
  BY DEF Crash
<1>5. QED
  BY <1>1, <1>2, <1>3, <1>4, QuietMove

LEMMA ReadLogKeeps == ASSUME IInv, NEW s \in Loops, ReadLog(s) PROVE IInv'
<1>1. loop[s] \in LoopRows /\ loop[s].task # 3
  BY LoopTypes DEF IInv, WorkInv, ReadLog
<1>2. UNCHANGED <<now, status, outbox, errors, crashes>>
  BY DEF ReadLog
<1>3. now' \in 0..MaxTime /\ status' \in [Reservations -> Statuses]
      /\ errors' \in 0..MaxErrors /\ crashes' \in 0..MaxCrashes
  BY <1>2 DEF IInv, TypeOK
<1>4. PICK r \in loop[s].todo :
         /\ loop[s].pc = "next"
         /\ LET found == log[<<r, Tasks[loop[s].task]>>] IN
            \/ /\ found \in {"SENT", "PENDING"}
               /\ loop' = [loop EXCEPT ![s].todo = @ \ {r}]
            \/ /\ found \in {"NONE", "FAILED"}
               /\ loop' = [loop EXCEPT ![s].pc = "claim", ![s].turn = r, ![s].seen = found]
  BY Zenon DEF ReadLog
<1> DEFINE m == <<r, Tasks[loop[s].task]>>
<1>5. r \in Reservations /\ r \in Int
  BY <1>1, <1>4, DeliveryAssumption DEF LoopRows
<1>6. CASE loop' = [loop EXCEPT ![s].todo = @ \ {r}]
  <2> DEFINE l == [loop[s] EXCEPT !.todo = @ \ {r}]
  <2>1. l \in LoopRows /\ l.pc = "next" /\ l.task # 3
    BY <1>1, <1>4 DEF LoopRows
  <2>2. l.pc \notin Sending
    BY <2>1 DEF Sending
  <2>3. loop' = [loop EXCEPT ![s] = l]
    BY <1>6
  <2> HIDE DEF l
  <2>4. QED
    BY <1>2, <1>3, <2>1, <2>2, <2>3, QuietMove
<1>7. CASE /\ log[m] \in {"NONE", "FAILED"}
           /\ loop' = [loop EXCEPT ![s].pc = "claim", ![s].turn = r, ![s].seen = log[m]]
  <2> DEFINE l == [loop[s] EXCEPT !.pc = "claim", !.turn = r, !.seen = log[m]]
  <2> HIDE DEF m
  <2>1. l \in LoopRows /\ l.pc = "claim" /\ l.task # 3 /\ l.turn = r
    BY <1>1, <1>5, <1>7 DEF LoopRows, Pcs
  <2>2. l.pc \notin Sending
    BY <2>1 DEF Sending
  <2>3. loop' = [loop EXCEPT ![s] = l]
    BY <1>7
  <2> HIDE DEF l
  <2>4. QED
    BY <1>2, <1>3, <1>5, <2>1, <2>2, <2>3, QuietMove
<1>8. QED
  BY <1>4, <1>6, <1>7

-----------------------------------------------------------------------------
(* The claim: nobody else has the message, because its row is unclaimed.   *)
LEMMA ClaimKeeps == ASSUME IInv, NEW s \in Loops, Claim(s) PROVE IInv'
<1>1. loop \in [Loops -> LoopRows] /\ log \in [Messages -> LogStates]
  BY LoopTypes DEF IInv
<1>2. loop[s].pc = "claim" /\ loop[s].task # 3 /\ loop[s].seen \in {"NONE", "FAILED"}
  BY <1>1 DEF Claim, IInv, WorkInv, AtWork, LoopRows
<1>3. Message(s) \in Messages
  BY <1>2, WorkHasMessage DEF IInv, AtWork
<1>4. now' \in 0..MaxTime /\ status' \in [Reservations -> Statuses]
      /\ errors' \in 0..MaxErrors /\ crashes' \in 0..MaxCrashes
      /\ mails' = mails /\ unsure' = unsure
  BY DEF Claim, IInv, TypeOK
<1>5. CASE ~Claimable(s)
  <2>1. AfterMessage(s) \in LoopRows /\ AfterMessage(s).pc = "next"
        /\ AfterMessage(s).task # 3
    BY <1>2, AfterTypes DEF IInv
  <2>2. AfterMessage(s).pc \notin Sending
    BY <2>1 DEF Sending
  <2>3. loop' = [loop EXCEPT ![s] = AfterMessage(s)] /\ UNCHANGED outbox
    BY <1>5 DEF Claim, outbox
  <2>4. QED
    BY <1>4, <2>1, <2>2, <2>3, QuietMove
<1>6. CASE Claimable(s)
  <2>1. log' = [log EXCEPT ![Message(s)] = "PENDING"]
        /\ loop' = [loop EXCEPT ![s].pc = "deliver"]
    BY <1>6 DEF Claim
  <2>2. log[Message(s)] \in {"NONE", "FAILED"}
    BY <1>2, <1>6 DEF Claimable
  <2>3. /\ loop' \in [Loops -> LoopRows]
        /\ loop'[s].pc = "deliver" /\ loop'[s].task = loop[s].task
        /\ loop'[s].turn = loop[s].turn
        /\ \A t \in Loops : t # s => loop'[t] = loop[t]
    BY <1>1, <2>1 DEF LoopRows, Pcs
  <2>4. /\ log' \in [Messages -> LogStates] /\ log'[Message(s)] = "PENDING"
        /\ \A m \in Messages : m # Message(s) => log'[m] = log[m]
    BY <1>1, <1>3, <2>1 DEF LogStates
  <2>5. \A t \in Loops : Message(t)' = Message(t)
    BY <2>3 DEF Message
  <2>6. TypeOK'
    BY <1>4, <2>3, <2>4, LoopTypes DEF IInv, TypeOK, LoopRows, Pcs, LogStates, Sending
  <2>7. WorkInv'
    BY <1>2, <2>3 DEF IInv, WorkInv, AtWork
  <2>8. OneSenderPerMessage'
    <3>1. \A t \in Loops : t # s /\ loop[t].pc \in Sending =>
             log[Message(t)] = "PENDING" /\ Message(t) # Message(s)
      BY <2>2 DEF IInv, OneSenderPerMessage
    <3>2. \A t \in Loops : t # s /\ loop[t].pc \in Sending => Message(t) \in Messages
      BY WorkHasMessage DEF IInv, AtWork, Sending
    <3>3. QED
      BY <2>3, <2>4, <2>5, <3>1, <3>2 DEF IInv, OneSenderPerMessage
  <2>9. MailInv'
    <3>1. mails[Message(s)] = unsure[Message(s)]
      BY <1>3, <2>2 DEF IInv, MailInv
    <3>2. \A m \in Messages :
             /\ mails'[m] <= 1 + unsure'[m]
             /\ log'[m] \in {"NONE", "FAILED"} => mails'[m] = unsure'[m]
             /\ log'[m] = "SENT" => mails'[m] = 1 + unsure'[m]
      BY <1>4, <2>4 DEF IInv, MailInv
    <3>3. \A t \in Loops :
             /\ loop'[t].pc \in {"deliver", "refused"}
                   => mails'[Message(t)'] = unsure'[Message(t)']
             /\ loop'[t].pc = "accepted" => mails'[Message(t)'] = 1 + unsure'[Message(t)']
      BY <1>4, <2>3, <2>5, <3>1 DEF IInv, MailInv
    <3>4. QED
      BY <3>2, <3>3 DEF MailInv
  <2>10. QED
    BY <2>6, <2>7, <2>8, <2>9 DEF IInv
<1>7. QED
  BY <1>5, <1>6

-----------------------------------------------------------------------------
(* The answer of the mail server: only the mails of the message in hand    *)
(* are counted, and no other loop has that message in hand.                *)
LEMMA AnswerKeeps ==
    ASSUME IInv, NEW s \in Loops, loop[s].pc = "deliver",
           NEW p \in {"accepted", "refused"}, NEW a \in {0, 1}, NEW b \in {0, 1},
           p = "accepted" => a = 1 /\ b = 0,
           p = "refused" => a = b,
           loop' = [loop EXCEPT ![s].pc = p],
           mails' = [mails EXCEPT ![Message(s)] = @ + a],
           unsure' = [unsure EXCEPT ![Message(s)] = @ + b],
           UNCHANGED <<now, status, log, crashes>>, errors' \in 0..MaxErrors
    PROVE  IInv'
<1>1. /\ loop \in [Loops -> LoopRows]
      /\ mails \in [Messages -> Nat] /\ unsure \in [Messages -> Nat]
  BY LoopTypes DEF IInv
<1>2. Message(s) \in Messages
  BY WorkHasMessage DEF IInv, AtWork
<1>3. log[Message(s)] = "PENDING" /\ mails[Message(s)] = unsure[Message(s)]
  BY DEF IInv, OneSenderPerMessage, MailInv, Sending
<1>4. /\ loop' \in [Loops -> LoopRows]
      /\ loop'[s].pc = p /\ loop'[s].task = loop[s].task /\ loop'[s].turn = loop[s].turn
      /\ \A t \in Loops : t # s => loop'[t] = loop[t]
  BY <1>1 DEF LoopRows, Pcs
<1>5. \A t \in Loops : Message(t)' = Message(t)
  BY <1>4 DEF Message
<1>6. /\ mails' \in [Messages -> Nat] /\ unsure' \in [Messages -> Nat]
      /\ mails'[Message(s)] = mails[Message(s)] + a
      /\ unsure'[Message(s)] = unsure[Message(s)] + b
      /\ \A m \in Messages : m # Message(s) => mails'[m] = mails[m] /\ unsure'[m] = unsure[m]
  BY <1>1, <1>2
<1>7. TypeOK'
  BY <1>4, <1>6 DEF IInv, TypeOK, LoopRows, Pcs, Sending
<1>8. WorkInv'
  BY <1>4 DEF IInv, WorkInv, AtWork
<1>9. OneSenderPerMessage'
  <2>1. \A t \in Loops : loop'[t].pc \in Sending => loop[t].pc \in Sending
    BY <1>4 DEF Sending
  <2>2. QED
    BY <2>1, <1>5 DEF IInv, OneSenderPerMessage
<1>10. MailInv'
  <2>1. \A t \in Loops : t # s /\ loop[t].pc \in Sending => Message(t) # Message(s)
    BY DEF IInv, OneSenderPerMessage, Sending
  <2>2. \A t \in Loops : loop[t].pc \in Sending => Message(t) \in Messages
    BY WorkHasMessage DEF IInv, AtWork, Sending
  <2>3. \A m \in Messages :
           /\ mails'[m] <= 1 + unsure'[m]
           /\ log'[m] \in {"NONE", "FAILED"} => mails'[m] = unsure'[m]
           /\ log'[m] = "SENT" => mails'[m] = 1 + unsure'[m]
    <3>1. mails'[Message(s)] <= 1 + unsure'[Message(s)]
      BY <1>1, <1>2, <1>3, <1>6
    <3>2. QED
      BY <1>3, <1>6, <3>1 DEF IInv, MailInv
  <2>4. ASSUME NEW t \in Loops
        PROVE  /\ loop'[t].pc \in {"deliver", "refused"}
                     => mails'[Message(t)] = unsure'[Message(t)]
               /\ loop'[t].pc = "accepted" => mails'[Message(t)] = 1 + unsure'[Message(t)]
    <3>1. CASE t = s
      BY <3>1, <1>1, <1>2, <1>3, <1>4, <1>6
    <3>2. CASE t # s
      <4>1. SUFFICES ASSUME loop[t].pc \in Sending
                     PROVE  /\ mails'[Message(t)] = mails[Message(t)]
                            /\ unsure'[Message(t)] = unsure[Message(t)]
        BY <3>2, <1>4 DEF IInv, MailInv, Sending
      <4>2. QED
        BY <3>2, <4>1, <2>1, <2>2, <1>6
    <3>3. QED
      BY <3>1, <3>2
  <2>5. QED
    BY <2>3, <2>4, <1>5 DEF MailInv
<1>11. QED
  BY <1>7, <1>8, <1>9, <1>10 DEF IInv

LEMMA DeliveryAcceptedKeeps == ASSUME IInv, NEW s \in Loops, DeliveryAccepted(s) PROVE IInv'
<1>1. unsure' = [unsure EXCEPT ![Message(s)] = @ + 0]
  <2>1. unsure \in [Messages -> Nat] /\ Message(s) \in Messages
    BY WorkHasMessage, LoopTypes DEF IInv, AtWork, DeliveryAccepted
  <2>2. QED
    BY <2>1 DEF DeliveryAccepted
<1>2. errors' \in 0..MaxErrors
  BY DEF IInv, TypeOK, DeliveryAccepted
<1>3. /\ loop[s].pc = "deliver" /\ loop' = [loop EXCEPT ![s].pc = "accepted"]
      /\ mails' = [mails EXCEPT ![Message(s)] = @ + 1]
      /\ UNCHANGED <<now, status, log, crashes>>
  BY DEF DeliveryAccepted
<1>4. QED
  BY <1>1, <1>2, <1>3, AnswerKeeps

LEMMA DeliveryRaisesKeeps == ASSUME IInv, NEW s \in Loops, DeliveryRaises(s) PROVE IInv'
<1>1. PICK taken \in {0, 1} :
         /\ loop[s].pc = "deliver" /\ errors < MaxErrors /\ errors' = errors + 1
         /\ mails' = [mails EXCEPT ![Message(s)] = @ + taken]
         /\ unsure' = [unsure EXCEPT ![Message(s)] = @ + taken]
         /\ loop' = [loop EXCEPT ![s].pc = "refused"]
         /\ UNCHANGED <<now, status, log, crashes>>
  BY Zenon DEF DeliveryRaises
<1>2. errors' \in 0..MaxErrors
  BY <1>1, DeliveryAssumption DEF IInv, TypeOK
<1>3. QED
  BY <1>1, <1>2, AnswerKeeps

(* The verdict: the row is still PENDING, as nobody else writes it.        *)
LEMMA FinalizeKeeps == ASSUME IInv, NEW s \in Loops, Finalize(s) PROVE IInv'
<1> DEFINE verdict == IF loop[s].pc = "accepted" THEN "SENT" ELSE "FAILED"
<1>1. loop \in [Loops -> LoopRows] /\ log \in [Messages -> LogStates]
  BY LoopTypes DEF IInv
<1>2. loop[s].pc \in {"accepted", "refused"} /\ loop[s].task # 3
      /\ log[Message(s)] = "PENDING"
  BY DEF Finalize, IInv, OneSenderPerMessage, Sending, WorkInv, AtWork
<1>3. Message(s) \in Messages
  BY <1>2, WorkHasMessage DEF IInv, AtWork
<1>4. /\ log' = [log EXCEPT ![Message(s)] = verdict]
      /\ loop' = [loop EXCEPT ![s] = AfterMessage(s)]
      /\ UNCHANGED <<now, status, mails, unsure, errors, crashes>>
  BY <1>2 DEF Finalize
<1>5. verdict \in {"SENT", "FAILED"}
  OBVIOUS
<1>6. AfterMessage(s) \in LoopRows /\ AfterMessage(s).pc = "next" /\ AfterMessage(s).task # 3
  BY <1>2, AfterTypes DEF IInv
<1>7. /\ loop' \in [Loops -> LoopRows] /\ loop'[s] = AfterMessage(s)
      /\ \A t \in Loops : t # s => loop'[t] = loop[t] /\ Message(t)' = Message(t)
  BY <1>1, <1>4, <1>6 DEF Message
<1>8. /\ log' \in [Messages -> LogStates] /\ log'[Message(s)] = verdict
      /\ \A m \in Messages : m # Message(s) => log'[m] = log[m]
  BY <1>1, <1>3, <1>4, <1>5 DEF LogStates
<1>9. \A t \in Loops : loop'[t].pc \in Sending =>
         t # s /\ loop[t].pc \in Sending /\ Message(t) # Message(s) /\ Message(t) \in Messages
  <2>1. \A t \in Loops : loop'[t].pc \in Sending => t # s /\ loop[t].pc \in Sending
    BY <1>6, <1>7 DEF Sending
  <2>2. \A t \in Loops : loop[t].pc \in Sending => Message(t) \in Messages
    BY WorkHasMessage DEF IInv, AtWork, Sending
  <2>3. QED
    BY <1>2, <2>1, <2>2 DEF IInv, OneSenderPerMessage, Sending
<1>10. TypeOK'
  <2>1. now' \in 0..MaxTime /\ status' \in [Reservations -> Statuses]
        /\ mails' \in [Messages -> Nat] /\ unsure' \in [Messages -> Nat]
        /\ errors' \in 0..MaxErrors /\ crashes' \in 0..MaxCrashes
    BY <1>4 DEF IInv, TypeOK
  <2>2. QED
    BY <2>1, <1>7, <1>8 DEF TypeOK, LoopRows, Pcs, LogStates, Sending
<1>11. WorkInv'
  BY <1>6, <1>7 DEF IInv, WorkInv, AtWork
<1>12. OneSenderPerMessage'
  BY <1>7, <1>8, <1>9 DEF IInv, OneSenderPerMessage
<1>13. MailInv'
  <2>1. /\ verdict = "SENT" => mails[Message(s)] = 1 + unsure[Message(s)]
        /\ verdict = "FAILED" => mails[Message(s)] = unsure[Message(s)]
    BY <1>2 DEF IInv, MailInv
  <2>2. \A m \in Messages :
           /\ mails'[m] <= 1 + unsure'[m]
           /\ log'[m] \in {"NONE", "FAILED"} => mails'[m] = unsure'[m]
           /\ log'[m] = "SENT" => mails'[m] = 1 + unsure'[m]
    <3> HIDE DEF verdict
    <3>1. QED
      BY <1>4, <1>5, <1>8, <2>1 DEF IInv, MailInv
  <2>3. \A t \in Loops :
           /\ loop'[t].pc \in {"deliver", "refused"}
                 => mails'[Message(t)'] = unsure'[Message(t)']
           /\ loop'[t].pc = "accepted" => mails'[Message(t)'] = 1 + unsure'[Message(t)']
    BY <1>4, <1>7, <1>9 DEF IInv, MailInv, Sending
  <2>4. QED
    BY <2>2, <2>3 DEF MailInv
<1>14. QED
  BY <1>10, <1>11, <1>12, <1>13 DEF IInv

-----------------------------------------------------------------------------
(* The inductive invariant holds at the start and through every step.      *)
LEMMA InitIInv == Init => IInv
<1> SUFFICES ASSUME Init PROVE IInv
  OBVIOUS
<1>1. Idle \in LoopRows /\ Idle.pc = "idle"
  BY DeliveryAssumption DEF Idle, LoopRows, Pcs
<1>2. \A s \in Loops : loop[s] = Idle
  BY DEF Init
<1>3. TypeOK
  <2>1. loop \in [Loops -> LoopRows]
    BY <1>1 DEF Init
  <2>2. status \in [Reservations -> Statuses]
    BY DEF Init, Statuses
  <2>3. log \in [Messages -> LogStates] /\ mails \in [Messages -> Nat]
        /\ unsure \in [Messages -> Nat]
    BY DEF Init, LogStates
  <2>4. now \in 0..MaxTime /\ errors \in 0..MaxErrors /\ crashes \in 0..MaxCrashes
    BY DeliveryAssumption DEF Init
  <2>5. QED
    BY <2>1, <2>2, <2>3, <2>4, LoopTypes
<1>4. WorkInv /\ OneSenderPerMessage
  BY <1>1, <1>2 DEF WorkInv, OneSenderPerMessage, AtWork, Sending
<1>5. MailInv
  <2>1. \A m \in Messages : log[m] = "NONE" /\ mails[m] = 0 /\ unsure[m] = 0
    BY DEF Init
  <2>2. QED
    BY <1>1, <1>2, <2>1 DEF MailInv
<1>6. QED
  BY <1>3, <1>4, <1>5 DEF IInv

LEMMA OutsideKeeps ==
    ASSUME IInv, (\E r \in Reservations : CheckIn(r) \/ Cancel(r)) \/ Tick
    PROVE  IInv'
<1>1. CASE \E r \in Reservations : CheckIn(r) \/ Cancel(r)
  <2>1. status' \in [Reservations -> Statuses] /\ now' \in 0..MaxTime
    BY <1>1 DEF IInv, TypeOK, CheckIn, Cancel, Statuses
  <2>2. UNCHANGED <<outbox, loop, errors, crashes>>
    BY <1>1 DEF CheckIn, Cancel
  <2>3. QED
    BY <2>1, <2>2, OutsideMove
<1>2. CASE Tick
  <2>1. status' \in [Reservations -> Statuses] /\ now' \in 0..MaxTime
    BY <1>2, DeliveryAssumption DEF IInv, TypeOK, Tick
  <2>2. UNCHANGED <<outbox, loop, errors, crashes>>
    BY <1>2 DEF Tick
  <2>3. QED
    BY <2>1, <2>2, OutsideMove
<1>3. QED
  BY <1>1, <1>2

LEMMA StepIInv == IInv /\ [Next]_vars => IInv'
<1> SUFFICES ASSUME IInv, [Next]_vars PROVE IInv'
  OBVIOUS
<1>1. ASSUME NEW s \in Loops, Run(s) PROVE IInv'
  BY <1>1, TickBeginKeeps, ListCandidatesKeeps, ReleaseExpiredKeeps, EndTaskKeeps,
     ReadLogKeeps, ClaimKeeps, DeliveryAcceptedKeeps, FinalizeKeeps DEF Run
<1>2. ASSUME NEW s \in Loops, DeliveryRaises(s) \/ TaskFails(s) \/ Crash(s) PROVE IInv'
  BY <1>2, DeliveryRaisesKeeps, TaskFailsKeeps, CrashKeeps
<1>3. ASSUME (\E r \in Reservations : CheckIn(r) \/ Cancel(r)) \/ Tick PROVE IInv'
  BY <1>3, OutsideKeeps
<1>4. CASE UNCHANGED vars
  <2>1. UNCHANGED <<outbox, loop, errors, crashes>> /\ UNCHANGED <<now, status>>
    BY <1>4 DEF vars, outbox
  <2>2. now' \in 0..MaxTime /\ status' \in [Reservations -> Statuses]
    BY <2>1 DEF IInv, TypeOK
  <2>3. QED
    BY <2>1, <2>2, OutsideMove
<1>5. QED
  BY <1>1, <1>2, <1>3, <1>4 DEF Next

(* The inductive invariant, for any number of processes and messages.      *)
THEOREM Invariant == Spec => []IInv
BY InitIInv, StepIInv, PTL DEF Spec

(* Every variable of the notification module keeps its type.               *)
THEOREM TypeCorrect == Spec => []TypeOK
<1>1. IInv => TypeOK
  BY DEF IInv
<1>2. QED
  BY <1>1, Invariant, PTL

(* However many schedulers run, one message is in the hands of one of them *)
(* at a time: ReservationLogRepository's claim is a lock.                  *)
THEOREM OneSender == Spec => []OneSenderPerMessage
<1>1. IInv => OneSenderPerMessage
  BY DEF IInv
<1>2. QED
  BY <1>1, Invariant, PTL

(* A user gets a message again only after the client has missed that the   *)
(* mail server took it, whatever crashes, failures and retries came.       *)
THEOREM OneMail == Spec => []OneMailPerMessage
<1>1. IInv => OneMailPerMessage
  BY DEF IInv, MailInv, OneMailPerMessage
<1>2. QED
  BY <1>1, Invariant, PTL

(* No step takes a SENT message back, and no step but the delivery of a    *)
(* claimed message counts a mail.                                          *)
LEMMA StepSentIsFinal ==
    ASSUME IInv, Next, NEW m \in Messages
    PROVE  /\ log[m] = "SENT" => log'[m] = "SENT"
           /\ mails'[m] # mails[m] => log[m] = "PENDING" /\ log'[m] = "PENDING"
<1>1. /\ log \in [Messages -> LogStates] /\ mails \in [Messages -> Nat]
      /\ loop \in [Loops -> LoopRows]
  BY LoopTypes DEF IInv
<1>2. ASSUME UNCHANGED outbox
      PROVE  log' = log /\ mails' = mails
  BY <1>2 DEF outbox
<1>3. ASSUME NEW s \in Loops, Claim(s)
      PROVE  /\ mails' = mails
             /\ log[m] = "SENT" => log'[m] = "SENT"
  <2>1. loop[s].seen \in {"NONE", "FAILED"} /\ mails' = mails
    BY <1>1, <1>3 DEF LoopRows, Claim
  <2>2. QED
    BY <1>1, <1>3, <2>1 DEF Claim, Claimable
<1>4. ASSUME NEW s \in Loops, DeliveryAccepted(s) \/ DeliveryRaises(s)
      PROVE  /\ log' = log
             /\ m # Message(s) => mails'[m] = mails[m]
             /\ log[Message(s)] = "PENDING"
  <2>1. log[Message(s)] = "PENDING"
    BY <1>4 DEF IInv, OneSenderPerMessage, Sending, DeliveryAccepted, DeliveryRaises
  <2>2. PICK a : log' = log /\ mails' = [mails EXCEPT ![Message(s)] = a]
    BY <1>4 DEF DeliveryAccepted, DeliveryRaises
  <2>3. QED
    BY <1>1, <2>1, <2>2
<1>5. ASSUME NEW s \in Loops, Finalize(s)
      PROVE  /\ mails' = mails
             /\ log[m] = "SENT" => log'[m] = "SENT"
  <2>1. log[Message(s)] = "PENDING" /\ mails' = mails
    BY <1>5 DEF IInv, OneSenderPerMessage, Sending, Finalize
  <2>2. PICK verdict : log' = [log EXCEPT ![Message(s)] = verdict]
    BY <2>1, <1>5 DEF Finalize
  <2>3. QED
    BY <1>1, <2>1, <2>2
<1>6. ASSUME NEW s \in Loops,
             TickBegin(s) \/ ListCandidates(s) \/ ReleaseExpired(s) \/ EndTask(s)
             \/ ReadLog(s) \/ TaskFails(s) \/ Crash(s)
      PROVE  UNCHANGED outbox
  BY <1>6 DEF TickBegin, ListCandidates, ReleaseExpired, EndTask, ReadLog, TaskFails, Crash
<1>7. ASSUME (\E r \in Reservations : CheckIn(r) \/ Cancel(r)) \/ Tick
      PROVE  UNCHANGED outbox
  BY <1>7 DEF CheckIn, Cancel, Tick
<1>8. QED
  BY <1>2, <1>3, <1>4, <1>5, <1>6, <1>7 DEF Next, Run

(* A message recorded as sent stays so, and mails leave under a claim only.*)
THEOREM SentStays == Spec => SentIsFinal
<1>1. ASSUME IInv, [Next]_vars
      PROVE  [\A m \in Messages :
                 /\ log[m] = "SENT" => log'[m] = "SENT"
                 /\ mails'[m] # mails[m] => log[m] = "PENDING" /\ log'[m] = "PENDING"]_vars
  BY <1>1, StepSentIsFinal
<1>2. QED
  BY <1>1, Invariant, PTL DEF Spec, SentIsFinal
=============================================================================
