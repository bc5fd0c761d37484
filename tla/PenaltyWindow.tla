----------------------------- MODULE PenaltyWindow -----------------------------
(***************************************************************************)
(* Who may reserve: the penalty computed from the violations of a sliding  *)
(* window and the manual block an administrator sets and lifts, for one    *)
(* user (the rows of two users never meet), and the check of both that a   *)
(* booking makes (ViolationService.get_user_penalty_status).               *)
(*                                                                         *)
(* The check reads the clock, counts, lists and looks for a block by       *)
(* statements of their own; sweeps and administrators commit in between.   *)
(* The three configured values are constants.                              *)
(***************************************************************************)
EXTENDS Integers, FiniteSets

CONSTANTS
    Reservations,               \* ids (integers) of what the user may miss
    Threshold, Window, Duration, \* violation_penalty_*: count, days, days
    Bookings,                   \* attempts of the user to reserve
    Activations, Releases,      \* requests of administrators
    None,
    MaxTime                     \* bound on the clock

ASSUME PenaltyAssumption ==
    /\ Reservations \subseteq Int
    /\ Threshold \in Nat \ {0} /\ Window \in Nat \ {0} /\ Duration \in Nat \ {0}
    /\ MaxTime \in Nat
    /\ None \notin Activations

VARIABLES
    now,            \* datetime.now(), in days
    violations,     \* violation records of the user: [reservation, at]
    block,          \* row inserted by an activation: "absent" | "active" | "released"
    activation,     \* request -> "idle" | "insert" | "reread" | "done" | "error"
    release,        \* request -> [pc, loaded], loaded is the block it found
    check,          \* booking -> [pc, asOf, auto]
    lifted          \* history: the restrictions a check has seen lifted (see Watch)

vars == <<now, violations, block, activation, release, check, lifted>>

TypeOK ==
    /\ now \in 0..MaxTime
    /\ violations \subseteq [reservation : Reservations, at : 0..MaxTime]
    /\ block \in [Activations -> {"absent", "active", "released"}]
    /\ activation \in [Activations -> {"idle", "insert", "reread", "done", "error"}]
    /\ release \in [Releases -> [pc : {"idle", "loaded", "done", "refused"},
                                 loaded : Activations \cup {None}]]
    /\ check \in [Bookings -> [pc : {"idle", "count", "list", "block", "passed", "refused"},
                               asOf : 0..MaxTime, auto : BOOLEAN]]
    /\ lifted \in [Bookings -> SUBSET {"auto", "manual"}]

Init ==
    /\ now = 0
    /\ violations = {}
    /\ block = [a \in Activations |-> "absent"]
    /\ activation = [a \in Activations |-> "idle"]
    /\ release = [x \in Releases |-> [pc |-> "idle", loaded |-> None]]
    /\ check = [q \in Bookings |-> [pc |-> "idle", asOf |-> 0, auto |-> FALSE]]
    /\ lifted = [q \in Bookings |-> {}]

-----------------------------------------------------------------------------
(* The records that count at time t, in the order of the query.            *)
InWindow(t) == {v \in violations : t - Window <= v.at /\ v.at <= t}

Before(v, w) == v.at < w.at \/ (v.at = w.at /\ v.reservation < w.reservation)

(* Mutant: the penalty starts with the first record of the window.         *)
StartsAtOldest(v, t) ==
    /\ Cardinality(InWindow(t)) >= Threshold
    /\ v \in InWindow(t) /\ \A w \in InWindow(t) : ~Before(w, v)

(* threshold_times[threshold_count - 1]: the record that starts a penalty. *)
StartsPenalty(v, t) ==
    /\ v \in InWindow(t)
    /\ Cardinality({w \in InWindow(t) : Before(w, v)}) = Threshold - 1

AutoPenalised(t) == \E v \in violations : StartsPenalty(v, t) /\ v.at + Duration > t

ActiveBlocks == {a \in Activations : block[a] = "active"}

-----------------------------------------------------------------------------
(* Not code: which of the two restrictions has been off at some instant    *)
(* since the check began.                                                  *)
Checking(q) == check[q].pc \in {"count", "list", "block"}

Lifted ==
    {s \in {"auto", "manual"} :
        /\ s = "auto" => ~AutoPenalised(now)
        /\ s = "manual" => ActiveBlocks = {}}

Watch ==
    lifted' = [q \in Bookings |->
                  IF Checking(q) \/ Checking(q)' THEN lifted[q] \cup Lifted' ELSE lifted[q]]

-----------------------------------------------------------------------------
(* The sweep records a violation, one for a reservation, at its own time;  *)
(* a sweep takes seconds, and the clock here counts days.                  *)
RecordViolation(r) ==
    /\ \A v \in violations : v.reservation # r
    /\ violations' = violations \cup {[reservation |-> r, at |-> now]}
    /\ UNCHANGED <<now, block, activation, release, check>>
    /\ Watch

-----------------------------------------------------------------------------
(* The check of a booking.  Mutant: as_of is rounded up to the next day.   *)
CheckStartRoundedUp(q) ==
    /\ check[q].pc = "idle"
    /\ check' = [check EXCEPT ![q] = [pc |-> "count", asOf |-> now + 1, auto |-> FALSE]]
    /\ UNCHANGED <<now, violations, block, activation, release>>
    /\ Watch

CheckStart(q) ==
    /\ check[q].pc = "idle"
    /\ check' = [check EXCEPT ![q] = [pc |-> "count", asOf |-> now, auto |-> FALSE]]
    /\ UNCHANGED <<now, violations, block, activation, release>>
    /\ Watch

(* Mutant: more than the threshold is needed.                              *)
CheckCountStrictly(q) ==
    /\ check[q].pc = "count"
    /\ check' = [check EXCEPT ![q].pc =
                    IF Cardinality(InWindow(check[q].asOf)) > Threshold
                    THEN "list" ELSE "block"]
    /\ UNCHANGED <<now, violations, block, activation, release>>
    /\ Watch

CheckCount(q) ==
    /\ check[q].pc = "count"
    /\ check' = [check EXCEPT ![q].pc =
                    IF Cardinality(InWindow(check[q].asOf)) >= Threshold
                    THEN "list" ELSE "block"]
    /\ UNCHANGED <<now, violations, block, activation, release>>
    /\ Watch

CheckList(q) ==
    /\ check[q].pc = "list"
    /\ check' = [check EXCEPT ![q].pc = "block", ![q].auto = AutoPenalised(check[q].asOf)]
    /\ UNCHANGED <<now, violations, block, activation, release>>
    /\ Watch

CheckBlock(q) ==
    /\ check[q].pc = "block"
    /\ check' = [check EXCEPT ![q].pc =
                    IF check[q].auto \/ ActiveBlocks # {} THEN "refused" ELSE "passed"]
    /\ UNCHANGED <<now, violations, block, activation, release>>
    /\ Watch

-----------------------------------------------------------------------------
(* Setting a block: look for an active one, else insert; the unique index  *)
(* on the active rows refuses a second, and then the other one is read.    *)
ActivateLoad(a) ==
    /\ activation[a] = "idle"
    /\ activation' = [activation EXCEPT ![a] = IF ActiveBlocks # {} THEN "done" ELSE "insert"]
    /\ UNCHANGED <<now, violations, block, release, check>>
    /\ Watch

(* Mutant: no unique index behind the insert.                              *)
ActivateInsertAnyway(a) ==
    /\ activation[a] = "insert"
    /\ activation' = [activation EXCEPT ![a] = "done"]
    /\ block' = [block EXCEPT ![a] = "active"]
    /\ UNCHANGED <<now, violations, release, check>>
    /\ Watch

ActivateInsert(a) ==
    LET clash == ActiveBlocks # {} IN
    /\ activation[a] = "insert"
    /\ activation' = [activation EXCEPT ![a] = IF clash THEN "reread" ELSE "done"]
    /\ block' = [block EXCEPT ![a] = IF clash THEN @ ELSE "active"]
    /\ UNCHANGED <<now, violations, release, check>>
    /\ Watch

ActivateReread(a) ==
    /\ activation[a] = "reread"
    /\ activation' = [activation EXCEPT ![a] = IF ActiveBlocks # {} THEN "done" ELSE "error"]
    /\ UNCHANGED <<now, violations, block, release, check>>
    /\ Watch

(* Lifting a block: load the active row, then UPDATE it by its id.         *)
ReleaseLoad(x) ==
    /\ release[x].pc = "idle"
    /\ \/ /\ ActiveBlocks = {}
          /\ release' = [release EXCEPT ![x].pc = "refused"]
       \/ \E a \in ActiveBlocks :
              release' = [release EXCEPT ![x] = [pc |-> "loaded", loaded |-> a]]
    /\ UNCHANGED <<now, violations, block, activation, check>>
    /\ Watch

ReleaseWrite(x) ==
    /\ release[x].pc = "loaded"
    /\ release' = [release EXCEPT ![x].pc = "done"]
    /\ block' = [block EXCEPT ![release[x].loaded] = "released"]
    /\ UNCHANGED <<now, violations, activation, check>>
    /\ Watch

Tick ==
    /\ now < MaxTime
    /\ now' = now + 1
    /\ UNCHANGED <<violations, block, activation, release, check>>
    /\ Watch

Finished ==
    /\ now = MaxTime
    /\ \A q \in Bookings : check[q].pc \in {"passed", "refused"}
    /\ \A a \in Activations : activation[a] \in {"done", "error"}
    /\ \A x \in Releases : release[x].pc \in {"done", "refused"}
    /\ UNCHANGED <<now, violations, block, activation, release, check>>
    /\ Watch

-----------------------------------------------------------------------------
Next ==
    \/ \E r \in Reservations : RecordViolation(r)
    \/ \E q \in Bookings :
          CheckStart(q) \/ CheckCount(q) \/ CheckList(q) \/ CheckBlock(q)
    \/ \E a \in Activations : ActivateLoad(a) \/ ActivateInsert(a) \/ ActivateReread(a)
    \/ \E x \in Releases : ReleaseLoad(x) \/ ReleaseWrite(x)
    \/ Tick
    \/ Finished

Spec == Init /\ [][Next]_vars

-----------------------------------------------------------------------------
(* Racing administrators never leave two active blocks: lifting one would  *)
(* leave the user blocked by the other.                                    *)
OneActiveBlock == \A a, b \in ActiveBlocks : a = b

(* A user who is restricted for the whole time of the check, by violations *)
(* or by a block, does not pass it, although the check reads the clock,    *)
(* the count, the times and the block one after the other: a restriction   *)
(* that lasts is seen, however the rows change and the clock runs on.      *)
NoBookingUnderRestriction ==
    \A q \in Bookings : check[q].pc = "passed" => lifted[q] = {"auto", "manual"}

(* A record that brings the count of the window to the threshold restricts *)
(* the user for the whole duration, or until the first of the records it   *)
(* was counted with leaves the window; later records do not shorten it.    *)
Counted(v) == {w \in violations : v.at - Window <= w.at /\ w.at <= v.at}

ReachesThreshold(v) ==
    /\ Cardinality(Counted(v)) >= Threshold
    /\ Cardinality({w \in Counted(v) : w.at < v.at}) < Threshold

ReachingTheThresholdRestricts ==
    \A v \in violations :
        /\ ReachesThreshold(v)
        /\ now < v.at + Duration
        /\ \A w \in Counted(v) : now <= w.at + Window
        => AutoPenalised(now)

(* The penalty ends at its start plus the duration, says the specification *)
(* of the module.  It can end earlier: the count is taken anew each time,  *)
(* and drops below the threshold when an old record leaves the window.     *)
PenaltyRunsItsTerm ==
    [][\A v \in violations :
          StartsPenalty(v, now) /\ now' < v.at + Duration => AutoPenalised(now)']_vars
=============================================================================
