---------------------------- MODULE SystemConfig ----------------------------
(***************************************************************************)
(* The system_config module: one row per required key, seeded with its     *)
(* default by whichever request first finds it missing, and updated by     *)
(* administrators.  Every read and every update begins with the seeding,   *)
(* which runs in sessions of its own; the unique key turns a lost race     *)
(* into an IntegrityError and a second attempt.  An update checks the      *)
(* rules on the rows it loaded and writes its one row without a lock.      *)
(***************************************************************************)
EXTENDS Integers

CONSTANTS
    ConfigKeys,         \* the required keys, GraceKey and ThresholdKey among them
    GraceKey, ThresholdKey,
    Default,            \* key -> default value
    Least,              \* key -> least legal value (0 for minutes, 1 otherwise)
    MaxValue,           \* bound on the values of this instance
    OldKeys, OldReads,  \* the keys of an older release, and its readers: they
                        \* share the database while a deployment is replaced
    Reads,              \* requests that only read
    Updates,            \* requests that update: records [key, value]
    Missing             \* no row

Values == 0..MaxValue

ASSUME ConfigAssumption ==
    /\ {GraceKey, ThresholdKey} \subseteq ConfigKeys /\ GraceKey # ThresholdKey
    /\ MaxValue \in Nat
    /\ Default \in [ConfigKeys -> Values] /\ Least \in [ConfigKeys -> Values]
    /\ \A k \in ConfigKeys : Least[k] <= Default[k]
    /\ Default[GraceKey] <= Default[ThresholdKey]
    /\ \A u \in Updates : u.key \in ConfigKeys /\ u.value \in Values
    /\ Missing \notin Values /\ Reads \cap Updates = {}
    /\ OldKeys \subseteq ConfigKeys /\ OldReads \subseteq Reads

Requests == Reads \cup Updates

(* FIRST_BATCH_CONFIG_KEYS of the release that serves q.                   *)
Required(q) == IF q \in OldReads THEN OldKeys ELSE ConfigKeys

VARIABLES
    table,      \* key -> committed value or Missing
    pc,         \* request -> its next statement
    missing,    \* request -> the keys its seeding session found missing
    loaded      \* request -> the rows its own session loaded

vars == <<table, pc, missing, loaded>>

Rows == [ConfigKeys -> Values \cup {Missing}]

Counters == {"seed", "insert", "reseed", "reinsert", "recheck", "load", "update",
             "done", "refused", "failed"}

TypeOK ==
    /\ table \in Rows
    /\ pc \in [Requests -> Counters]
    /\ missing \in [Requests -> SUBSET ConfigKeys]
    /\ loaded \in [Requests -> Rows]

Present == {k \in ConfigKeys : table[k] # Missing}

(* The cross rule of _validate_cross_config_rules.                         *)
CrossRule(rows) == rows[GraceKey] <= rows[ThresholdKey]

(* The table a release finds is empty or was seeded by an older release.   *)
Init ==
    /\ \E seeded \in {{}, OldKeys} :
          table = [k \in ConfigKeys |-> IF k \in seeded THEN Default[k] ELSE Missing]
    /\ pc = [q \in Requests |-> "seed"]
    /\ missing = [q \in Requests |-> {}]
    /\ loaded = [q \in Requests |-> [k \in ConfigKeys |-> Missing]]

-----------------------------------------------------------------------------
(* _build_missing_default_configs, in a session opened for the purpose.    *)
FindMissing(q, from, to) ==
    /\ pc[q] = from
    /\ missing' = [missing EXCEPT ![q] = Required(q) \ Present]
    /\ pc' = [pc EXCEPT ![q] = IF Required(q) \subseteq Present THEN "load" ELSE to]
    /\ UNCHANGED <<table, loaded>>

(* Mutant: the batch is an upsert and puts defaults over existing rows.    *)
UpsertMissing(q, from, orElse) ==
    /\ pc[q] = from
    /\ table' = [k \in ConfigKeys |-> IF k \in missing[q] THEN Default[k] ELSE table[k]]
    /\ pc' = [pc EXCEPT ![q] = IF missing[q] = {} THEN orElse ELSE "load"]
    /\ UNCHANGED <<missing, loaded>>

(* create_many: one transaction, refused as a whole when a key exists.     *)
Inserted(q) ==
    [k \in ConfigKeys |-> IF k \in missing[q] THEN Default[k] ELSE table[k]]

InsertMissing(q, from, orElse) ==
    /\ pc[q] = from
    /\ IF missing[q] \cap Present = {}
       THEN /\ table' = Inserted(q)
            /\ pc' = [pc EXCEPT ![q] = "load"]
       ELSE /\ pc' = [pc EXCEPT ![q] = orElse]
            /\ UNCHANGED table
    /\ UNCHANGED <<missing, loaded>>

(* Mutant: a lost race is an error at once, without a second attempt.      *)
InsertOnce(q) == InsertMissing(q, "insert", "failed")

Seed(q)     == FindMissing(q, "seed", "insert")
Insert(q)   == InsertMissing(q, "insert", "reseed")
Reseed(q)   == FindMissing(q, "reseed", "reinsert")
Reinsert(q) == InsertMissing(q, "reinsert", "recheck")

(* _has_all_required_configs: lost twice, it is enough that all keys exist.*)
Recheck(q) ==
    /\ pc[q] = "recheck"
    /\ pc' = [pc EXCEPT ![q] = IF Required(q) \subseteq Present THEN "load" ELSE "failed"]
    /\ UNCHANGED <<table, missing, loaded>>

(* The request's own session reads all rows; an update then checks its new *)
(* value, by itself and against the other rows it has just read.           *)
Allowed(u, rows) ==
    /\ u.value >= Least[u.key]
    /\ CrossRule([rows EXCEPT ![u.key] = u.value])

Load(q) ==
    /\ pc[q] = "load"
    /\ loaded' = [loaded EXCEPT ![q] = table]
    /\ pc' = [pc EXCEPT ![q] =
                 IF ~(Required(q) \subseteq Present) THEN "failed"
                 ELSE IF q \in Reads THEN "done"
                 ELSE IF Allowed(q, table) THEN "update" ELSE "refused"]
    /\ UNCHANGED <<table, missing>>

(* Mutant: a stored value loses its upper bound.                           *)
UpdateUnparsed(u) ==
    /\ pc[u] = "update"
    /\ table' = [table EXCEPT ![u.key] = MaxValue + u.value]
    /\ pc' = [pc EXCEPT ![u] = "done"]
    /\ UNCHANGED <<missing, loaded>>

(* The flush writes the one row, and only if its value differs from the    *)
(* loaded one.                                                             *)
Update(u) ==
    /\ pc[u] = "update"
    /\ table' = IF u.value = loaded[u][u.key] THEN table
                ELSE [table EXCEPT ![u.key] = u.value]
    /\ pc' = [pc EXCEPT ![u] = "done"]
    /\ UNCHANGED <<missing, loaded>>

Finished ==
    /\ \A q \in Requests : pc[q] \in {"done", "refused", "failed"}
    /\ UNCHANGED vars

Next ==
    \/ \E q \in Requests :
          Seed(q) \/ Insert(q) \/ Reseed(q) \/ Reinsert(q) \/ Recheck(q) \/ Load(q)
    \/ \E u \in Updates : Update(u)
    \/ Finished

Spec == Init /\ [][Next]_vars

-----------------------------------------------------------------------------
(* However many requests race to seed the defaults, and whatever part of   *)
(* them exists already, none of them fails for a missing or a duplicate    *)
(* key: a batch is inserted whole or not at all.                           *)
SeedingNeverFails == \A q \in Requests : pc[q] # "failed"

(* A value an administrator has set is never put back to its default by a  *)
(* seeding that found the key missing before it was set; only an update    *)
(* changes a row that exists.                                              *)
OnlyUpdatesChangeRows ==
    [][\A k \in ConfigKeys :
          table[k] # Missing /\ table'[k] # table[k] =>
              \E u \in Updates : u.key = k /\ u.value = table'[k]
                                 /\ pc[u] = "update" /\ pc'[u] = "done"]_vars

(* "violation_threshold_minutes must be greater than or equal to           *)
(* checkin_grace_minutes."  Two updates that each keep the rule on the     *)
(* rows they loaded can break it together.                                 *)
ThresholdCoversGrace ==
    Present = ConfigKeys => CrossRule(table)
=============================================================================
