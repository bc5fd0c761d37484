---------------------------- MODULE SystemConfig_proofs ----------------------------
(***************************************************************************)
(* Proofs about SystemConfig, for any set of keys, any older release and   *)
(* any number of requests of both.                                         *)
(*                                                                         *)
(* Why the seeding never fails: batches are inserted whole, so the keys    *)
(* present are none, those of the older release, or all.  A lost race only *)
(* ever adds keys, and losing twice means that all of them are there.      *)
(***************************************************************************)
EXTENDS SystemConfig, TLAPS

(* The keys present are those of a release.                                *)
PresentInv == Present \in {{}, OldKeys, ConfigKeys}

(* What a request knows of the keys present, at each of its statements.    *)
SeedInv(q) ==
    /\ pc[q] \in {"insert", "reinsert"} =>
          /\ missing[q] # {}
          /\ missing[q] \subseteq Required(q)
          /\ Required(q) \ missing[q] \subseteq Present
          /\ missing[q] \in {OldKeys, ConfigKeys, ConfigKeys \ OldKeys}
    /\ pc[q] = "reseed" => Present # {}
    /\ pc[q] = "reinsert" =>
          q \notin OldReads /\ OldKeys \subseteq Present /\ missing[q] = ConfigKeys \ OldKeys
    /\ pc[q] = "recheck" => Present = ConfigKeys
    /\ pc[q] \in {"load", "update"} => Required(q) \subseteq Present
    /\ pc[q] # "failed"

IInv == TypeOK /\ PresentInv /\ \A q \in Requests : SeedInv(q)

-----------------------------------------------------------------------------
LEMMA RequiredKeys ==
    ASSUME NEW q \in Requests
    PROVE  /\ Required(q) \in {OldKeys, ConfigKeys}
           /\ q \in OldReads => Required(q) = OldKeys
           /\ q \notin OldReads => Required(q) = ConfigKeys
           /\ q \in Updates => q \notin OldReads /\ q.key \in ConfigKeys /\ q.value \in Values
           /\ OldKeys \subseteq ConfigKeys /\ Missing \notin Values
           /\ Default \in [ConfigKeys -> Values]
BY ConfigAssumption DEF Required

(* A request that moves while no key disappears leaves the others right.   *)
LEMMA RequestMoves ==
    ASSUME IInv, NEW q \in Requests, TypeOK', PresentInv', Present \subseteq Present',
           \A p \in Requests : p # q => pc'[p] = pc[p] /\ missing'[p] = missing[p],
           SeedInv(q)'
    PROVE  IInv'
<1>1. ASSUME NEW p \in Requests, p # q PROVE SeedInv(p)'
  <2>1. SeedInv(p) /\ pc'[p] = pc[p] /\ missing'[p] = missing[p]
    BY <1>1 DEF IInv
  <2>2. pc[p] \in {"reseed"} => Present' # {}
    BY <2>1 DEF SeedInv
  <2>3. Present \subseteq ConfigKeys /\ Present' \subseteq ConfigKeys
    BY DEF Present
  <2>4. Required(p)' = Required(p)
    BY DEF Required
  <2>5. QED
    BY <2>1, <2>2, <2>3, <2>4 DEF SeedInv
<1>2. QED
  BY <1>1 DEF IInv

LEMMA FindKeeps ==
    ASSUME IInv, NEW q \in Requests,
           NEW from \in {"seed", "reseed"}, NEW to \in {"insert", "reinsert"},
           from = "seed" <=> to = "insert", FindMissing(q, from, to)
    PROVE  IInv'
<1>1. /\ pc[q] = from
      /\ missing' = [missing EXCEPT ![q] = Required(q) \ Present]
      /\ pc' = [pc EXCEPT ![q] = IF Required(q) \subseteq Present THEN "load" ELSE to]
      /\ table' = table /\ loaded' = loaded
  BY DEF FindMissing
<1>2. /\ pc \in [Requests -> Counters] /\ missing \in [Requests -> SUBSET ConfigKeys]
      /\ SeedInv(q) /\ PresentInv
  BY DEF IInv, TypeOK
<1>3. Required(q) \subseteq ConfigKeys
  BY RequiredKeys
<1>4. /\ missing' \in [Requests -> SUBSET ConfigKeys] /\ missing'[q] = Required(q) \ Present
      /\ pc' \in [Requests -> Counters]
      /\ pc'[q] = (IF Required(q) \subseteq Present THEN "load" ELSE to)
      /\ \A p \in Requests : p # q => pc'[p] = pc[p] /\ missing'[p] = missing[p]
  BY <1>1, <1>2, <1>3 DEF Counters
<1>5. TypeOK' /\ PresentInv' /\ Present' = Present
  BY <1>1, <1>2, <1>4 DEF IInv, TypeOK, PresentInv, Present
<1>6. SeedInv(q)'
  <2>1. CASE Required(q) \subseteq Present
    BY <1>4, <1>5, <2>1 DEF SeedInv, Required
  <2>2. CASE ~(Required(q) \subseteq Present)
    <3>1. pc'[q] = to /\ missing'[q] # {} /\ missing'[q] \subseteq Required(q)
          /\ Required(q) \ missing'[q] \subseteq Present
      BY <1>4, <2>2
    <3>2. missing'[q] \in {OldKeys, ConfigKeys, ConfigKeys \ OldKeys}
      BY <1>2, <1>4, <2>2, RequiredKeys DEF PresentInv
    <3>3. ASSUME to = "reinsert"
          PROVE  /\ q \notin OldReads /\ OldKeys \subseteq Present
                 /\ missing'[q] = ConfigKeys \ OldKeys
      <4>1. Present # {}
        BY <1>1, <1>2, <3>3 DEF SeedInv
      <4>2. Present = OldKeys /\ q \notin OldReads
        BY <1>2, <2>2, <4>1, RequiredKeys DEF PresentInv
      <4>3. QED
        BY <1>4, <4>2, RequiredKeys
    <3>4. Required(q)' = Required(q)
      BY DEF Required
    <3>5. QED
      BY <1>5, <3>1, <3>2, <3>3, <3>4 DEF SeedInv
  <2>3. QED
    BY <2>1, <2>2
<1>7. QED
  BY <1>4, <1>5, <1>6, RequestMoves

(* The batch is inserted whole, and only next to keys it does not hold.    *)
LEMMA InsertedRows ==
    ASSUME IInv, NEW q \in Requests, pc[q] \in {"insert", "reinsert"},
           missing[q] \cap Present = {}, table' = Inserted(q)
    PROVE  /\ table' \in Rows
           /\ Present' = Present \cup missing[q]
           /\ \A k \in Present : table'[k] = table[k]
<1>1. table \in Rows /\ missing[q] \subseteq ConfigKeys
  BY DEF IInv, TypeOK
<1>2. \A k \in missing[q] : Default[k] \in Values /\ Default[k] # Missing
  BY <1>1, RequiredKeys
<1>3. table' \in Rows
  BY <1>1, <1>2 DEF Inserted, Rows
<1>4. \A k \in ConfigKeys : table'[k] = IF k \in missing[q] THEN Default[k] ELSE table[k]
  BY DEF Inserted
<1>5. Present' = Present \cup missing[q]
  BY <1>1, <1>2, <1>4 DEF Present
<1>6. QED
  BY <1>3, <1>4, <1>5 DEF Present

LEMMA InsertKeeps ==
    ASSUME IInv, NEW q \in Requests,
           NEW from \in {"insert", "reinsert"}, NEW orElse \in {"reseed", "recheck"},
           from = "insert" <=> orElse = "reseed", InsertMissing(q, from, orElse)
    PROVE  IInv'
<1>1. pc[q] = from /\ missing' = missing /\ loaded' = loaded
  BY DEF InsertMissing
<1>2. /\ pc \in [Requests -> Counters] /\ SeedInv(q) /\ PresentInv
      /\ Present \subseteq ConfigKeys /\ Required(q)' = Required(q)
  BY DEF IInv, TypeOK, Present, Required
<1>3. CASE missing[q] \cap Present = {}
  <2>1. table' = Inserted(q) /\ pc' = [pc EXCEPT ![q] = "load"]
    BY <1>3 DEF InsertMissing
  <2>2. table' \in Rows /\ Present' = Present \cup missing[q]
    BY <1>1, <1>3, <2>1, InsertedRows
  <2>3. /\ pc' \in [Requests -> Counters] /\ pc'[q] = "load"
        /\ \A p \in Requests : p # q => pc'[p] = pc[p]
    BY <1>2, <2>1 DEF Counters
  <2>4. TypeOK'
    BY <1>1, <2>2, <2>3 DEF IInv, TypeOK
  <2>5. Required(q) \subseteq Present'
    BY <1>1, <1>2, <2>2 DEF SeedInv
  <2>6. PresentInv'
    <3>1. missing[q] # {} /\ missing[q] \in {OldKeys, ConfigKeys, ConfigKeys \ OldKeys}
          /\ missing[q] \subseteq Required(q) /\ Required(q) \ missing[q] \subseteq Present
      BY <1>1, <1>2 DEF SeedInv
    <3>2. Present' \in {OldKeys, ConfigKeys}
      <4>1. CASE q \in OldReads
        <5>1. Required(q) = OldKeys
          BY <4>1, RequiredKeys
        <5>2. Present \cup missing[q] \in {OldKeys, ConfigKeys}
          BY <1>2, <1>3, <3>1, <5>1, RequiredKeys DEF PresentInv
        <5>3. QED
          BY <2>2, <5>2
      <4>2. CASE q \notin OldReads
        BY <1>2, <2>2, <2>5, <3>1, <4>2, RequiredKeys
      <4>3. QED
        BY <4>1, <4>2
    <3>3. QED
      BY <3>2 DEF PresentInv
  <2>7. SeedInv(q)'
    BY <1>2, <2>3, <2>5 DEF SeedInv
  <2>8. QED
    BY <1>1, <2>2, <2>3, <2>4, <2>6, <2>7, RequestMoves
<1>4. CASE missing[q] \cap Present # {}
  <2>1. table' = table /\ pc' = [pc EXCEPT ![q] = orElse]
    BY <1>4 DEF InsertMissing
  <2>2. /\ pc' \in [Requests -> Counters] /\ pc'[q] = orElse
        /\ \A p \in Requests : p # q => pc'[p] = pc[p]
    BY <1>2, <2>1 DEF Counters
  <2>3. TypeOK' /\ PresentInv' /\ Present' = Present
    BY <1>1, <1>2, <2>1, <2>2 DEF IInv, TypeOK, PresentInv, Present
  <2>4. orElse = "recheck" => Present = ConfigKeys
    <3>1. SUFFICES ASSUME from = "reinsert" PROVE Present = ConfigKeys
      OBVIOUS
    <3>2. missing[q] = ConfigKeys \ OldKeys
      BY <1>1, <1>2, <3>1 DEF SeedInv
    <3>3. QED
      BY <1>2, <1>4, <3>2 DEF PresentInv
  <2>5. SeedInv(q)'
    BY <1>4, <2>2, <2>3, <2>4 DEF SeedInv
  <2>6. QED
    BY <1>1, <2>2, <2>3, <2>5, RequestMoves
<1>5. QED
  BY <1>3, <1>4

LEMMA RecheckKeeps == ASSUME IInv, NEW q \in Requests, Recheck(q) PROVE IInv'
<1>1. pc \in [Requests -> Counters] /\ SeedInv(q) /\ PresentInv /\ Required(q)' = Required(q)
  BY DEF IInv, TypeOK, Required
<1>2. Required(q) \subseteq Present
  BY <1>1, RequiredKeys DEF Recheck, SeedInv
<1>3. pc' = [pc EXCEPT ![q] = "load"] /\ UNCHANGED <<table, missing, loaded>>
  BY <1>2 DEF Recheck
<1>4. /\ pc' \in [Requests -> Counters] /\ pc'[q] = "load"
      /\ \A p \in Requests : p # q => pc'[p] = pc[p]
  BY <1>1, <1>3 DEF Counters
<1>5. TypeOK' /\ PresentInv' /\ Present' = Present
  BY <1>1, <1>3, <1>4 DEF IInv, TypeOK, PresentInv, Present
<1>6. SeedInv(q)'
  BY <1>1, <1>2, <1>4, <1>5 DEF SeedInv
<1>7. QED
  BY <1>3, <1>4, <1>5, <1>6, RequestMoves

LEMMA LoadKeeps == ASSUME IInv, NEW q \in Requests, Load(q) PROVE IInv'
<1>1. pc \in [Requests -> Counters] /\ SeedInv(q) /\ PresentInv /\ Required(q)' = Required(q)
  BY DEF IInv, TypeOK, Required
<1>2. Required(q) \subseteq Present
  BY <1>1 DEF Load, SeedInv
<1>3. PICK next \in {"done", "update", "refused"} : pc' = [pc EXCEPT ![q] = next]
  BY <1>2 DEF Load
<1>4. /\ pc' \in [Requests -> Counters] /\ pc'[q] = next
      /\ \A p \in Requests : p # q => pc'[p] = pc[p]
  BY <1>1, <1>3 DEF Counters
<1>5. TypeOK' /\ PresentInv' /\ Present' = Present /\ missing' = missing
  BY <1>1, <1>4 DEF IInv, TypeOK, PresentInv, Present, Load
<1>6. SeedInv(q)'
  BY <1>1, <1>2, <1>4, <1>5 DEF SeedInv
<1>7. QED
  BY <1>4, <1>5, <1>6, RequestMoves

LEMMA UpdateKeeps == ASSUME IInv, NEW u \in Updates, Update(u) PROVE IInv'
<1>1. u \in Requests /\ u.key \in ConfigKeys /\ u.value \in Values /\ u.value # Missing
      /\ u \notin OldReads
  BY RequiredKeys DEF Requests
<1>2. /\ pc \in [Requests -> Counters] /\ SeedInv(u) /\ PresentInv /\ table \in Rows
      /\ Required(u) = ConfigKeys /\ Required(u)' = Required(u)
  BY <1>1, RequiredKeys DEF IInv, TypeOK, Required
<1>3. u.key \in Present
  BY <1>1, <1>2 DEF Update, SeedInv
<1>4. table' \in Rows /\ Present' = Present
  BY <1>1, <1>2, <1>3 DEF Update, Rows, Present
<1>5. /\ pc' \in [Requests -> Counters] /\ pc'[u] = "done" /\ missing' = missing
      /\ \A p \in Requests : p # u => pc'[p] = pc[p]
  BY <1>1, <1>2 DEF Update, Counters
<1>6. TypeOK' /\ PresentInv'
  BY <1>2, <1>4, <1>5 DEF IInv, TypeOK, PresentInv, Update
<1>7. SeedInv(u)'
  BY <1>5 DEF SeedInv
<1>8. QED
  BY <1>1, <1>4, <1>5, <1>6, <1>7, RequestMoves

-----------------------------------------------------------------------------
LEMMA InitIInv == Init => IInv
<1> SUFFICES ASSUME Init PROVE IInv
  OBVIOUS
<1>1. PICK seeded \in {{}, OldKeys} :
         table = [k \in ConfigKeys |-> IF k \in seeded THEN Default[k] ELSE Missing]
  BY DEF Init
<1>2. seeded \subseteq ConfigKeys
  BY ConfigAssumption
<1>3. \A k \in ConfigKeys : Default[k] \in Values /\ Default[k] # Missing
  BY ConfigAssumption
<1>4. Present = seeded
  BY <1>1, <1>2, <1>3 DEF Present
<1>5. PresentInv
  BY <1>4 DEF PresentInv
<1>6. TypeOK
  <2>1. table \in Rows
    BY <1>1, <1>3 DEF Rows
  <2>2. pc \in [Requests -> Counters] /\ missing \in [Requests -> SUBSET ConfigKeys]
        /\ loaded \in [Requests -> Rows]
    BY DEF Init, Counters, Rows
  <2>3. QED
    BY <2>1, <2>2 DEF TypeOK
<1>7. \A q \in Requests : SeedInv(q)
  BY DEF Init, SeedInv
<1>8. QED
  BY <1>5, <1>6, <1>7 DEF IInv

LEMMA StepIInv == IInv /\ [Next]_vars => IInv'
<1> SUFFICES ASSUME IInv, [Next]_vars PROVE IInv'
  OBVIOUS
<1>1. ASSUME NEW q \in Requests, Seed(q) \/ Reseed(q) PROVE IInv'
  BY <1>1, FindKeeps DEF Seed, Reseed
<1>2. ASSUME NEW q \in Requests, Insert(q) \/ Reinsert(q) PROVE IInv'
  BY <1>2, InsertKeeps DEF Insert, Reinsert
<1>3. CASE UNCHANGED vars
  BY <1>3 DEF vars, IInv, TypeOK, PresentInv, SeedInv, Present, Required
<1>4. CASE Finished
  BY <1>3, <1>4 DEF Finished
<1>5. QED
  BY <1>1, <1>2, <1>3, <1>4, RecheckKeeps, LoadKeeps, UpdateKeeps DEF Next

(* The inductive invariant, whatever the keys, the older release and the   *)
(* requests.                                                               *)
THEOREM Invariant == Spec => []IInv
BY InitIInv, StepIInv, PTL DEF Spec

(* Every variable of the configuration model keeps its type.               *)
THEOREM TypeCorrect == Spec => []TypeOK
<1>1. IInv => TypeOK
  BY DEF IInv
<1>2. QED
  BY <1>1, Invariant, PTL

(* No request fails in ensure_defaults or for a key it does not find, with *)
(* any number of requests of two releases racing to seed.                  *)
THEOREM SeedingSucceeds == Spec => []SeedingNeverFails
<1>1. IInv => SeedingNeverFails
  BY DEF IInv, SeedInv, SeedingNeverFails
<1>2. QED
  BY <1>1, Invariant, PTL

(* A seeding that found a key missing never overwrites the value it has    *)
(* been given since.                                                       *)
LEMMA StepChangesRows ==
    ASSUME IInv, Next, NEW k \in ConfigKeys, table[k] # Missing, table'[k] # table[k]
    PROVE  \E u \in Updates : u.key = k /\ u.value = table'[k]
                              /\ pc[u] = "update" /\ pc'[u] = "done"
<1>1. k \in Present
  BY DEF Present
<1>2. ASSUME NEW q \in Requests,
             Seed(q) \/ Reseed(q) \/ Recheck(q) \/ Load(q) \/ Finished
      PROVE  FALSE
  BY <1>2 DEF Seed, Reseed, FindMissing, Recheck, Load, Finished, vars
<1>3. ASSUME NEW q \in Requests, Insert(q) \/ Reinsert(q) PROVE FALSE
  <2>1. /\ pc[q] \in {"insert", "reinsert"}
        /\ \/ missing[q] \cap Present = {} /\ table' = Inserted(q)
           \/ table' = table
    BY <1>3 DEF Insert, Reinsert, InsertMissing
  <2>2. QED
    BY <1>1, <2>1, InsertedRows
<1>4. ASSUME NEW u \in Updates, Update(u)
      PROVE  /\ u.key = k /\ u.value = table'[k]
             /\ pc[u] = "update" /\ pc'[u] = "done"
  <2>1. u \in Requests /\ pc \in [Requests -> Counters] /\ table \in Rows
    BY DEF IInv, TypeOK, Requests
  <2>2. QED
    BY <1>4, <2>1 DEF Update, Rows
<1>5. CASE Finished
  BY <1>5 DEF Finished, vars
<1>6. QED
  BY <1>2, <1>3, <1>4, <1>5 DEF Next

(* Only an update changes a row that exists, and to the value it asked for.*)
THEOREM UpdatesOnly == Spec => OnlyUpdatesChangeRows
<1>1. ASSUME IInv, [Next]_vars
      PROVE  [\A k \in ConfigKeys :
                 table[k] # Missing /\ table'[k] # table[k] =>
                     \E u \in Updates : u.key = k /\ u.value = table'[k]
                                        /\ pc[u] = "update" /\ pc'[u] = "done"]_vars
  BY <1>1, StepChangesRows
<1>2. QED
  BY <1>1, Invariant, PTL DEF Spec, OnlyUpdatesChangeRows
=============================================================================
