--------------------------- MODULE PenaltyWindow_proofs ---------------------------
(***************************************************************************)
(* Proofs about PenaltyWindow, for any threshold, window and duration, any *)
(* number of reservations, bookings and administrators.                    *)
(*                                                                         *)
(* The code sorts the records of the window and looks at the time of the   *)
(* threshold-th of them.  Most arguments need that without the order: a    *)
(* user is penalised exactly when enough records are in the window and     *)
(* fewer than the threshold of them are old (PenalisedByCounting).         *)
(***************************************************************************)
EXTENDS PenaltyWindow, FiniteSetTheorems, TLAPS

Records == [reservation : Int, at : Int]

Below(W, v) == {w \in W : Before(w, v)}

-----------------------------------------------------------------------------
(* The order of the query is a strict total order of the records.          *)
LEMMA BeforeOrders ==
    /\ \A v \in Records : ~Before(v, v)
    /\ \A u, v, w \in Records : Before(u, v) /\ Before(v, w) => Before(u, w)
    /\ \A v, w \in Records : v = w \/ Before(v, w) \/ Before(w, v)
<1>1. \A v \in Records : ~Before(v, v)
  BY DEF Records, Before
<1>2. \A u, v, w \in Records : Before(u, v) /\ Before(v, w) => Before(u, w)
  BY DEF Records, Before
<1>3. \A v, w \in Records : v = w \/ Before(v, w) \/ Before(w, v)
  BY DEF Records, Before
<1>4. QED
  BY <1>1, <1>2, <1>3

(* How many records are before one grows along the order.                  *)
LEMMA BelowGrows ==
    ASSUME NEW W \in SUBSET Records, IsFiniteSet(W)
    PROVE  /\ \A v \in W : /\ IsFiniteSet(Below(W, v))
                           /\ Cardinality(Below(W, v)) \in Nat
                           /\ Cardinality(Below(W, v)) <= Cardinality(W)
           /\ \A v, w \in W : Before(w, v) =>
                 Cardinality(Below(W, w)) < Cardinality(Below(W, v))
<1>1. ASSUME NEW v \in W
      PROVE  /\ IsFiniteSet(Below(W, v))
             /\ Cardinality(Below(W, v)) \in Nat
             /\ Cardinality(Below(W, v)) <= Cardinality(W)
  <2>1. Below(W, v) \in SUBSET W
    BY DEF Below
  <2>2. QED
    BY <2>1, FS_Subset, FS_CardinalityType
<1>2. ASSUME NEW v \in W, NEW w \in W, Before(w, v)
      PROVE  Cardinality(Below(W, w)) < Cardinality(Below(W, v))
  <2>1. Below(W, w) \in SUBSET Below(W, v)
    BY <1>2, BeforeOrders DEF Below
  <2>2. w \in Below(W, v) /\ w \notin Below(W, w)
    BY <1>2, BeforeOrders DEF Below
  <2>3. QED
    BY <1>1, <2>1, <2>2, FS_Subset
<1>3. QED
  BY <1>1, <1>2

(* Among subsets of a finite set there is a smallest by inclusion.         *)
LEMMA SmallestSubset ==
    ASSUME NEW W, IsFiniteSet(W), NEW T \in SUBSET (SUBSET W), T # {}
    PROVE  \E X \in T : \A Y \in T : Y \subseteq X => Y = X
<1>1. IsWellFoundedOn(StrictSubsetOrdering(W), SUBSET W)
  BY FS_StrictSubsetOrderingWellFounded, FS_FiniteSubsetsOfFinite
<1>2. PICK X \in T : \A Y \in T : ~(<<Y, X>> \in StrictSubsetOrdering(W))
  BY <1>1, WFMin
<1>3. \A Y \in T : Y \subseteq X => Y = X
  BY <1>2 DEF StrictSubsetOrdering
<1>4. QED
  BY <1>3

(* A finite set of records has a last one.                                 *)
LEMMA LastRecord ==
    ASSUME NEW W \in SUBSET Records, IsFiniteSet(W), W # {}
    PROVE  \E u \in W : \A w \in W : w = u \/ Before(w, u)
<1> DEFINE After(u) == {w \in W : Before(u, w)}
           Afters == {After(u) : u \in W}
<1>1. Afters \in SUBSET (SUBSET W) /\ Afters # {}
  OBVIOUS
<1>2. PICK X \in Afters : \A Y \in Afters : Y \subseteq X => Y = X
  <2> HIDE DEF Afters
  <2>1. QED
    BY <1>1, SmallestSubset
<1>3. PICK u \in W : X = After(u)
  OBVIOUS
<1>4. ASSUME NEW w \in W, w # u, ~Before(w, u) PROVE FALSE
  <2>1. Before(u, w)
    BY <1>4, BeforeOrders
  <2>2. After(w) \subseteq After(u)
    BY <2>1, BeforeOrders
  <2>3. w \in After(u) /\ w \notin After(w)
    BY <2>1, BeforeOrders
  <2>4. After(w) \in Afters
    OBVIOUS
  <2>5. QED
    BY <1>2, <1>3, <2>2, <2>3, <2>4
<1>5. QED
  BY <1>4

(* All but the last are before it.                                         *)
LEMMA BelowTheLast ==
    ASSUME NEW W \in SUBSET Records, IsFiniteSet(W), NEW P \in SUBSET W,
           NEW u \in P, \A w \in P : w = u \/ Before(w, u),
           \A w \in W : Before(w, u) => w \in P
    PROVE  Cardinality(Below(W, u)) = Cardinality(P) - 1
<1>1. Below(W, u) = P \ {u}
  BY BeforeOrders DEF Below
<1>2. IsFiniteSet(P)
  BY FS_Subset
<1>3. QED
  BY <1>1, <1>2, FS_RemoveElement

(* A sorted list of records has an n-th element.                           *)
LEMMA NthRecord ==
    ASSUME NEW W \in SUBSET Records, IsFiniteSet(W),
           NEW n \in Nat, n < Cardinality(W)
    PROVE  \E v \in W : Cardinality(Below(W, v)) = n
<1> DEFINE Enough == {v \in W : Cardinality(Below(W, v)) >= n}
           Belows == {Below(W, v) : v \in Enough}
<1>1. Cardinality(W) \in Nat /\ W # {}
  BY FS_CardinalityType, FS_EmptySet
<1>2. Enough # {}
  <2>1. PICK u \in W : \A w \in W : w = u \/ Before(w, u)
    BY <1>1, LastRecord
  <2>2. Cardinality(Below(W, u)) = Cardinality(W) - 1
    BY <2>1, BelowTheLast
  <2>3. u \in Enough
    BY <1>1, <2>2
  <2>4. QED
    BY <2>3
<1>3. Belows \in SUBSET (SUBSET W) /\ Belows # {}
  BY <1>2 DEF Below
<1>4. PICK X \in Belows : \A Y \in Belows : Y \subseteq X => Y = X
  <2> HIDE DEF Belows
  <2>1. QED
    BY <1>3, SmallestSubset
<1>5. PICK v \in Enough : X = Below(W, v)
  OBVIOUS
<1> DEFINE k == Cardinality(Below(W, v))
<1>6. k \in Nat /\ k >= n
  BY <1>5, BelowGrows
<1>7. ASSUME k # n PROVE FALSE
  <2>1. Below(W, v) \in SUBSET W /\ IsFiniteSet(Below(W, v))
    BY <1>5, BelowGrows DEF Below
  <2>2. Below(W, v) # {}
    BY <1>6, <1>7, <2>1, FS_EmptySet
  <2>3. Below(W, v) \in SUBSET Records
    BY <2>1
  <2>4. PICK u \in Below(W, v) : \A w \in Below(W, v) : w = u \/ Before(w, u)
    BY <2>1, <2>2, <2>3, LastRecord
  <2>5. Before(u, v)
    BY <2>4 DEF Below
  <2>6. \A w \in W : Before(w, u) => w \in Below(W, v)
    BY <2>5, <2>1, <1>5, BeforeOrders DEF Below
  <2>7. Cardinality(Below(W, u)) = k - 1
    BY <2>1, <2>4, <2>6, BelowTheLast
  <2>8. u \in Enough
    BY <1>6, <1>7, <2>1, <2>7
  <2>9. Below(W, u) \in Belows /\ Below(W, u) \subseteq Below(W, v)
    BY <2>6, <2>8 DEF Below
  <2>10. QED
    BY <1>4, <1>5, <1>6, <2>7, <2>9
<1>8. QED
  BY <1>5, <1>7

-----------------------------------------------------------------------------
(* The penalty without the order: enough records in the window, and fewer  *)
(* than the threshold of them so old that a penalty they start has ended.  *)
OldIn(t) == {v \in InWindow(t) : v.at + Duration <= t}

Penalised(t) ==
    /\ Cardinality(InWindow(t)) >= Threshold
    /\ Cardinality(OldIn(t)) < Threshold

(* The records are finite, and none is later than the clock.               *)
Recorded ==
    /\ IsFiniteSet(violations)
    /\ \A v \in violations : v.at <= now

LEMMA RecordsAreRecords ==
    ASSUME TypeOK, Recorded, NEW t \in Int
    PROVE  /\ violations \in SUBSET Records
           /\ InWindow(t) \in SUBSET Records
           /\ IsFiniteSet(InWindow(t)) /\ IsFiniteSet(OldIn(t))
           /\ Cardinality(InWindow(t)) \in Nat /\ Cardinality(OldIn(t)) \in Nat
           /\ Threshold \in Nat \ {0} /\ Duration \in Nat \ {0} /\ Window \in Nat \ {0}
<1>1. violations \in SUBSET Records
  <2>1. Reservations \subseteq Int /\ 0..MaxTime \subseteq Int
    BY PenaltyAssumption
  <2>2. [reservation : Reservations, at : 0..MaxTime] \subseteq Records
    BY <2>1 DEF Records
  <2>3. QED
    BY <2>2 DEF TypeOK
<1>2. InWindow(t) \in SUBSET violations /\ OldIn(t) \in SUBSET violations
  BY DEF InWindow, OldIn
<1>3. /\ IsFiniteSet(InWindow(t)) /\ IsFiniteSet(OldIn(t))
      /\ Cardinality(InWindow(t)) \in Nat /\ Cardinality(OldIn(t)) \in Nat
  BY <1>2, FS_Subset, FS_CardinalityType DEF Recorded
<1>4. QED
  BY <1>1, <1>2, <1>3, PenaltyAssumption

LEMMA PenalisedByCounting ==
    ASSUME TypeOK, Recorded, NEW t \in Int
    PROVE  AutoPenalised(t) <=> Penalised(t)
<1> DEFINE W == InWindow(t)
<1>1. /\ W \in SUBSET Records /\ W \in SUBSET violations /\ violations \in SUBSET Records
      /\ IsFiniteSet(W) /\ IsFiniteSet(OldIn(t))
      /\ Cardinality(W) \in Nat /\ Cardinality(OldIn(t)) \in Nat
      /\ Threshold \in Nat \ {0} /\ Duration \in Nat \ {0}
  BY RecordsAreRecords DEF InWindow
<1>2. ASSUME NEW v \in violations, StartsPenalty(v, t), v.at + Duration > t
      PROVE  Penalised(t)
  <2>1. v \in W /\ Cardinality(Below(W, v)) = Threshold - 1
    BY <1>2 DEF StartsPenalty, Below
  <2>2. IsFiniteSet(Below(W, v))
    BY <1>1, <2>1, BelowGrows
  <2>3. OldIn(t) \in SUBSET Below(W, v)
    BY <1>1, <1>2, <2>1 DEF OldIn, Below, Before, Records
  <2>4. Cardinality(OldIn(t)) <= Threshold - 1
    BY <2>1, <2>2, <2>3, FS_Subset
  <2>5. Below(W, v) \cup {v} \in SUBSET W /\ v \notin Below(W, v)
    BY <1>1, <2>1, BeforeOrders DEF Below
  <2>6. Cardinality(Below(W, v) \cup {v}) = Threshold
    <3>1. Cardinality(Below(W, v) \cup {v}) = Cardinality(Below(W, v)) + 1
      BY <2>2, <2>5, FS_AddElement
    <3>2. QED
      BY <1>1, <2>1, <3>1
  <2>7. Cardinality(W) >= Threshold
    BY <1>1, <2>5, <2>6, FS_Subset
  <2>8. QED
    BY <1>1, <2>4, <2>7 DEF Penalised
<1>3. ASSUME Penalised(t) PROVE AutoPenalised(t)
  <2>1. Threshold - 1 \in Nat /\ Threshold - 1 < Cardinality(W)
    BY <1>1, <1>3 DEF Penalised
  <2>2. PICK v \in W : Cardinality(Below(W, v)) = Threshold - 1
    BY <1>1, <2>1, NthRecord
  <2>3. StartsPenalty(v, t)
    BY <2>2 DEF StartsPenalty, Below
  <2>4. ASSUME v.at + Duration <= t PROVE FALSE
    <3>1. Below(W, v) \cup {v} \in SUBSET OldIn(t) /\ v \notin Below(W, v)
      BY <1>1, <2>2, <2>4, BeforeOrders DEF OldIn, Below, Before, Records
    <3>2. IsFiniteSet(Below(W, v))
      BY <1>1, <2>2, BelowGrows
    <3>3. Cardinality(Below(W, v) \cup {v}) = Threshold
      <4>1. Cardinality(Below(W, v) \cup {v}) = Cardinality(Below(W, v)) + 1
        BY <3>1, <3>2, FS_AddElement
      <4>2. QED
        BY <1>1, <2>2, <4>1
    <3>4. Cardinality(OldIn(t)) >= Threshold
      BY <1>1, <3>1, <3>3, FS_Subset
    <3>5. QED
      BY <1>1, <1>3, <3>4 DEF Penalised
  <2>5. v \in violations /\ v.at \in Int
    BY <1>1, <2>2 DEF Records
  <2>6. v.at + Duration > t
    BY <1>1, <2>4, <2>5
  <2>7. QED
    BY <2>3, <2>5, <2>6 DEF AutoPenalised
<1>4. QED
  BY <1>2, <1>3 DEF AutoPenalised

(* A record made now does not end a penalty of an earlier or this moment.  *)
LEMMA RecordKeepsPenalty ==
    ASSUME TypeOK, Recorded, NEW e \in Records, e.at = now,
           violations' = violations \cup {e}, NEW t \in Int, t <= now, Penalised(t)
    PROVE  Penalised(t)'
<1>1. /\ InWindow(t) \in SUBSET violations /\ violations \in SUBSET Records
      /\ Cardinality(InWindow(t)) \in Nat
      /\ Threshold \in Nat \ {0} /\ Duration \in Nat \ {0}
  BY RecordsAreRecords DEF InWindow
<1>2. InWindow(t)' \in SUBSET violations' /\ InWindow(t) \in SUBSET InWindow(t)'
  BY DEF InWindow
<1>3. IsFiniteSet(violations')
  BY FS_AddElement DEF Recorded
<1>4. IsFiniteSet(InWindow(t)') /\ Cardinality(InWindow(t)') \in Nat
  BY <1>2, <1>3, FS_Subset, FS_CardinalityType
<1>5. Cardinality(InWindow(t)') >= Cardinality(InWindow(t))
  BY <1>1, <1>2, <1>4, FS_Subset
<1>6. OldIn(t)' = OldIn(t)
  <2>1. now \in Int /\ e.at + Duration > t
    BY <1>1, PenaltyAssumption DEF TypeOK
  <2>2. QED
    BY <1>1, <2>1 DEF OldIn, InWindow, Records
<1>7. QED
  BY <1>1, <1>4, <1>5, <1>6 DEF Penalised

-----------------------------------------------------------------------------
(* A release that has loaded a block has one to write.                     *)
ReleaseInv == \A x \in Releases : release[x].pc = "loaded" => release[x].loaded \in Activations

(* What a check in progress may conclude: as long as it has not seen the   *)
(* automatic restriction off, the records of its moment impose it.         *)
CheckInv(q) ==
    /\ Checking(q) => check[q].asOf <= now
    /\ check[q].pc \in {"count", "list"} /\ "auto" \notin lifted[q]
          => Penalised(check[q].asOf)
    /\ check[q].pc = "block" /\ ~check[q].auto => "auto" \in lifted[q]
    /\ check[q].pc = "passed" => lifted[q] = {"auto", "manual"}

IInv ==
    /\ TypeOK
    /\ Recorded
    /\ ReleaseInv
    /\ OneActiveBlock
    /\ \A q \in Bookings : CheckInv(q)

(* Restrictions seen lifted are only added, and only to a running check.   *)
LEMMA WatchAdds ==
    ASSUME TypeOK, Watch
    PROVE  /\ lifted' \in [Bookings -> SUBSET {"auto", "manual"}]
           /\ \A q \in Bookings :
                 /\ lifted[q] \in SUBSET lifted'[q]
                 /\ ~Checking(q) /\ ~Checking(q)' => lifted'[q] = lifted[q]
                 /\ Checking(q) \/ Checking(q)' => Lifted' \in SUBSET lifted'[q]
<1>1. Lifted' \in SUBSET {"auto", "manual"}
  BY DEF Lifted
<1>2. lifted \in [Bookings -> SUBSET {"auto", "manual"}]
  BY DEF TypeOK
<1>3. \A q \in Bookings :
         lifted'[q] = IF Checking(q) \/ Checking(q)' THEN lifted[q] \cup Lifted' ELSE lifted[q]
  BY DEF Watch
<1>4. lifted' = [q \in Bookings |-> lifted'[q]]
  BY DEF Watch
<1>5. \A q \in Bookings : lifted'[q] \in SUBSET {"auto", "manual"}
  BY <1>1, <1>2, <1>3
<1>6. QED
  BY <1>3, <1>4, <1>5

(* Steps that leave the checks and the records alone.                      *)
LEMMA CheckFrame ==
    ASSUME IInv, UNCHANGED <<check, violations>>, Watch \/ UNCHANGED lifted,
           now' \in 0..MaxTime, now <= now'
    PROVE  /\ lifted' \in [Bookings -> SUBSET {"auto", "manual"}]
           /\ Recorded'
           /\ \A q \in Bookings : CheckInv(q)'
<1>1. /\ lifted' \in [Bookings -> SUBSET {"auto", "manual"}]
      /\ \A q \in Bookings :
            /\ lifted[q] \in SUBSET lifted'[q]
            /\ check[q].pc = "passed" => lifted'[q] = lifted[q]
  <2>1. CASE Watch
    BY <2>1, WatchAdds DEF IInv, Checking
  <2>2. CASE UNCHANGED lifted
    BY <2>2 DEF IInv, TypeOK
  <2>3. QED
    BY <2>1, <2>2
<1>2. \A t : Penalised(t)' <=> Penalised(t)
  BY DEF Penalised, OldIn, InWindow
<1>3. now \in Int /\ now' \in Int /\ \A q \in Bookings : check[q].asOf \in Int
  BY PenaltyAssumption DEF IInv, TypeOK
<1>4. ASSUME NEW q \in Bookings PROVE CheckInv(q)'
  <2>1. CheckInv(q) /\ check' = check
    BY DEF IInv
  <2>2. Checking(q)' <=> Checking(q)
    BY DEF Checking
  <2>3. Checking(q)' => check'[q].asOf <= now'
    BY <1>3, <2>1, <2>2 DEF CheckInv
  <2>4. QED
    BY <1>1, <1>2, <2>1, <2>3 DEF CheckInv
<1>5. Recorded'
  <2>1. \A v \in violations : v.at \in Int
    BY PenaltyAssumption DEF IInv, TypeOK
  <2>2. QED
    BY <1>3, <2>1 DEF IInv, Recorded
<1>6. QED
  BY <1>1, <1>4, <1>5

LEMMA RecordViolationKeeps ==
    ASSUME IInv, NEW r \in Reservations, RecordViolation(r) PROVE IInv'
<1> DEFINE e == [reservation |-> r, at |-> now]
<1>1. /\ violations' = violations \cup {e}
      /\ UNCHANGED <<now, block, activation, release, check>> /\ Watch
  BY DEF RecordViolation
<1>2. e \in Records /\ e.at = now /\ now \in 0..MaxTime /\ now \in Int
      /\ e \in [reservation : Reservations, at : 0..MaxTime]
  BY PenaltyAssumption DEF IInv, TypeOK, Records
<1>3. TypeOK'
  <2>1. violations' \subseteq [reservation : Reservations, at : 0..MaxTime]
    BY <1>1, <1>2 DEF IInv, TypeOK
  <2>2. QED
    BY <1>1, <2>1, WatchAdds DEF IInv, TypeOK
<1>4. Recorded'
  <2>1. IsFiniteSet(violations')
    BY <1>1, FS_AddElement DEF IInv, Recorded
  <2>2. QED
    BY <1>1, <1>2, <2>1 DEF IInv, Recorded
<1>5. ReleaseInv' /\ OneActiveBlock'
  BY <1>1 DEF IInv, ReleaseInv, OneActiveBlock, ActiveBlocks
<1>6. ASSUME NEW q \in Bookings PROVE CheckInv(q)'
  <2>1. CheckInv(q) /\ check' = check /\ now' = now /\ check[q].asOf \in Int
    BY <1>1, PenaltyAssumption DEF IInv, TypeOK
  <2>2. Checking(q)' <=> Checking(q)
    BY <2>1 DEF Checking
  <2>3. lifted[q] \in SUBSET lifted'[q] /\ (~Checking(q) => lifted'[q] = lifted[q])
    BY <1>1, <2>2, WatchAdds DEF IInv
  <2>4. ASSUME check[q].pc \in {"count", "list"}, "auto" \notin lifted'[q]
        PROVE  Penalised(check[q].asOf)'
    <3> DEFINE t == check[q].asOf
    <3>1. t <= now /\ Penalised(t)
      BY <2>1, <2>3, <2>4 DEF CheckInv, Checking
    <3>2. t \in Int /\ t' = t
      BY <2>1
    <3> HIDE DEF t, e
    <3>3. \A u \in Int : u = t => Penalised(u)'
      BY <1>1, <1>2, <3>1, <3>2, RecordKeepsPenalty DEF IInv
    <3>4. Penalised(t)'
      BY <3>2, <3>3 DEF Penalised, OldIn, InWindow
    <3>5. QED
      BY <3>4 DEF t
  <2>5. QED
    BY <2>1, <2>2, <2>3, <2>4 DEF CheckInv, Checking
<1>7. QED
  BY <1>3, <1>4, <1>5, <1>6 DEF IInv

-----------------------------------------------------------------------------
(* The steps of a check: the other checks are as they were, and what is    *)
(* left to show is the invariant of the one that moved.                    *)
CheckRows == [pc : {"idle", "count", "list", "block", "passed", "refused"},
              asOf : 0..MaxTime, auto : BOOLEAN]

LEMMA CheckMoves ==
    ASSUME IInv, NEW q \in Bookings, check' \in [Bookings -> CheckRows],
           \A p \in Bookings : p # q => check'[p] = check[p],
           UNCHANGED <<now, violations, block, activation, release>>, Watch,
           CheckInv(q)'
    PROVE  IInv'
<1>1. TypeOK'
  BY WatchAdds DEF IInv, TypeOK, CheckRows
<1>2. Recorded' /\ ReleaseInv' /\ OneActiveBlock'
  BY DEF IInv, Recorded, ReleaseInv, OneActiveBlock, ActiveBlocks
<1>3. ASSUME NEW p \in Bookings, p # q PROVE CheckInv(p)'
  <2>1. CheckInv(p) /\ check'[p] = check[p] /\ now' = now
    BY <1>3 DEF IInv
  <2>2. Checking(p)' <=> Checking(p)
    BY <2>1 DEF Checking
  <2>3. lifted[p] \in SUBSET lifted'[p] /\ (~Checking(p) => lifted'[p] = lifted[p])
    BY <2>2, WatchAdds DEF IInv
  <2>4. \A t : Penalised(t)' <=> Penalised(t)
    BY DEF Penalised, OldIn, InWindow
  <2>5. QED
    BY <2>1, <2>2, <2>3, <2>4 DEF CheckInv, Checking
<1>4. QED
  BY <1>1, <1>2, <1>3 DEF IInv

LEMMA CheckStartKeeps == ASSUME IInv, NEW q \in Bookings, CheckStart(q) PROVE IInv'
<1>1. /\ check' = [check EXCEPT ![q] = [pc |-> "count", asOf |-> now, auto |-> FALSE]]
      /\ UNCHANGED <<now, violations, block, activation, release>> /\ Watch
  BY DEF CheckStart
<1>2. check \in [Bookings -> CheckRows] /\ now \in 0..MaxTime /\ now \in Int
  BY PenaltyAssumption DEF IInv, TypeOK, CheckRows
<1>3. /\ check' \in [Bookings -> CheckRows]
      /\ \A p \in Bookings : p # q => check'[p] = check[p]
      /\ check'[q].pc = "count" /\ check'[q].asOf = now
  BY <1>1, <1>2 DEF CheckRows
<1>4. Lifted' \in SUBSET lifted'[q]
  BY <1>1, <1>3, WatchAdds DEF IInv, Checking
<1>5. ASSUME "auto" \notin lifted'[q] PROVE Penalised(now)
  <2>1. AutoPenalised(now)'
    BY <1>4, <1>5 DEF Lifted
  <2>2. AutoPenalised(now)
    BY <1>1, <2>1 DEF AutoPenalised, StartsPenalty, InWindow
  <2>3. QED
    BY <1>2, <2>2, PenalisedByCounting DEF IInv
<1>6. CheckInv(q)'
  <2>1. Penalised(now)' <=> Penalised(now)
    BY <1>1 DEF Penalised, OldIn, InWindow
  <2>2. check'[q].asOf <= now'
    BY <1>1, <1>2, <1>3
  <2>3. "auto" \notin lifted'[q] => Penalised(check[q].asOf)'
    BY <1>1, <1>3, <1>5, <2>1 DEF Penalised, OldIn, InWindow
  <2>4. QED
    BY <1>3, <2>2, <2>3 DEF CheckInv
<1>7. QED
  BY <1>1, <1>3, <1>6, CheckMoves

LEMMA CheckCountKeeps == ASSUME IInv, NEW q \in Bookings, CheckCount(q) PROVE IInv'
<1> DEFINE t == check[q].asOf
           enough == Cardinality(InWindow(t)) >= Threshold
<1>1. /\ check[q].pc = "count"
      /\ check' = [check EXCEPT ![q].pc = IF enough THEN "list" ELSE "block"]
      /\ UNCHANGED <<now, violations, block, activation, release>> /\ Watch
  BY DEF CheckCount
<1>2. check \in [Bookings -> CheckRows] /\ CheckInv(q)
  BY DEF IInv, TypeOK, CheckRows
<1>3. /\ check' \in [Bookings -> CheckRows]
      /\ \A p \in Bookings : p # q => check'[p] = check[p]
      /\ check'[q].pc = (IF enough THEN "list" ELSE "block")
      /\ check'[q].asOf = t
  <2> HIDE DEF enough
  <2>1. QED
    BY <1>1, <1>2 DEF CheckRows
<1>4. lifted[q] \in SUBSET lifted'[q] /\ now' = now
  BY <1>1, WatchAdds DEF IInv
<1>5. "auto" \notin lifted'[q] => Penalised(t)
  BY <1>1, <1>2, <1>4 DEF CheckInv
<1>6. CheckInv(q)'
  <2>1. Penalised(t)' <=> Penalised(t)
    BY <1>1, <1>3 DEF Penalised, OldIn, InWindow
  <2>2. Penalised(t) => enough
    BY DEF Penalised
  <2>3. check'[q].asOf <= now'
    BY <1>1, <1>2, <1>3, <1>4 DEF CheckInv, Checking
  <2> HIDE DEF enough
  <2>4. CASE enough
    BY <1>3, <1>5, <2>1, <2>3, <2>4 DEF CheckInv
  <2>5. CASE ~enough
    BY <1>3, <1>5, <2>2, <2>3, <2>5 DEF CheckInv
  <2>6. QED
    BY <2>4, <2>5
<1>7. QED
  BY <1>1, <1>3, <1>6, CheckMoves

LEMMA CheckListKeeps == ASSUME IInv, NEW q \in Bookings, CheckList(q) PROVE IInv'
<1> DEFINE t == check[q].asOf
<1>1. /\ check[q].pc = "list"
      /\ check' = [check EXCEPT ![q].pc = "block", ![q].auto = AutoPenalised(t)]
      /\ UNCHANGED <<now, violations, block, activation, release>> /\ Watch
  BY DEF CheckList
<1>2. check \in [Bookings -> CheckRows] /\ CheckInv(q) /\ t \in Int
  BY PenaltyAssumption DEF IInv, TypeOK, CheckRows
<1>3. AutoPenalised(t) \in BOOLEAN
  BY DEF AutoPenalised
<1>4. /\ check' \in [Bookings -> CheckRows]
      /\ \A p \in Bookings : p # q => check'[p] = check[p]
      /\ check'[q].pc = "block" /\ check'[q].asOf = t
      /\ check'[q].auto = AutoPenalised(t)
  <2> DEFINE auto == AutoPenalised(t)
  <2> HIDE DEF auto
  <2>1. auto \in BOOLEAN
    BY <1>3 DEF auto
  <2>2. check' = [check EXCEPT ![q].pc = "block", ![q].auto = auto]
    BY <1>1 DEF auto
  <2>3. /\ check' \in [Bookings -> CheckRows]
        /\ \A p \in Bookings : p # q => check'[p] = check[p]
        /\ check'[q].pc = "block" /\ check'[q].asOf = t /\ check'[q].auto = auto
    BY <1>2, <2>1, <2>2 DEF CheckRows
  <2>4. QED
    BY <2>3 DEF auto
<1>5. lifted[q] \in SUBSET lifted'[q] /\ now' = now
  BY <1>1, WatchAdds DEF IInv
<1>6. "auto" \notin lifted'[q] => AutoPenalised(t)
  BY <1>1, <1>2, <1>5, PenalisedByCounting DEF CheckInv, IInv
<1>7. CheckInv(q)'
  <2>1. check'[q].asOf <= now'
    BY <1>1, <1>2, <1>4, <1>5 DEF CheckInv, Checking
  <2>2. QED
    BY <1>4, <1>6, <2>1 DEF CheckInv
<1>8. QED
  BY <1>1, <1>4, <1>7, CheckMoves

LEMMA CheckBlockKeeps == ASSUME IInv, NEW q \in Bookings, CheckBlock(q) PROVE IInv'
<1>1. /\ check[q].pc = "block"
      /\ check' = [check EXCEPT ![q].pc =
                      IF check[q].auto \/ ActiveBlocks # {} THEN "refused" ELSE "passed"]
      /\ UNCHANGED <<now, violations, block, activation, release>> /\ Watch
  BY DEF CheckBlock
<1>2. check \in [Bookings -> CheckRows] /\ CheckInv(q)
  BY DEF IInv, TypeOK, CheckRows
<1>3. /\ check' \in [Bookings -> CheckRows]
      /\ \A p \in Bookings : p # q => check'[p] = check[p]
      /\ check'[q].pc \in {"refused", "passed"}
      /\ check'[q].pc = "passed" => ~check[q].auto /\ ActiveBlocks = {}
  BY <1>1, <1>2 DEF CheckRows
<1>4. /\ lifted[q] \in SUBSET lifted'[q] /\ Lifted' \in SUBSET lifted'[q]
      /\ lifted'[q] \in SUBSET {"auto", "manual"}
  BY <1>1, WatchAdds DEF IInv, Checking
<1>5. ASSUME check'[q].pc = "passed" PROVE lifted'[q] = {"auto", "manual"}
  <2>1. "auto" \in lifted[q]
    BY <1>1, <1>2, <1>3, <1>5 DEF CheckInv
  <2>2. "manual" \in Lifted'
    BY <1>1, <1>3, <1>5 DEF Lifted, ActiveBlocks
  <2>3. QED
    BY <1>4, <2>1, <2>2
<1>6. CheckInv(q)'
  BY <1>3, <1>5 DEF CheckInv, Checking
<1>7. QED
  BY <1>1, <1>3, <1>6, CheckMoves

-----------------------------------------------------------------------------
(* The administrators: their steps disturb the rows of the blocks only.    *)
ActivationStates == {"idle", "insert", "reread", "done", "error"}
ReleaseRows == [pc : {"idle", "loaded", "done", "refused"}, loaded : Activations \cup {None}]

LEMMA AdministratorMoves ==
    ASSUME IInv, UNCHANGED <<check, violations>>, Watch \/ UNCHANGED lifted,
           now' \in 0..MaxTime, now <= now',
           block' \in [Activations -> {"absent", "active", "released"}],
           activation' \in [Activations -> ActivationStates],
           release' \in [Releases -> ReleaseRows],
           ReleaseInv', OneActiveBlock'
    PROVE  IInv'
<1>1. /\ lifted' \in [Bookings -> SUBSET {"auto", "manual"}]
      /\ Recorded' /\ \A q \in Bookings : CheckInv(q)'
  BY CheckFrame
<1>2. TypeOK'
  BY <1>1 DEF IInv, TypeOK, ActivationStates, ReleaseRows
<1>3. QED
  BY <1>1, <1>2 DEF IInv

LEMMA AdministratorTypes ==
    ASSUME IInv
    PROVE  /\ now \in 0..MaxTime /\ now \in Int /\ now <= now
           /\ block \in [Activations -> {"absent", "active", "released"}]
           /\ activation \in [Activations -> ActivationStates]
           /\ release \in [Releases -> ReleaseRows]
           /\ ReleaseInv /\ OneActiveBlock
<1>1. now \in 0..MaxTime /\ now \in Int
  BY PenaltyAssumption DEF IInv, TypeOK
<1>2. QED
  BY <1>1 DEF IInv, TypeOK, ActivationStates, ReleaseRows

LEMMA ActivateKeeps ==
    ASSUME IInv, NEW a \in Activations,
           ActivateLoad(a) \/ ActivateInsert(a) \/ ActivateReread(a)
    PROVE  IInv'
<1>1. UNCHANGED <<check, violations, now, release>> /\ Watch
  BY DEF ActivateLoad, ActivateInsert, ActivateReread
<1>2. activation' \in [Activations -> ActivationStates]
  BY AdministratorTypes DEF ActivateLoad, ActivateInsert, ActivateReread, ActivationStates
<1>3. /\ block' \in [Activations -> {"absent", "active", "released"}]
      /\ OneActiveBlock'
  <2>1. CASE ActiveBlocks = {} /\ block' = [block EXCEPT ![a] = "active"]
    <3>1. \A b \in Activations : b # a => block'[b] # "active"
      BY <2>1, AdministratorTypes DEF ActiveBlocks
    <3>2. QED
      BY <2>1, <3>1, AdministratorTypes DEF OneActiveBlock, ActiveBlocks
  <2>2. CASE block' = block
    BY <2>2, AdministratorTypes DEF OneActiveBlock, ActiveBlocks
  <2>3. (ActiveBlocks = {} /\ block' = [block EXCEPT ![a] = "active"]) \/ block' = block
    <3>1. CASE ActivateInsert(a)
      <4>1. CASE ActiveBlocks = {}
        BY <3>1, <4>1 DEF ActivateInsert
      <4>2. CASE ActiveBlocks # {}
        <5>1. block' = [block EXCEPT ![a] = block[a]]
          BY <3>1, <4>2 DEF ActivateInsert
        <5>2. QED
          BY <5>1, AdministratorTypes
      <4>3. QED
        BY <4>1, <4>2
    <3>2. CASE ActivateLoad(a) \/ ActivateReread(a)
      BY <3>2 DEF ActivateLoad, ActivateReread
    <3>3. QED
      BY <3>1, <3>2
  <2>4. QED
    BY <2>1, <2>2, <2>3
<1>4. ReleaseInv' /\ release' \in [Releases -> ReleaseRows]
      /\ now' \in 0..MaxTime /\ now <= now'
  BY <1>1, AdministratorTypes DEF ReleaseInv
<1>5. QED
  BY <1>1, <1>2, <1>3, <1>4, AdministratorMoves

LEMMA ReleaseKeeps ==
    ASSUME IInv, NEW x \in Releases, ReleaseLoad(x) \/ ReleaseWrite(x) PROVE IInv'
<1>1. UNCHANGED <<check, violations, now, activation>> /\ Watch
  BY DEF ReleaseLoad, ReleaseWrite
<1>2. CASE ReleaseLoad(x)
  <2>1. block' = block
    BY <1>2 DEF ReleaseLoad
  <2>2. CASE release' = [release EXCEPT ![x].pc = "refused"]
    BY <1>1, <2>1, <2>2, AdministratorTypes, AdministratorMoves
       DEF ReleaseInv, ReleaseRows, OneActiveBlock, ActiveBlocks
  <2>3. ASSUME NEW a \in ActiveBlocks,
               release' = [release EXCEPT ![x] = [pc |-> "loaded", loaded |-> a]]
        PROVE  IInv'
    <3>1. a \in Activations
      BY DEF ActiveBlocks
    <3>2. release' \in [Releases -> ReleaseRows] /\ ReleaseInv'
      BY <2>3, <3>1, AdministratorTypes DEF ReleaseInv, ReleaseRows
    <3>3. OneActiveBlock' /\ block' \in [Activations -> {"absent", "active", "released"}]
      BY <2>1, AdministratorTypes DEF OneActiveBlock, ActiveBlocks
    <3>4. QED
      BY <1>1, <3>2, <3>3, AdministratorTypes, AdministratorMoves
  <2>4. QED
    BY <1>2, <2>2, <2>3 DEF ReleaseLoad
<1>3. CASE ReleaseWrite(x)
  <2>1. release[x].loaded \in Activations
    BY <1>3, AdministratorTypes DEF ReleaseWrite, ReleaseInv
  <2>2. release' \in [Releases -> ReleaseRows] /\ ReleaseInv'
    BY <1>3, AdministratorTypes DEF ReleaseWrite, ReleaseInv, ReleaseRows
  <2>3. /\ block' \in [Activations -> {"absent", "active", "released"}]
        /\ \A a \in Activations : block'[a] = "active" => block[a] = "active"
    BY <1>3, <2>1, AdministratorTypes DEF ReleaseWrite
  <2>4. OneActiveBlock'
    BY <2>3, AdministratorTypes DEF OneActiveBlock, ActiveBlocks
  <2>5. QED
    BY <1>1, <2>2, <2>3, <2>4, AdministratorTypes, AdministratorMoves
<1>4. QED
  BY <1>2, <1>3

LEMMA ClockKeeps == ASSUME IInv, Tick \/ Finished \/ UNCHANGED vars PROVE IInv'
<1>1. /\ UNCHANGED <<check, violations, block, activation, release>>
      /\ Watch \/ UNCHANGED lifted
  BY DEF Tick, Finished, vars
<1>2. now' \in 0..MaxTime /\ now <= now'
  BY PenaltyAssumption, AdministratorTypes DEF Tick, Finished, vars
<1>3. ReleaseInv' /\ OneActiveBlock'
  BY <1>1, AdministratorTypes DEF ReleaseInv, OneActiveBlock, ActiveBlocks
<1>4. QED
  BY <1>1, <1>2, <1>3, AdministratorTypes, AdministratorMoves

-----------------------------------------------------------------------------
LEMMA InitIInv == Init => IInv
<1> SUFFICES ASSUME Init PROVE IInv
  OBVIOUS
<1>1. TypeOK
  BY PenaltyAssumption DEF Init, TypeOK
<1>2. Recorded
  BY FS_EmptySet DEF Init, Recorded
<1>3. ReleaseInv /\ OneActiveBlock
  BY DEF Init, ReleaseInv, OneActiveBlock, ActiveBlocks
<1>4. \A q \in Bookings : CheckInv(q)
  BY DEF Init, CheckInv, Checking
<1>5. QED
  BY <1>1, <1>2, <1>3, <1>4 DEF IInv

LEMMA StepIInv == IInv /\ [Next]_vars => IInv'
<1> SUFFICES ASSUME IInv, [Next]_vars PROVE IInv'
  OBVIOUS
<1>1. CASE \E r \in Reservations : RecordViolation(r)
  BY <1>1, RecordViolationKeeps
<1>2. CASE \E q \in Bookings :
              CheckStart(q) \/ CheckCount(q) \/ CheckList(q) \/ CheckBlock(q)
  BY <1>2, CheckStartKeeps, CheckCountKeeps, CheckListKeeps, CheckBlockKeeps
<1>3. CASE \E a \in Activations : ActivateLoad(a) \/ ActivateInsert(a) \/ ActivateReread(a)
  BY <1>3, ActivateKeeps
<1>4. CASE \E x \in Releases : ReleaseLoad(x) \/ ReleaseWrite(x)
  BY <1>4, ReleaseKeeps
<1>5. CASE Tick \/ Finished \/ UNCHANGED vars
  BY <1>5, ClockKeeps
<1>6. QED
  BY <1>1, <1>2, <1>3, <1>4, <1>5 DEF Next

(* The inductive invariant, whatever the threshold, window and duration.   *)
THEOREM Invariant == Spec => []IInv
BY InitIInv, StepIInv, PTL DEF Spec

(* Every variable of the penalty model keeps its type.                     *)
THEOREM TypeCorrect == Spec => []TypeOK
<1>1. IInv => TypeOK
  BY DEF IInv
<1>2. QED
  BY <1>1, Invariant, PTL

(* Any number of administrators leave at most one active block of a user.  *)
THEOREM AtMostOneBlock == Spec => []OneActiveBlock
<1>1. IInv => OneActiveBlock
  BY DEF IInv
<1>2. QED
  BY <1>1, Invariant, PTL

(* A check that lets a booking pass has seen both restrictions off at some *)
(* instant of its own, although it reads clock, count, list and block one  *)
(* after the other (get_user_penalty_status).                              *)
THEOREM RestrictedCannotBook == Spec => []NoBookingUnderRestriction
<1>1. IInv => NoBookingUnderRestriction
  BY DEF IInv, CheckInv, NoBookingUnderRestriction
<1>2. QED
  BY <1>1, Invariant, PTL

(* Reaching the threshold restricts for the duration or until the first of *)
(* the counted records leaves the window: by counting, without the order.  *)
LEMMA CountedRestrict ==
    ASSUME IInv, NEW v \in violations, ReachesThreshold(v), now < v.at + Duration,
           \A w \in Counted(v) : now <= w.at + Window
    PROVE  AutoPenalised(now)
<1>1. /\ now \in Int /\ violations \in SUBSET Records
      /\ IsFiniteSet(violations) /\ IsFiniteSet(InWindow(now))
      /\ Cardinality(InWindow(now)) \in Nat /\ Cardinality(OldIn(now)) \in Nat
      /\ Threshold \in Nat \ {0} /\ Duration \in Nat \ {0} /\ Window \in Nat \ {0}
  BY AdministratorTypes, RecordsAreRecords DEF IInv, Recorded
<1>2. v.at \in Int /\ v.at <= now /\ \A w \in violations : w.at \in Int /\ w.at <= now
  BY <1>1 DEF IInv, Recorded, Records
<1> DEFINE Earlier == {w \in Counted(v) : w.at < v.at}
<1>3. Counted(v) \in SUBSET InWindow(now)
  BY <1>1, <1>2 DEF Counted, InWindow
<1>4. OldIn(now) \in SUBSET Earlier
  BY <1>1, <1>2 DEF OldIn, InWindow, Counted
<1>5. IsFiniteSet(Counted(v)) /\ IsFiniteSet(Earlier)
  <2>1. Counted(v) \in SUBSET violations /\ Earlier \in SUBSET violations
    BY DEF Counted
  <2>2. QED
    BY <1>1, <2>1, FS_Subset
<1>6. /\ Cardinality(Counted(v)) <= Cardinality(InWindow(now))
      /\ Cardinality(OldIn(now)) <= Cardinality(Earlier)
      /\ Cardinality(Counted(v)) \in Nat /\ Cardinality(Earlier) \in Nat
  BY <1>1, <1>3, <1>4, <1>5, FS_Subset, FS_CardinalityType
<1>7. Cardinality(Counted(v)) >= Threshold /\ Cardinality(Earlier) < Threshold
  BY DEF ReachesThreshold
<1>8. Penalised(now)
  BY <1>1, <1>6, <1>7 DEF Penalised
<1>9. QED
  BY <1>1, <1>8, PenalisedByCounting DEF IInv

(* The penalty starts at the threshold-th record and later records do not  *)
(* cut it short.                                                           *)
THEOREM ThresholdRestricts == Spec => []ReachingTheThresholdRestricts
<1>1. IInv => ReachingTheThresholdRestricts
  BY CountedRestrict DEF ReachingTheThresholdRestricts
<1>2. QED
  BY <1>1, Invariant, PTL
=============================================================================
