------------------------- MODULE Administration_proofs -------------------------
(***************************************************************************)
(* Theorems about Administration, for any accounts, requests, operations,  *)
(* processes, databases and stops.                                         *)
(*                                                                         *)
(* What a request has read grows old while others commit.  The invariant   *)
(* says how: whoever wrote since is among the requests that were still     *)
(* running when it looked (OthersInv), so every row it did not see is      *)
(* theirs (DeleteInv, AssignInv, UpdateInv).  Revisions change only while  *)
(* no request is under way (RequestInv), and a bootstrap that runs beside  *)
(* requests touches no row they know.  Both keep the reserved role         *)
(* complete up to the revisions still to come (CompleteInv).  What a       *)
(* bootstrap has read holds until it commits, unless it raced (StartInv).  *)
(***************************************************************************)
EXTENDS Administration, TLAPS

Inside == {"check", "gather", "write"}      \* in the handler
UnderWay == Inside \cup {"granted"}

(* Two requests of which neither waits for the other: not two forms of one *)
(* portal.                                                                 *)
Beside(x, y) == "api" \in {x.via, y.via} \/ x.at # y.at

(* Where a request stands tells what it is about, and that its process     *)
(* runs; and what was held at its checks.  Without the first administrator *)
(* there is no request.                                                    *)
RequestInv(q) ==
    LET x == request[q] IN
    /\ x.pc \in UnderWay \cup {"done"} => x.op \in Operations
    /\ x.pc \in UnderWay => x.at \in Processes /\ Up(x.at) /\ user[Root] # "absent"
    /\ x.pc \in {"check", "gather"} => x.op.kind = "deleteRole"
    /\ x.pc = "granted" /\ RouteNeeds(x.op, x.via) = Needs(x.op) => x.allowed
    /\ x.pc \in Inside \cup {"done"} => x.allowed

(* Whoever has not finished now had not when the request looked, and one   *)
(* form of the portal is served at a time.                                 *)
OthersInv(q) ==
    request[q].pc \in Inside =>
        /\ Unfinished \ {q} \subseteq request[q].others
        /\ \A o \in Requests \ {q} :
              request[o].pc \in Inside => Beside(request[q], request[o])

(* Rows a deletion takes along were made beside it.                        *)
DeleteInv(q) ==
    LET x == request[q] IN
    /\ x.pc = "gather" =>
          \A row \in assigned : row.role = x.op.role => row.by \in x.others
    /\ x.pc = "write" /\ x.op.kind = "deleteRole" => \A row \in x.rows : row.by \in x.others

(* The rival of an assignment: one for the same user that is done.         *)
Rival(q, o) ==
    /\ request[o].pc = "done" /\ request[o].op.kind = "assignRoles"
    /\ request[o].op.user = request[q].op.user
    /\ Beside(request[q], request[o])

AssignInv(q) ==
    LET x == request[q] IN
    x.pc = "write" /\ x.op.kind = "assignRoles" =>
        \/ {row \in assigned : row.user = x.op.user} \subseteq x.rows
        \/ \E o \in x.others : Rival(q, o)

(* Bindings an update did not load, and a role that was activated since.   *)
UpdateInv(q) ==
    LET x == request[q]
        r == x.op.role
    IN  x.pc = "write" /\ x.op.kind = "updateRole" =>
            /\ r < nextRole
            /\ \A b \in role[r].grants \ x.seen.grants :
                  \E o \in Merged(q, r) \ {q} : b[1] \in request[o].op.grants
            /\ role[r].active /\ ~x.seen.active =>
                  \E o \in Merged(q, r) \ {q} : request[o].op.active

QInv(q) ==
    RequestInv(q) /\ OthersInv(q) /\ DeleteInv(q) /\ AssignInv(q) /\ UpdateInv(q)

(* A session is kept by a process that runs, for an account that exists.   *)
SessionInv ==
    \A t \in Tokens : session[t] # None => Up(session[t].at) /\ user[Root] # "absent"

RootInv == user[Root] = "absent" => \A u \in Users : user[u] = "absent"

(* Ids are not used twice.                                                 *)
StoreInv == \A r \in Roles : r >= nextRole => role[r] = NoRole

(* What the reserved role lacks, a revision still to come will bind.       *)
CompleteInv ==
    ~edited =>
        \A r \in Roles : role[r].code = SystemAdmin =>
            /\ role[r].active
            /\ Bound(role[r].grants) \subseteq permission
            /\ Permissions \ Bound(role[r].grants) \subseteq BackfilledIn(revision, Head)

(* The reserved name goes with the reserved code.                          *)
NameInv ==
    ~rekeyed =>
        \A r \in Roles : role[r].name = SystemAdminName => role[r].code = SystemAdmin

(* What a bootstrap found missing, and that it is missing still if the     *)
(* bootstrap did not race.                                                 *)
StartInv(p) ==
    LET x == process[p] IN
    /\ x.pc \in {"role", "admin", "write"} => Permissions \ x.lacks \subseteq permission
    /\ p \notin raced =>
          /\ x.pc \in {"role", "admin", "write"} => x.lacks \cap permission = {}
          /\ x.pc \in {"admin", "write"} =>
                IF x.found = 0 THEN RoleMissing ELSE role[x.found].code = SystemAdmin
          /\ x.pc = "write" /\ x.fresh => user[Root] = "absent"
    /\ x.cause = "key" => rekeyed \/ p \in raced

IInv ==
    /\ TypeOK /\ StoreInv /\ CompleteInv /\ NameInv /\ SessionInv /\ RootInv
    /\ \A p \in Processes : StartInv(p)
    /\ \A q \in Requests : QInv(q)

-----------------------------------------------------------------------------
(* What the fields of an operation are.                                    *)
LEMMA OperationFields ==
    ASSUME NEW op \in Operations
    PROVE  /\ op.kind = "createRole" =>
                 /\ op.code \in Codes /\ op.name \in Names /\ op.active \in BOOLEAN
                 /\ op.grants \subseteq Permissions
           /\ op.kind = "updateRole" =>
                 /\ op.role \in Roles /\ op.code \in Codes /\ op.name \in Names
                 /\ op.active \in BOOLEAN /\ op.grants \subseteq Permissions
           /\ op.kind \in {"deactivateRole", "deleteRole"} => op.role \in Roles
           /\ op.kind = "assignRoles" => op.user \in Users /\ op.roles \subseteq Roles
           /\ op.kind \in {"createRole", "updateRole", "deactivateRole", "deleteRole",
                           "assignRoles"}
<1>1. op \in Operation
  BY OperationAssumption
<1>2. CASE op \in [kind : {"createRole"}, code : Codes, name : Names, active : BOOLEAN,
                   grants : SUBSET Permissions]
  BY <1>2
<1>3. CASE op \in [kind : {"updateRole"}, role : Roles, code : Codes, name : Names,
                   active : BOOLEAN, grants : SUBSET Permissions]
  BY <1>3
<1>4. CASE op \in [kind : {"deactivateRole", "deleteRole"}, role : Roles]
  BY <1>4
<1>5. CASE op \in [kind : {"assignRoles"}, user : Users, roles : SUBSET Roles]
  BY <1>5
<1>6. QED
  BY <1>1, <1>2, <1>3, <1>4, <1>5 DEF Operation

(* The fields of a row of roles.                                           *)
LEMMA RowFields ==
    ASSUME NEW row \in RoleRow \cup {NoRole}
    PROVE  /\ row.active \in BOOLEAN
           /\ row.grants \subseteq Permissions \X Makers
           /\ row # NoRole => row \in RoleRow /\ row.code \in Codes /\ row.name \in Names
           /\ row = NoRole =>
                 /\ row.code = None /\ row.name = None /\ ~row.active /\ row.grants = {}
                 /\ row.code # SystemAdmin /\ row.name # SystemAdminName
<1>1. CASE row \in RoleRow
  <2>1. row.code \in Codes /\ row.code # None
    BY <1>1, IdentityAssumption DEF RoleRow
  <2>2. row # NoRole
    BY <2>1 DEF NoRole
  <2>3. QED
    BY <1>1, <2>1, <2>2 DEF RoleRow
<1>2. CASE row = NoRole
  BY <1>2, IdentityAssumption DEF NoRole
<1>3. QED
  BY <1>1, <1>2

LEMMA BindingFields ==
    ASSUME NEW S, NEW T, NEW b \in S \X T
    PROVE  b[1] \in S /\ b[2] \in T /\ b = <<b[1], b[2]>>
OBVIOUS

(* The state of a request that is over, and of one that is not begun.      *)
LEMMA RequestRows ==
    ASSUME NEW x \in RequestRow, NEW how \in Final
    PROVE  /\ Idle \in RequestRow
           /\ Ended(x, how) \in RequestRow
           /\ Ended(x, how).pc = how
           /\ how = "done" =>
                 /\ Ended(x, how).op = x.op /\ Ended(x, how).via = x.via
                 /\ Ended(x, how).at = x.at
                 /\ Ended(x, how).others = x.others /\ Ended(x, how).allowed = x.allowed
BY DEF RequestRow, Idle, Ended, Final, NoRole

-----------------------------------------------------------------------------
(* The steps of a request, sorted: it arrives, it looks, or it writes.     *)
Alone(a) ==
    /\ request' = [request EXCEPT ![a] = request'[a]]
    /\ request'[a] \in RequestRow
    /\ request[a].pc \notin Final
    /\ UNCHANGED <<permission, user, process, session>>

Arrives(a) ==
    LET y == request'[a] IN
    /\ Alone(a) /\ UNCHANGED tables
    /\ y.pc = "granted" /\ y.op \in Operations
    /\ y.at \in Processes /\ Up(y.at) /\ user[Root] # "absent"
    /\ RouteNeeds(y.op, y.via) = Needs(y.op) => y.allowed

Looks(a) ==
    LET x == request[a]
        y == request'[a]
    IN  /\ Alone(a) /\ UNCHANGED tables
        /\ x.pc \in {"granted", "check", "gather"}
        /\ \/ y.pc = "refused"
           \/ /\ y.pc \in Inside /\ y.op \in Operations /\ y.allowed
              /\ y.op = x.op /\ y.via = x.via /\ y.at = x.at
              /\ Unfinished \ {a} \subseteq y.others
              /\ x.pc = "granted" => LoopIsFree(a)
              /\ y.pc \in {"check", "gather"} => y.op.kind = "deleteRole"
              /\ y.pc = "gather" => \A row \in assigned : row.role # y.op.role
              /\ y.pc = "write" /\ y.op.kind = "deleteRole" =>
                    /\ x.pc = "gather" /\ y.others = x.others
                    /\ y.rows = {row \in assigned : row.role = y.op.role}
              /\ y.pc = "write" /\ y.op.kind = "updateRole" =>
                    Live(y.op.role) /\ y.seen = role[y.op.role]
              /\ y.pc = "write" /\ y.op.kind = "assignRoles" =>
                    y.rows = {row \in assigned : row.user = y.op.user}

Creates(a) ==
    LET op == request[a].op IN
    /\ op.kind = "createRole" /\ nextRole \in Roles
    /\ KeysFree(None, op.code, op.name)
    /\ role' = [role EXCEPT ![nextRole] =
          [code |-> op.code, name |-> op.name, active |-> op.active, grants |-> op.grants \X {a}]]
    /\ nextRole' = nextRole + 1
    /\ UNCHANGED assigned

Updates(a) ==
    LET op == request[a].op IN
    /\ op.kind = "updateRole" /\ Live(op.role)
    /\ role' = [role EXCEPT ![op.role] = Updated(a)]
    /\ UNCHANGED <<nextRole, assigned>>

Drops(a) ==
    LET op == request[a].op IN
    /\ \/ /\ op.kind = "deactivateRole" /\ Live(op.role)
          /\ role' = [role EXCEPT ![op.role].active = FALSE]
          /\ UNCHANGED assigned
       \/ /\ op.kind = "deleteRole"
          /\ role' = [role EXCEPT ![op.role] = NoRole]
          /\ assigned' = assigned \ request[a].rows
    /\ UNCHANGED nextRole

Assigns(a) ==
    LET op == request[a].op IN
    /\ op.kind = "assignRoles"
    /\ assigned' = (assigned \ request[a].rows)
                       \cup [user : {op.user}, role : op.roles, by : {a}]
    /\ UNCHANGED <<role, nextRole>>

Writes(a) ==
    LET x == request[a]
        y == request'[a]
    IN  /\ Alone(a)
        /\ x.pc = "write" /\ x.op \in Operations
        /\ y.pc \in {"done", "failed"}
        /\ y.pc = "done" => /\ y.op = x.op /\ y.via = x.via /\ y.at = x.at
                            /\ y.others = x.others /\ y.allowed = x.allowed
        /\ \/ /\ UNCHANGED tables
              /\ y.pc = "done" => x.op.kind = "updateRole"
           \/ /\ y.pc = "done"
              /\ Creates(a) \/ Updates(a) \/ Drops(a) \/ Assigns(a)

(* What comes of a handler that starts: it goes on to `next`, or refuses.  *)
Entered(a, kind, next, seen, rows) ==
    LET x == request[a]
        y == request'[a]
    IN  /\ Alone(a) /\ UNCHANGED tables
        /\ x.pc = "granted" /\ x.op \in Operations /\ x.op.kind = kind
        /\ \/ y.pc = "refused"
           \/ /\ next # "refused" /\ y.pc = next /\ y.allowed
              /\ y.op = x.op /\ y.via = x.via /\ y.at = x.at
              /\ y.seen = seen /\ y.rows = rows
              /\ y.others = Unfinished \ {a}
              /\ LoopIsFree(a)

LEMMA Entering ==
    ASSUME NEW a \in Requests, TypeOK, RequestInv(a),
           NEW kind, NEW next \in {"write", "check", "refused"},
           NEW seen \in RoleRow \cup {NoRole},
           NEW rows \in SUBSET [user : Users, role : Roles, by : Makers],
           Enter(a, kind, next, seen, rows)
    PROVE  Entered(a, kind, next, seen, rows)
<1>1. /\ request \in [Requests -> RequestRow] /\ request[a] \in RequestRow
      /\ request[a].pc = "granted" /\ request[a].op.kind = kind
      /\ request[a].op \in Operations /\ LoopIsFree(a)
      /\ UNCHANGED <<tables, process, session>>
  BY DEF Enter, TypeOK, AccessTypeOK, RequestInv, UnderWay
<1>2. CASE BranchAllows(a) /\ next # "refused"
  <2> DEFINE held == Needs(request[a].op) \in Granted(request[a].who)
             w == [request[a] EXCEPT
                     !.pc = next, !.who = None, !.seen = seen, !.rows = rows,
                     !.others = Unfinished \ {a}, !.allowed = TRUE]
  <2>1. (IF held THEN TRUE ELSE request[a].allowed) = TRUE
    <3>1. CASE RouteNeeds(request[a].op, request[a].via) = Needs(request[a].op)
      BY <3>1, <1>1 DEF RequestInv, RequestRow
    <3>2. CASE RouteNeeds(request[a].op, request[a].via) # Needs(request[a].op)
      BY <3>2, <1>1, <1>2 DEF BranchAllows, RequestRow
    <3>3. QED
      BY <3>1, <3>2
  <2>2. request' = [request EXCEPT ![a] = w]
    <3>1. request' = [request EXCEPT ![a] =
             [request[a] EXCEPT
                !.pc = next, !.who = None, !.seen = seen, !.rows = rows,
                !.others = Unfinished \ {a},
                !.allowed = IF held THEN TRUE ELSE request[a].allowed]]
      BY <1>2 DEF Enter
    <3>2. QED
      BY <2>1, <3>1
  <2>3. w \in RequestRow
    <3>1. Unfinished \ {a} \in SUBSET Requests
      BY DEF Unfinished
    <3>2. /\ w.pc \in {"idle", "granted", "check", "gather", "write"} \cup Final
          /\ w.who \in Users \cup {None}
      BY <1>1 DEF RequestRow, Final
    <3>3. /\ w.op \in Operations \cup {None} /\ w.via \in {"api", "portal"}
          /\ w.at \in Processes \cup {None}
          /\ w.seen \in RoleRow \cup {NoRole}
          /\ w.rows \in SUBSET [user : Users, role : Roles, by : Makers]
          /\ w.others \in SUBSET Requests /\ w.allowed \in BOOLEAN
      BY <1>1, <3>1 DEF RequestRow
    <3>4. QED
      BY <1>1, <3>2, <3>3 DEF RequestRow
  <2>4. request'[a] = w
    BY <1>1, <2>2
  <2>5. /\ w.pc = next /\ w.op = request[a].op /\ w.via = request[a].via
        /\ w.at = request[a].at
        /\ w.seen = seen /\ w.rows = rows /\ w.others = Unfinished \ {a} /\ w.allowed
    BY <1>1 DEF RequestRow
  <2> HIDE DEF w
  <2>6. Alone(a)
    BY <1>1, <2>2, <2>3, <2>4 DEF Alone, Final, tables
  <2>7. QED
    BY <1>1, <1>2, <2>4, <2>5, <2>6 DEF Entered
<1>3. CASE ~(BranchAllows(a) /\ next # "refused")
  <2>1. request' = [request EXCEPT ![a] = Ended(request[a], "refused")]
    BY <1>3 DEF Enter
  <2>2. /\ Ended(request[a], "refused") \in RequestRow
        /\ Ended(request[a], "refused").pc = "refused"
    BY <1>1, RequestRows DEF Final
  <2>3. Alone(a) /\ request'[a].pc = "refused"
    BY <1>1, <2>1, <2>2 DEF Alone, Final, tables
  <2>4. QED
    BY <1>1, <2>3 DEF Entered
<1>4. QED
  BY <1>2, <1>3

(* A write ends the request.                                               *)
LEMMA Answering ==
    ASSUME NEW a \in Requests, TypeOK, RequestInv(a), request[a].pc = "write",
           NEW how \in {"done", "failed"}, Answer(a, how)
    PROVE  /\ Alone(a) /\ request[a].op \in Operations
           /\ request'[a] = Ended(request[a], how) /\ request'[a].pc = how
           /\ how = "done" =>
                /\ request'[a].op = request[a].op /\ request'[a].via = request[a].via
                /\ request'[a].at = request[a].at
                /\ request'[a].others = request[a].others
                /\ request'[a].allowed = request[a].allowed
<1>1. request \in [Requests -> RequestRow] /\ request[a] \in RequestRow
  BY DEF TypeOK, AccessTypeOK
<1>2. request[a].op \in Operations
  BY DEF RequestInv, UnderWay, Inside
<1>3. /\ request' = [request EXCEPT ![a] = Ended(request[a], how)]
      /\ UNCHANGED <<permission, user, process, session>>
  BY DEF Answer
<1>4. request'[a] = Ended(request[a], how)
  BY <1>1, <1>3
<1>5. QED
  BY <1>1, <1>2, <1>3, <1>4, RequestRows DEF Alone, Final

LEMMA Arriving ==
    ASSUME NEW a \in Requests, TypeOK, SessionInv, Authorize(a)
    PROVE  Arrives(a)
<1> DEFINE Sessions == [user : Users, at : Processes]
<1>1. request \in [Requests -> RequestRow] /\ session \in [Tokens -> Sessions \cup {None}]
  BY DEF TypeOK, AccessTypeOK
<1>2. PICK t \in Tokens, op \in Operations, via \in {"api", "portal"} :
         /\ request[a].pc = "idle" /\ session[t] # None
         /\ RouteNeeds(op, via) \in Granted(session[t].user)
         /\ request' = [request EXCEPT ![a] =
               [Idle EXCEPT !.pc = "granted", !.op = op, !.via = via,
                            !.at = session[t].at, !.who = session[t].user,
                            !.allowed = Needs(op) \in Granted(session[t].user)]]
         /\ UNCHANGED <<tables, process, session>>
  BY DEF Authorize
<1> DEFINE held == Needs(op) \in Granted(session[t].user)
           place == session[t].at
           who == session[t].user
           w == [Idle EXCEPT !.pc = "granted", !.op = op, !.via = via, !.at = place,
                             !.who = who, !.allowed = held]
<1>3. request'[a] = w /\ request' = [request EXCEPT ![a] = w]
  BY <1>1, <1>2
<1>4. place \in Processes /\ who \in Users /\ Up(place) /\ user[Root] # "absent"
  <2>1. session[t] \in Sessions
    BY <1>1, <1>2
  <2>2. QED
    BY <1>2, <2>1 DEF SessionInv
<1>5. held \in BOOLEAN /\ (RouteNeeds(op, via) = Needs(op) => held)
  BY <1>2
<1> HIDE DEF held, place, who, Sessions
<1>6. /\ w.pc = "granted" /\ w.op = op /\ w.via = via /\ w.at = place /\ w.who = who
      /\ w.seen = NoRole /\ w.rows = {} /\ w.others = {} /\ w.allowed = held
  BY DEF Idle
<1>7. w \in RequestRow
  BY <1>4, <1>5 DEF RequestRow, Idle
<1> HIDE DEF w
<1>8. Alone(a)
  BY <1>2, <1>3, <1>7 DEF Alone, Final, tables
<1>9. QED
  BY <1>2, <1>3, <1>4, <1>5, <1>6, <1>8 DEF Arrives

(* A handler starts: the reads of the five operations.                     *)
LEMMA Looking ==
    ASSUME NEW a \in Requests, TypeOK, RequestInv(a),
           \/ CreateRoleCheck(a) \/ UpdateRoleLoad(a) \/ DeactivateRoleLoad(a)
           \/ DeleteRoleLoad(a) \/ AssignRolesLoad(a)
    PROVE  Looks(a)
<1>1. /\ role \in [Roles -> RoleRow \cup {NoRole}]
      /\ assigned \subseteq [user : Users, role : Roles, by : Makers]
  BY DEF TypeOK, StoreTypeOK
<1>2. NoRole \in RoleRow \cup {NoRole}
  OBVIOUS
<1> DEFINE op == request[a].op
<1>3. ASSUME request[a].pc = "granted" PROVE op \in Operations
  BY <1>3 DEF RequestInv, UnderWay
<1>4. CASE CreateRoleCheck(a)
  <2> DEFINE next == IF KeysFree(None, op.code, op.name) /\ op.grants \subseteq permission
                     THEN "write" ELSE "refused"
  <2>1. Enter(a, "createRole", next, NoRole, {})
    BY <1>4 DEF CreateRoleCheck
  <2>2. next \in {"write", "check", "refused"} /\ next # "check"
    OBVIOUS
  <2> HIDE DEF next
  <2>3. Entered(a, "createRole", next, NoRole, {})
    BY <2>1, <2>2, <1>2, Entering
  <2>4. QED
    BY <2>2, <2>3 DEF Entered, Looks, Inside
<1>5. CASE UpdateRoleLoad(a)
  <2> DEFINE next == IF Live(op.role) /\ KeysFree(op.role, op.code, op.name)
                        /\ op.grants \subseteq permission
                     THEN "write" ELSE "refused"
  <2>1. Enter(a, "updateRole", next, role[op.role], {})
    BY <1>5 DEF UpdateRoleLoad
  <2>2. request[a].pc = "granted" /\ op.kind = "updateRole"
    BY <2>1 DEF Enter
  <2>3. role[op.role] \in RoleRow \cup {NoRole}
    BY <1>1, <1>3, <2>2, OperationFields
  <2>4. /\ next \in {"write", "check", "refused"}
        /\ next # "refused" => next = "write" /\ Live(op.role)
    OBVIOUS
  <2> HIDE DEF next, op
  <2>5. Entered(a, "updateRole", next, role[op.role], {})
    BY <2>1, <2>3, <2>4, Entering
  <2>6. QED
    BY <2>3, <2>4, <2>5 DEF Entered, Looks, Inside, op
<1>6. CASE DeactivateRoleLoad(a)
  <2> DEFINE next == IF role[op.role].active
                     THEN "write" ELSE "refused"
  <2>1. Enter(a, "deactivateRole", next, role[op.role], {})
    BY <1>6 DEF DeactivateRoleLoad
  <2>2. request[a].pc = "granted" /\ op.kind = "deactivateRole"
    BY <2>1 DEF Enter
  <2>3. role[op.role] \in RoleRow \cup {NoRole}
    BY <1>1, <1>3, <2>2, OperationFields
  <2>4. /\ next \in {"write", "check", "refused"}
        /\ next # "refused" => next = "write"
    OBVIOUS
  <2> HIDE DEF next
  <2>5. Entered(a, "deactivateRole", next, role[op.role], {})
    BY <2>1, <2>3, <2>4, Entering
  <2>6. QED
    BY <2>3, <2>4, <2>5 DEF Entered, Looks, Inside
<1>7. CASE DeleteRoleLoad(a)
  <2> DEFINE next == IF Live(op.role) /\ role[op.role].code # SystemAdmin
                     THEN "check" ELSE "refused"
  <2>1. Enter(a, "deleteRole", next, role[op.role], {})
    BY <1>7 DEF DeleteRoleLoad
  <2>2. request[a].pc = "granted" /\ op.kind = "deleteRole"
    BY <2>1 DEF Enter
  <2>3. role[op.role] \in RoleRow \cup {NoRole}
    BY <1>1, <1>3, <2>2, OperationFields
  <2>4. /\ next \in {"write", "check", "refused"}
        /\ next # "refused" => next = "check"
    OBVIOUS
  <2> HIDE DEF next
  <2>5. Entered(a, "deleteRole", next, role[op.role], {})
    BY <2>1, <2>3, <2>4, Entering
  <2>6. QED
    BY <2>3, <2>4, <2>5 DEF Entered, Looks, Inside
<1>8. CASE AssignRolesLoad(a)
  <2> DEFINE rows == {row \in assigned : row.user = op.user}
  <2> DEFINE next == IF user[op.user] # "absent" /\ \A r \in op.roles : role[r].active
                     THEN "write" ELSE "refused"
  <2>1. Enter(a, "assignRoles", next, NoRole, rows)
    BY <1>8 DEF AssignRolesLoad
  <2>2. rows \in SUBSET [user : Users, role : Roles, by : Makers]
    BY <1>1
  <2>3. next \in {"write", "check", "refused"} /\ next # "check"
    OBVIOUS
  <2> HIDE DEF rows, next
  <2>4. Entered(a, "assignRoles", next, NoRole, rows)
    BY <2>1, <2>2, <2>3, <1>2, Entering
  <2>5. QED
    BY <2>2, <2>3, <2>4 DEF Entered, Looks, Inside, rows
<1>9. QED
  BY <1>4, <1>5, <1>6, <1>7, <1>8

(* The two further reads of a deletion.                                    *)
LEMMA LookingOn ==
    ASSUME NEW a \in Requests, TypeOK, RequestInv(a), OthersInv(a),
           DeleteRoleCheck(a) \/ DeleteRoleGather(a)
    PROVE  Looks(a)
<1>1. /\ request \in [Requests -> RequestRow] /\ request[a] \in RequestRow
      /\ assigned \subseteq [user : Users, role : Roles, by : Makers]
  BY DEF TypeOK, AccessTypeOK, StoreTypeOK
<1> DEFINE op == request[a].op
<1>2. ASSUME request[a].pc \in {"check", "gather"}
      PROVE  op \in Operations /\ op.kind = "deleteRole" /\ request[a].allowed
  BY <1>2 DEF RequestInv, UnderWay, Inside
<1>3. CASE DeleteRoleCheck(a)
  <2>1. request[a].pc = "check" /\ UNCHANGED <<tables, process, session>>
    BY <1>3 DEF DeleteRoleCheck
  <2>2. CASE \E row \in assigned : row.role = op.role
    <3>1. request' = [request EXCEPT ![a] = Ended(request[a], "refused")]
      BY <1>3, <2>2 DEF DeleteRoleCheck
    <3>2. /\ Ended(request[a], "refused") \in RequestRow
          /\ Ended(request[a], "refused").pc = "refused"
      BY <1>1, RequestRows DEF Final
    <3>3. QED
      BY <1>1, <1>2, <2>1, <3>1, <3>2 DEF Looks, Alone, Final, tables
  <2>3. CASE ~\E row \in assigned : row.role = op.role
    <3> DEFINE w == [request[a] EXCEPT !.pc = "gather", !.others = Unfinished \ {a}]
    <3>1. request' = [request EXCEPT ![a] = w] /\ request'[a] = w
      BY <1>1, <1>3, <2>3 DEF DeleteRoleCheck
    <3>2. /\ w \in RequestRow /\ w.pc = "gather" /\ w.op = op /\ w.via = request[a].via
          /\ w.at = request[a].at
          /\ w.others = Unfinished \ {a} /\ w.allowed = request[a].allowed
      <4>1. Unfinished \ {a} \in SUBSET Requests
        BY DEF Unfinished
      <4>2. QED
        BY <1>1, <4>1 DEF RequestRow
    <3> HIDE DEF w
    <3>3. Alone(a)
      BY <1>1, <1>2, <2>1, <3>1, <3>2 DEF Alone, Final, tables
    <3>4. QED
      BY <1>2, <2>1, <2>3, <3>1, <3>2, <3>3 DEF Looks, Inside
  <2>4. QED
    BY <2>2, <2>3
<1>4. CASE DeleteRoleGather(a)
  <2> DEFINE rows == {row \in assigned : row.role = op.role}
             w == [request[a] EXCEPT !.pc = "write", !.rows = rows]
  <2>1. /\ request[a].pc = "gather" /\ UNCHANGED <<tables, process, session>>
        /\ request' = [request EXCEPT ![a] = w]
    BY <1>1, <1>4 DEF DeleteRoleGather
  <2>2. rows \in SUBSET [user : Users, role : Roles, by : Makers]
    BY <1>1
  <2>3. /\ w \in RequestRow /\ w.pc = "write" /\ w.op = op /\ w.via = request[a].via
        /\ w.at = request[a].at
        /\ w.rows = rows /\ w.others = request[a].others /\ w.allowed = request[a].allowed
    <3> HIDE DEF rows
    <3>1. QED
      BY <1>1, <2>2 DEF RequestRow
  <2>4. request'[a] = w
    BY <1>1, <2>1
  <2> HIDE DEF w
  <2>5. Alone(a)
    BY <1>1, <1>2, <2>1, <2>3, <2>4 DEF Alone, Final, tables
  <2>6. Unfinished \ {a} \subseteq request[a].others
    BY <2>1 DEF OthersInv, Inside
  <2>7. QED
    BY <1>2, <2>1, <2>3, <2>4, <2>5, <2>6 DEF Looks, Inside
<1>5. QED
  BY <1>3, <1>4

(* The end of a handler: the writes of the five operations, or an error.   *)
LEMMA Finishing ==
    ASSUME NEW a \in Requests, TypeOK, RequestInv(a),
           \/ CreateRoleWrite(a) \/ UpdateRoleWrite(a) \/ DeactivateRoleWrite(a)
           \/ DeleteRoleWrite(a) \/ AssignRolesWrite(a) \/ StatementFails(a)
    PROVE  Writes(a)
<1> DEFINE op == request[a].op
<1>1. request[a].pc = "write"
  BY DEF CreateRoleWrite, UpdateRoleWrite, DeactivateRoleWrite, DeleteRoleWrite,
         AssignRolesWrite, StatementFails, Writing
<1>2. ASSUME Answer(a, "failed"), UNCHANGED <<role, nextRole, assigned>>
      PROVE  Writes(a)
  BY <1>1, <1>2, Answering DEF Writes, tables, Alone
<1>3. ASSUME Answer(a, "done"), Creates(a) \/ Updates(a) \/ Drops(a) \/ Assigns(a)
      PROVE  Writes(a)
  BY <1>1, <1>3, Answering DEF Writes
<1>4. CASE CreateRoleWrite(a)
  <2>1. /\ op.kind = "createRole" /\ nextRole \in Roles /\ UNCHANGED assigned
        /\ \/ Answer(a, "failed") /\ UNCHANGED <<role, nextRole>>
           \/ /\ Answer(a, "done") /\ KeysFree(None, op.code, op.name)
              /\ role' = [role EXCEPT ![nextRole] =
                    [code |-> op.code, name |-> op.name, active |-> op.active,
                     grants |-> op.grants \X {a}]]
              /\ nextRole' = nextRole + 1
    BY <1>4 DEF CreateRoleWrite, Writing
  <2>2. QED
    BY <1>2, <1>3, <2>1 DEF Creates
<1>5. CASE UpdateRoleWrite(a)
  <2>1. /\ op.kind = "updateRole" /\ UNCHANGED <<nextRole, assigned>>
        /\ \/ Answer(a, "failed") /\ UNCHANGED role
           \/ Answer(a, "done") /\ UNCHANGED role
           \/ Answer(a, "done") /\ Live(op.role) /\ role' = [role EXCEPT ![op.role] = Updated(a)]
    BY <1>5 DEF UpdateRoleWrite, Writing
  <2>2. CASE Answer(a, "done") /\ UNCHANGED role
    BY <1>1, <2>1, <2>2, Answering DEF Writes, Alone, tables
  <2>3. QED
    BY <1>2, <1>3, <2>1, <2>2 DEF Updates
<1>6. CASE DeactivateRoleWrite(a)
  <2>1. /\ op.kind = "deactivateRole" /\ UNCHANGED <<nextRole, assigned>>
        /\ \/ Answer(a, "failed") /\ UNCHANGED role
           \/ /\ Answer(a, "done") /\ Live(op.role)
              /\ role' = [role EXCEPT ![op.role].active = FALSE]
    BY <1>6 DEF DeactivateRoleWrite, Writing
  <2>2. QED
    BY <1>2, <1>3, <2>1 DEF Drops
<1>7. CASE DeleteRoleWrite(a)
  <2>1. /\ op.kind = "deleteRole" /\ UNCHANGED nextRole
        /\ \/ Answer(a, "failed") /\ UNCHANGED <<role, assigned>>
           \/ /\ Answer(a, "done")
              /\ role' = [role EXCEPT ![op.role] = NoRole]
              /\ assigned' = assigned \ request[a].rows
    BY <1>7 DEF DeleteRoleWrite, Writing
  <2>2. QED
    BY <1>2, <1>3, <2>1 DEF Drops
<1>8. CASE AssignRolesWrite(a)
  <2>1. /\ op.kind = "assignRoles" /\ UNCHANGED <<role, nextRole>>
        /\ \/ Answer(a, "failed") /\ UNCHANGED assigned
           \/ /\ Answer(a, "done")
              /\ assigned' = (assigned \ request[a].rows)
                                \cup [user : {op.user}, role : op.roles, by : {a}]
    BY <1>8 DEF AssignRolesWrite, Writing
  <2>2. QED
    BY <1>2, <1>3, <2>1 DEF Assigns
<1>9. CASE StatementFails(a)
  BY <1>2, <1>9 DEF StatementFails
<1>10. QED
  BY <1>4, <1>5, <1>6, <1>7, <1>8, <1>9

LEMMA Steps ==
    ASSUME NEW a \in Requests, TypeOK, SessionInv, RequestInv(a), OthersInv(a), AccessStep(a)
    PROVE  Arrives(a) \/ Looks(a) \/ Writes(a)
BY Arriving, Looking, LookingOn, Finishing DEF AccessStep

-----------------------------------------------------------------------------
(* The tables after a write.                                               *)
LEMMA UpdatedRow ==
    ASSUME NEW a \in Requests, TypeOK, request[a].op \in Operations,
           request[a].op.kind = "updateRole", Live(request[a].op.role)
    PROVE  Updated(a) \in RoleRow
<1> DEFINE op == request[a].op
           now == role[op.role]
<1>1. /\ op.role \in Roles /\ op.code \in Codes /\ op.name \in Names
      /\ op.active \in BOOLEAN /\ op.grants \subseteq Permissions
  BY OperationFields
<1>2. now \in RoleRow
  BY <1>1 DEF TypeOK, StoreTypeOK, Live
<1>3. now.code \in Codes /\ now.name \in Names /\ now.active \in BOOLEAN
      /\ now.grants \subseteq Permissions \X Makers
  BY <1>2 DEF RoleRow
<1>4. op.grants \X {a} \subseteq Permissions \X Makers
  BY <1>1 DEF Makers
<1> DEFINE row == Updated(a)
<1>5. /\ Column(request[a].seen.code, op.code, now.code) \in Codes
      /\ Column(request[a].seen.name, op.name, now.name) \in Names
      /\ Column(request[a].seen.active, op.active, now.active) \in BOOLEAN
  BY <1>1, <1>3 DEF Column
<1>6. (now.grants \ request[a].seen.grants) \cup (op.grants \X {a})
        \in SUBSET (Permissions \X Makers)
  BY <1>3, <1>4
<1>7. row = [code |-> Column(request[a].seen.code, op.code, now.code),
             name |-> Column(request[a].seen.name, op.name, now.name),
             active |-> Column(request[a].seen.active, op.active, now.active),
             grants |-> (now.grants \ request[a].seen.grants) \cup (op.grants \X {a})]
  BY DEF Updated
<1> HIDE DEF op, now, row
<1>8. row \in RoleRow
  BY <1>5, <1>6, <1>7 DEF RoleRow
<1>9. QED
  BY <1>8 DEF row

LEMMA DroppedRow ==
    ASSUME NEW row \in RoleRow
    PROVE  [row EXCEPT !.active = FALSE] \in RoleRow
BY DEF RoleRow

LEMMA CreatedRow ==
    ASSUME NEW a \in Requests, NEW op \in Operations, op.kind = "createRole"
    PROVE  [code |-> op.code, name |-> op.name, active |-> op.active,
            grants |-> op.grants \X {a}] \in RoleRow
<1>1. /\ op.code \in Codes /\ op.name \in Names /\ op.active \in BOOLEAN
      /\ op.grants \X {a} \in SUBSET (Permissions \X Makers)
  BY OperationFields DEF Makers
<1>2. QED
  BY <1>1 DEF RoleRow

LEMMA WriteTables ==
    ASSUME NEW a \in Requests, TypeOK, StoreInv, Writes(a)
    PROVE  StoreTypeOK' /\ StoreInv'
<1> DEFINE op == request[a].op
<1>1. /\ role \in [Roles -> RoleRow \cup {NoRole}] /\ nextRole \in 1..(MaxRoles + 1)
      /\ assigned \subseteq [user : Users, role : Roles, by : Makers]
      /\ op \in Operations /\ MaxRoles \in Nat
  BY IdentityAssumption DEF TypeOK, StoreTypeOK, Writes
<1>2. UNCHANGED <<permission, user, process>>
  BY DEF Writes, Alone
<1>3. SUFFICES /\ role' \in [Roles -> RoleRow \cup {NoRole}]
               /\ nextRole' \in 1..(MaxRoles + 1)
               /\ assigned' \subseteq [user : Users, role : Roles, by : Makers]
               /\ StoreInv'
  BY <1>2 DEF TypeOK, StoreTypeOK
<1>4. CASE UNCHANGED tables
  BY <1>1, <1>4 DEF tables, StoreInv
<1>5. CASE Creates(a)
  <2>1. nextRole' \in 1..(MaxRoles + 1) /\ UNCHANGED assigned
    BY <1>1, <1>5 DEF Creates, Roles
  <2>2. role' \in [Roles -> RoleRow \cup {NoRole}]
    <3> DEFINE row == [code |-> op.code, name |-> op.name, active |-> op.active,
                       grants |-> op.grants \X {a}]
    <3>1. row \in RoleRow
      BY <1>1, <1>5, CreatedRow DEF Creates
    <3>2. role' = [role EXCEPT ![nextRole] = row]
      BY <1>5 DEF Creates
    <3> HIDE DEF row
    <3>3. QED
      BY <1>1, <3>1, <3>2
  <2>3. \A r \in Roles : r >= nextRole' => role'[r] = role[r] /\ r >= nextRole
    BY <1>1, <1>5 DEF Creates, Roles
  <2>4. QED
    BY <1>1, <2>1, <2>2, <2>3 DEF StoreInv
<1>6. CASE Updates(a)
  <2>1. op.role \in Roles /\ Updated(a) \in RoleRow /\ role[op.role] # NoRole
    BY <1>1, <1>6, OperationFields, UpdatedRow DEF Updates, Live
  <2>2. role' = [role EXCEPT ![op.role] = Updated(a)] /\ UNCHANGED <<nextRole, assigned>>
    BY <1>6 DEF Updates
  <2>3. QED
    BY <1>1, <2>1, <2>2 DEF StoreInv
<1>7. CASE Drops(a)
  <2>1. op.role \in Roles
    BY <1>1, <1>7, OperationFields DEF Drops
  <2>2. PICK row \in RoleRow \cup {NoRole} :
           /\ role' = [role EXCEPT ![op.role] = row]
           /\ row = NoRole \/ role[op.role] # NoRole
    <3>1. CASE op.kind = "deactivateRole"
      <4>1. role[op.role] \in RoleRow
        BY <1>1, <1>7, <2>1, <3>1 DEF Drops, Live
      <4>2. [role[op.role] EXCEPT !.active = FALSE] \in RoleRow
        BY <4>1, DroppedRow
      <4>3. role' = [role EXCEPT ![op.role] = [role[op.role] EXCEPT !.active = FALSE]]
            /\ role[op.role] # NoRole
        BY <1>7, <3>1 DEF Drops, Live
      <4>4. QED
        BY <4>2, <4>3
    <3>2. CASE op.kind # "deactivateRole"
      BY <1>7, <3>2 DEF Drops
    <3>3. QED
      BY <3>1, <3>2
  <2>3. assigned' \subseteq assigned /\ UNCHANGED nextRole
    BY <1>7 DEF Drops
  <2>4. QED
    BY <1>1, <2>1, <2>2, <2>3 DEF StoreInv
<1>8. CASE Assigns(a)
  <2>1. [user : {op.user}, role : op.roles, by : {a}]
           \subseteq [user : Users, role : Roles, by : Makers]
    BY <1>1, <1>8, OperationFields DEF Assigns, Makers
  <2>2. QED
    BY <1>1, <1>8, <2>1 DEF Assigns, StoreInv
<1>9. QED
  BY <1>4, <1>5, <1>6, <1>7, <1>8 DEF Writes

-----------------------------------------------------------------------------
(* Revisions.                                                              *)
LEMMA Backfilled ==
    ASSUME NEW from \in 0..Head, NEW to \in 0..Head
    PROVE  /\ BackfilledIn(from, to) \subseteq Permissions
           /\ BackfilledIn(to, to) = {}
           /\ from <= to => BackfilledIn(from, Head) = BackfilledIn(from, to) \cup BackfilledIn(to, Head)
<1>1. /\ Backfills \subseteq [revision : 0..Head, permission : Permissions]
      /\ \A x \in Backfills : x.revision \in 0..Head /\ x.permission \in Permissions
  BY DEF Backfills, BackfillUsers, BackfillDepartments, BackfillBlocks, Permissions, Head
<1>2. BackfilledIn(from, to) \subseteq Permissions
  BY <1>1 DEF BackfilledIn
<1>3. BackfilledIn(to, to) = {}
  BY <1>1 DEF BackfilledIn, Head
<1>4. ASSUME from <= to
      PROVE  BackfilledIn(from, Head) = BackfilledIn(from, to) \cup BackfilledIn(to, Head)
  <2>1. \A x \in Backfills : (from < x.revision /\ x.revision <= Head)
           <=> (from < x.revision /\ x.revision <= to) \/ (to < x.revision /\ x.revision <= Head)
    BY <1>1, <1>4 DEF Head
  <2>2. QED
    BY <2>1 DEF BackfilledIn
<1>5. QED
  BY <1>2, <1>3, <1>4

LEMMA Regranted ==
    ASSUME NEW row \in RoleRow, NEW G \in SUBSET (Permissions \X Makers)
    PROVE  /\ [row EXCEPT !.grants = G] \in RoleRow
           /\ [row EXCEPT !.grants = G].grants = G
           /\ [row EXCEPT !.grants = G].code = row.code
           /\ [row EXCEPT !.grants = G].name = row.name
           /\ [row EXCEPT !.grants = G].active = row.active
BY DEF RoleRow

LEMMA BoundProduct ==
    ASSUME NEW S, NEW d
    PROVE  Bound(S \X {d}) = S
<1>1. \A p \in S : <<p, d>> \in S \X {d} /\ <<p, d>>[1] = p
  OBVIOUS
<1>2. \A row \in S \X {d} : row[1] \in S
  OBVIOUS
<1>3. QED
  BY <1>1, <1>2 DEF Bound

(* The rows an upgrade and a downgrade leave.                              *)
LEMMA UpgradedRows ==
    ASSUME TypeOK, Upgrade
    PROVE  LET added == BackfilledIn(revision, Head) IN
           /\ revision' = Head /\ permission' = permission \cup added
           /\ role' \in [Roles -> RoleRow \cup {NoRole}]
           /\ permission' \subseteq Permissions
           /\ \A r \in Roles :
                 /\ role[r].code # SystemAdmin => role'[r] = role[r]
                 /\ role[r].code = SystemAdmin =>
                       /\ role'[r].active = role[r].active /\ role'[r].name = role[r].name
                       /\ role'[r].code = role[r].code
                       /\ Bound(role'[r].grants) = Bound(role[r].grants) \cup added
<1> DEFINE added == BackfilledIn(revision, Head)
           new(r) == added \ Bound(role[r].grants)
           more(r) == {<<p, Deploy>> : p \in new(r)}
<1>1. /\ revision \in 0..Head /\ permission \subseteq Permissions
      /\ role \in [Roles -> RoleRow \cup {NoRole}]
  BY DEF TypeOK, StoreTypeOK, RolloutTypeOK
<1>2. added \subseteq Permissions
  BY <1>1, Backfilled DEF Head
<1>3. /\ revision' = Head /\ permission' = permission \cup added
      /\ role' = [r \in Roles |->
                    IF role[r].code = SystemAdmin
                    THEN [role[r] EXCEPT !.grants = role[r].grants \cup more(r)] ELSE role[r]]
  BY DEF Upgrade
<1>4. ASSUME NEW r \in Roles, role[r].code = SystemAdmin
      PROVE  /\ role'[r] \in RoleRow
             /\ role'[r].active = role[r].active /\ role'[r].name = role[r].name
             /\ role'[r].code = role[r].code
             /\ Bound(role'[r].grants) = Bound(role[r].grants) \cup added
  <2>1. role[r] \in RoleRow /\ role[r].grants \subseteq Permissions \X Makers
    BY <1>1, <1>4, RowFields
  <2>2. more(r) \subseteq Permissions \X Makers
    BY <1>2 DEF Makers
  <2>3. role'[r] = [role[r] EXCEPT !.grants = role[r].grants \cup more(r)]
    BY <1>3, <1>4
  <2>4. Bound(more(r)) = added \ Bound(role[r].grants)
    <3> HIDE DEF new
    <3>1. /\ \A row \in more(r) : row[1] \in new(r)
          /\ \A p \in new(r) : <<p, Deploy>> \in more(r) /\ <<p, Deploy>>[1] = p
      OBVIOUS
    <3> HIDE DEF more
    <3>2. Bound(more(r)) = new(r)
      BY <3>1 DEF Bound
    <3>3. QED
      BY <3>2 DEF new
  <2>5. Bound(role[r].grants \cup more(r)) = Bound(role[r].grants) \cup Bound(more(r))
    <3> HIDE DEF more
    <3>1. QED
      BY DEF Bound
  <2> HIDE DEF more, added
  <2> DEFINE G == role[r].grants \cup more(r)
  <2>6. G \in SUBSET (Permissions \X Makers)
    BY <2>1, <2>2
  <2>7. Bound(G) = Bound(role[r].grants) \cup added
    BY <2>4, <2>5
  <2> HIDE DEF G
  <2>8. /\ [role[r] EXCEPT !.grants = G] \in RoleRow
        /\ [role[r] EXCEPT !.grants = G].grants = G
        /\ [role[r] EXCEPT !.grants = G].code = role[r].code
        /\ [role[r] EXCEPT !.grants = G].name = role[r].name
        /\ [role[r] EXCEPT !.grants = G].active = role[r].active
    BY <2>1, <2>6, Regranted
  <2>9. role'[r] = [role[r] EXCEPT !.grants = G]
    BY <2>3 DEF G
  <2>10. QED
    BY <2>7, <2>8, <2>9
<1>5. \A r \in Roles : role[r].code # SystemAdmin => role'[r] = role[r]
  BY <1>3
<1> HIDE DEF added, more
<1>6. role' \in [Roles -> RoleRow \cup {NoRole}]
  <2>1. \A r \in Roles : role'[r] \in RoleRow \cup {NoRole}
    BY <1>1, <1>4, <1>5
  <2>2. QED
    BY <1>3, <2>1
<1>7. QED
  BY <1>1, <1>2, <1>3, <1>4, <1>5, <1>6 DEF added

LEMMA DowngradedRows ==
    ASSUME TypeOK, Downgrade
    PROVE  LET dropped == BackfilledIn(revision - 1, revision) IN
           /\ revision \in 1..Head /\ revision' = revision - 1
           /\ permission' = permission \ dropped
           /\ role' \in [Roles -> RoleRow \cup {NoRole}]
           /\ \A r \in Roles :
                 /\ role[r] = NoRole => role'[r] = NoRole
                 /\ role'[r].active = role[r].active /\ role'[r].name = role[r].name
                 /\ role'[r].code = role[r].code
                 /\ role'[r].grants \subseteq role[r].grants
                 /\ Bound(role'[r].grants) = Bound(role[r].grants) \ dropped
<1> DEFINE dropped == BackfilledIn(revision - 1, revision)
           kept(r) == {row \in role[r].grants : row[1] \notin dropped}
<1>1. /\ revision \in 0..Head /\ role \in [Roles -> RoleRow \cup {NoRole}]
  BY DEF TypeOK, StoreTypeOK, RolloutTypeOK
<1>2. /\ revision \in 1..Head /\ revision' = revision - 1 /\ permission' = permission \ dropped
      /\ role' = [r \in Roles |-> [role[r] EXCEPT !.grants = kept(r)]]
  BY <1>1, AdministrationAssumption DEF Downgrade, Head
<1>3. ASSUME NEW r \in Roles
      PROVE  /\ role'[r] \in RoleRow \cup {NoRole}
             /\ role[r] = NoRole => role'[r] = NoRole
             /\ role'[r].active = role[r].active /\ role'[r].name = role[r].name
             /\ role'[r].code = role[r].code
             /\ role'[r].grants \subseteq role[r].grants
             /\ Bound(role'[r].grants) = Bound(role[r].grants) \ dropped
  <2>1. role'[r] = [role[r] EXCEPT !.grants = kept(r)]
    BY <1>2
  <2>2. Bound(kept(r)) = Bound(role[r].grants) \ dropped
    <3> HIDE DEF dropped
    <3>1. QED
      BY DEF Bound
  <2>3. kept(r) \subseteq role[r].grants
    OBVIOUS
  <2> HIDE DEF kept, dropped
  <2>4. CASE role[r] = NoRole
    <3>1. kept(r) = {}
      BY <2>3, <2>4 DEF NoRole
    <3>2. role'[r] = NoRole
      <4>1. [NoRole EXCEPT !.grants = {}] = NoRole
        <5>1. NoRole \in [code : {None}, name : {None}, active : BOOLEAN, grants : {{}}]
          BY DEF NoRole
        <5>2. NoRole.grants = {}
          BY DEF NoRole
        <5> HIDE DEF NoRole
        <5>3. QED
          BY <5>1, <5>2
      <4>2. QED
        BY <2>1, <2>4, <3>1, <4>1
    <3>3. QED
      BY <2>2, <2>3, <2>4, <3>1, <3>2 DEF NoRole
  <2>5. CASE role[r] \in RoleRow
    <3>1. kept(r) \in SUBSET (Permissions \X Makers)
      BY <2>3, <2>5 DEF RoleRow
    <3>2. role[r] # NoRole
      BY <2>5, IdentityAssumption DEF RoleRow, NoRole
    <3>3. QED
      BY <2>1, <2>2, <2>3, <2>5, <3>1, <3>2, Regranted
  <2>6. QED
    BY <1>1, <2>4, <2>5
<1> HIDE DEF dropped, kept
<1>4. role' \in [Roles -> RoleRow \cup {NoRole}]
  BY <1>2, <1>3
<1>5. QED
  BY <1>2, <1>3, <1>4 DEF dropped

(* What a start-up inserts: the permissions it lacks, the reserved role if *)
(* there was none, and the first administrator where nobody was.           *)
Inserts(p) ==
    /\ process[p].pc = "write" /\ process'[p].pc = "up"
    /\ permission \subseteq permission' /\ permission' \subseteq Permissions
    /\ user[Root] # "absent" => UNCHANGED <<user, assigned>>
    /\ assigned' \subseteq [user : Users, role : Roles, by : Makers]
    /\ user' = user \/ user' = [user EXCEPT ![Root] = "active"]
    /\ \/ UNCHANGED <<role, nextRole>>
       \/ /\ RoleMissing /\ nextRole \in Roles /\ nextRole' = nextRole + 1
          /\ role' = [role EXCEPT ![nextRole] = Reserved(Permissions)]
          /\ permission' = Permissions
    /\ Starting \subseteq raced'

LEMMA ReservedRow ==
    /\ Reserved(Permissions) \in RoleRow
    /\ Reserved(Permissions).code = SystemAdmin /\ Reserved(Permissions).name = SystemAdminName
    /\ Reserved(Permissions).active /\ Bound(Reserved(Permissions).grants) = Permissions
<1>1. Permissions \X {Deploy} \in SUBSET (Permissions \X Makers)
  BY DEF Makers
<1>2. /\ Reserved(Permissions).grants = Permissions \X {Deploy}
      /\ Reserved(Permissions).code = SystemAdmin
      /\ Reserved(Permissions).name = SystemAdminName /\ Reserved(Permissions).active
  BY DEF Reserved
<1>3. Bound(Permissions \X {Deploy}) = Permissions
  BY BoundProduct
<1>4. Reserved(Permissions) \in RoleRow
  BY <1>1, IdentityAssumption DEF Reserved, RoleRow
<1>5. QED
  BY <1>2, <1>3, <1>4

(* The rows a start-up leaves of a process.                                *)
LEMMA StoppedRows ==
    ASSUME NEW pc \in Bootstrapping \cup {"down", "up", "failed"},
           NEW c \in {"none", "settings", "schema", "key", "database"}
    PROVE  /\ [Stopped EXCEPT !.pc = pc] \in ProcessRow
           /\ [Stopped EXCEPT !.pc = pc].pc = pc /\ [Stopped EXCEPT !.pc = pc].cause = "none"
           /\ [Stopped EXCEPT !.pc = pc, !.cause = c] \in ProcessRow
           /\ [Stopped EXCEPT !.pc = pc, !.cause = c].pc = pc
           /\ [Stopped EXCEPT !.pc = pc, !.cause = c].cause = c
<1>1. Stopped \in ProcessRow /\ Stopped.cause = "none"
  BY DEF ProcessRow, Stopped
<1> HIDE DEF Stopped
<1>2. QED
  BY <1>1 DEF ProcessRow

LEMMA FoundRows ==
    ASSUME NEW x \in ProcessRow, NEW pc \in Bootstrapping,
           NEW S \in SUBSET Permissions, NEW r \in Roles \cup {0}, NEW b \in BOOLEAN
    PROVE  /\ [x EXCEPT !.pc = pc, !.lacks = S] \in ProcessRow
           /\ [x EXCEPT !.pc = pc, !.found = r] \in ProcessRow
           /\ [x EXCEPT !.pc = pc, !.fresh = b] \in ProcessRow
BY DEF ProcessRow

(* What a step of a start-up does to the row of its process.               *)
Moves(p, row) ==
    /\ process' = [process EXCEPT ![p] = row] /\ row \in ProcessRow
    /\ process[p].pc # "up" /\ UNCHANGED <<revision, rekeyed, edited>>

LEMMA Started ==
    ASSUME NEW p \in Processes, TypeOK, StartInv(p), StartUpStep(p)
    PROVE  /\ \E row \in ProcessRow : Moves(p, row)
           /\ raced \ {p} \subseteq raced' /\ raced' \subseteq Processes
           /\ UNCHANGED tables \/ Inserts(p)
<1> DEFINE x == process[p]
<1>1. /\ process \in [Processes -> ProcessRow] /\ x \in ProcessRow
      /\ raced \subseteq Processes /\ permission \subseteq Permissions
      /\ x.lacks \subseteq Permissions /\ x.found \in Roles \cup {0}
      /\ assigned \subseteq [user : Users, role : Roles, by : Makers]
  BY DEF TypeOK, StoreTypeOK, RolloutTypeOK, ProcessRow
<1>2. Starting \subseteq Processes
  BY DEF Starting
<1>3. ASSUME NEW row \in ProcessRow, At(p, row), x.pc # "up",
             UNCHANGED <<tables, rolloutVars>>
      PROVE  /\ \E w \in ProcessRow : Moves(p, w)
             /\ raced \ {p} \subseteq raced' /\ raced' \subseteq Processes
             /\ UNCHANGED tables \/ Inserts(p)
  BY <1>1, <1>3 DEF At, Moves, rolloutVars
<1>4. CASE StartUp(p)
  <2>1. PICK row \in ProcessRow : At(p, row)
    <3>1. /\ [Stopped EXCEPT !.pc = "up"] \in ProcessRow
          /\ [Stopped EXCEPT !.pc = "permissions"] \in ProcessRow
          /\ [Stopped EXCEPT !.pc = "failed", !.cause = "settings"] \in ProcessRow
      BY StoppedRows DEF Bootstrapping
    <3>2. QED
      BY <1>4, <3>1 DEF StartUp, Fails
  <2>2. /\ x.pc = "down" /\ raced' = raced \ {p}
        /\ UNCHANGED <<tables, revision, rekeyed, edited>>
    BY <1>4 DEF StartUp
  <2>3. Moves(p, row)
    BY <2>1, <2>2 DEF Moves, At
  <2>4. QED
    BY <1>1, <2>2, <2>3
<1>5. CASE EnsureBasePermissions(p)
  <2> DEFINE row == IF revision = 0 THEN [Stopped EXCEPT !.pc = "failed", !.cause = "schema"]
                    ELSE [process[p] EXCEPT !.pc = "role", !.lacks = Permissions \ permission]
  <2>1. row \in ProcessRow
    <3>1. Permissions \ permission \in SUBSET Permissions
      OBVIOUS
    <3>2. [process[p] EXCEPT !.pc = "role", !.lacks = Permissions \ permission] \in ProcessRow
      BY <1>1, <3>1, FoundRows DEF Bootstrapping
    <3>3. [Stopped EXCEPT !.pc = "failed", !.cause = "schema"] \in ProcessRow
      BY StoppedRows
    <3>4. QED
      BY <3>2, <3>3
  <2>2. At(p, row) /\ x.pc # "up" /\ UNCHANGED <<tables, rolloutVars>>
    BY <1>5 DEF EnsureBasePermissions, Selects
  <2> HIDE DEF row
  <2>3. QED
    BY <1>3, <2>1, <2>2
<1>6. CASE EnsureSystemAdminRole(p)
  <2>1. PICK r \in Roles \cup {0} :
           Selects(p, "role", [process[p] EXCEPT !.pc = "admin", !.found = r])
    BY <1>6 DEF EnsureSystemAdminRole
  <2>2. [process[p] EXCEPT !.pc = "admin", !.found = r] \in ProcessRow
    BY <1>1, FoundRows DEF Bootstrapping
  <2>3. QED
    BY <1>3, <2>1, <2>2 DEF Selects
<1>7. CASE EnsureFirstAdmin(p)
  <2> DEFINE b == user[Root] = "absent"
  <2>1. Selects(p, "admin", [process[p] EXCEPT !.pc = "write", !.fresh = b])
    BY <1>7 DEF EnsureFirstAdmin
  <2>2. b \in BOOLEAN
    OBVIOUS
  <2> HIDE DEF b
  <2>3. [process[p] EXCEPT !.pc = "write", !.fresh = b] \in ProcessRow
    BY <1>1, <2>2, FoundRows DEF Bootstrapping
  <2>4. QED
    BY <1>3, <2>1, <2>3 DEF Selects
<1>8. CASE StartUpBreaks(p)
  <2>1. /\ At(p, [Stopped EXCEPT !.pc = "failed", !.cause = "database"])
        /\ x.pc # "up" /\ UNCHANGED <<tables, rolloutVars>>
    BY <1>8 DEF StartUpBreaks, Fails, Starting, Bootstrapping
  <2>2. [Stopped EXCEPT !.pc = "failed", !.cause = "database"] \in ProcessRow
    BY StoppedRows
  <2>3. QED
    BY <1>3, <2>1, <2>2
<1>9. CASE Bootstrap(p) /\ KeyTaken(p)
  <2>1. /\ At(p, [Stopped EXCEPT !.pc = "failed", !.cause = "key"])
        /\ x.pc # "up" /\ UNCHANGED <<tables, rolloutVars>>
    BY <1>9 DEF Bootstrap, Fails, rolloutVars
  <2>2. [Stopped EXCEPT !.pc = "failed", !.cause = "key"] \in ProcessRow
    BY StoppedRows
  <2>3. QED
    BY <1>3, <2>1, <2>2
<1>10. CASE Bootstrap(p) /\ ~KeyTaken(p)
  <2> DEFINE row == [Stopped EXCEPT !.pc = "up"]
  <2>1. /\ x.pc = "write" /\ permission' = permission \cup x.lacks
        /\ InsertsRole(p) /\ InsertsFirstAdmin(p) /\ At(p, row)
        /\ raced' = raced \cup (IF tables' = tables THEN {} ELSE Starting)
        /\ UNCHANGED <<revision, rekeyed, edited>>
    BY <1>10 DEF Bootstrap
  <2>2. row \in ProcessRow /\ row.pc = "up"
    BY StoppedRows
  <2> HIDE DEF row
  <2>3. Moves(p, row) /\ process'[p].pc = "up"
    BY <1>1, <2>1, <2>2 DEF Moves, At
  <2>4. ASSUME tables' # tables
        PROVE  Inserts(p)
    <3>1. Starting \subseteq raced'
      BY <2>1, <2>4
    <3>2. permission \subseteq permission' /\ permission' \subseteq Permissions
      BY <1>1, <2>1
    <3>3. \/ UNCHANGED <<role, nextRole>>
          \/ /\ RoleMissing /\ nextRole \in Roles /\ nextRole' = nextRole + 1
             /\ role' = [role EXCEPT ![nextRole] = Reserved(Permissions)]
             /\ permission' = Permissions
      <4>1. CASE x.found = 0
        <5>1. KeysFree(None, SystemAdmin, SystemAdminName)
          BY <1>10, <4>1 DEF KeyTaken
        <5>2. RoleMissing
          BY <5>1, IdentityAssumption DEF KeysFree, RoleMissing
        <5>3. Permissions \ x.lacks \subseteq permission
          BY <2>1 DEF StartInv
        <5>4. QED
          BY <1>1, <2>1, <4>1, <5>2, <5>3 DEF InsertsRole
      <4>2. CASE x.found # 0
        BY <2>1, <4>2 DEF InsertsRole
      <4>3. QED
        BY <4>1, <4>2
    <3>4. /\ user[Root] # "absent" => UNCHANGED <<user, assigned>>
          /\ assigned' \subseteq [user : Users, role : Roles, by : Makers]
          /\ user' = user \/ user' = [user EXCEPT ![Root] = "active"]
      <4>1. CASE x.fresh
        <5>1. user[Root] = "absent"
          BY <1>10, <4>1 DEF KeyTaken
        <5>2. /\ user' = [user EXCEPT ![Root] = "active"]
              /\ assigned' = assigned \cup
                    {[user |-> Root, role |-> IF x.found = 0 THEN nextRole ELSE x.found,
                      by |-> Deploy]}
          BY <2>1, <4>1 DEF InsertsFirstAdmin
        <5>3. (IF x.found = 0 THEN nextRole ELSE x.found) \in Roles
          BY <1>1, <2>1 DEF InsertsRole
        <5>4. QED
          BY <1>1, <5>1, <5>2, <5>3, IdentityAssumption DEF Makers
      <4>2. CASE ~x.fresh
        BY <1>1, <2>1, <4>2 DEF InsertsFirstAdmin
      <4>3. QED
        BY <4>1, <4>2
    <3>5. QED
      BY <2>1, <2>3, <3>1, <3>2, <3>3, <3>4 DEF Inserts
  <2>5. raced \subseteq raced' /\ raced' \subseteq Processes
    BY <1>1, <1>2, <2>1
  <2>6. QED
    BY <2>2, <2>3, <2>4, <2>5
<1>11. QED
  BY <1>4, <1>5, <1>6, <1>7, <1>8, <1>9, <1>10 DEF StartUpStep

(* The other processes are not affected, and this one was not up.          *)
LEMMA StartedProcess ==
    ASSUME NEW p \in Processes, TypeOK, StartInv(p), StartUpStep(p)
    PROVE  /\ process' \in [Processes -> ProcessRow] /\ process[p].pc # "up"
           /\ UNCHANGED <<revision, rekeyed, edited>>
           /\ \A o \in Processes \ {p} : process'[o] = process[o]
<1>1. process \in [Processes -> ProcessRow]
  BY DEF TypeOK, StoreTypeOK
<1>2. PICK row \in ProcessRow : Moves(p, row)
  BY Started
<1>3. QED
  BY <1>1, <1>2 DEF Moves

(* Steps outside of any request leave the requests alone, or end them.     *)
Elsewhere == UNCHANGED <<tables, process, request>>     \* sessions come and go

Sessions == [Tokens -> [user : Users, at : Processes] \cup {None}]

LEMMA AdministerSteps ==
    ASSUME TypeOK, SessionInv, \A q \in Requests : RequestInv(q) /\ OthersInv(q), Administer
    PROVE  /\ (\E a \in Requests : Arrives(a) \/ Looks(a) \/ Writes(a))
                 \/ (Elsewhere /\ session' \in Sessions)
           /\ UNCHANGED <<revision, stops>>
           /\ rekeyed' \in BOOLEAN /\ edited' \in BOOLEAN
           /\ raced \subseteq raced' /\ raced' \subseteq Processes
<1>1. AccessNext /\ UNCHANGED <<revision, stops>>
  BY DEF Administer
<1>2. /\ rekeyed' \in BOOLEAN /\ edited' \in BOOLEAN
      /\ raced \subseteq raced' /\ raced' \subseteq Processes
  <2>1. raced \subseteq Processes /\ Starting \subseteq Processes
    BY DEF TypeOK, RolloutTypeOK, Starting
  <2>2. raced' = raced \cup (IF TouchesReserved THEN Starting ELSE {})
    BY DEF Administer
  <2>3. rekeyed' \in BOOLEAN /\ edited' \in BOOLEAN
    BY DEF Administer
  <2>4. QED
    BY <2>1, <2>2, <2>3
<1>3. CASE \E q \in Requests : AccessStep(q)
  BY <1>1, <1>2, <1>3, Steps
<1>4. ASSUME NEW t \in Tokens, NEW p \in Processes, NEW u \in Users,
             LogoutAdmin(t) \/ SessionExpires(t) \/ LoginAdmin(p, t, u)
      PROVE  Elsewhere /\ session' \in Sessions
  <2>1. session \in Sessions
    BY DEF TypeOK, AccessTypeOK, Sessions
  <2>2. [user |-> u, at |-> p] \in [user : Users, at : Processes]
    OBVIOUS
  <2>3. session' = [session EXCEPT ![t] = None]
           \/ session' = [session EXCEPT ![t] = [user |-> u, at |-> p]]
    BY <1>4 DEF LogoutAdmin, SessionExpires, LoginAdmin
  <2>4. session' \in Sessions
    BY <2>1, <2>2, <2>3 DEF Sessions
  <2>5. QED
    BY <1>4, <2>4 DEF LogoutAdmin, SessionExpires, LoginAdmin, Elsewhere
<1>5. ASSUME NEW t \in Tokens, LogoutAdmin(t) \/ SessionExpires(t)
      PROVE  Elsewhere /\ session' \in Sessions
  <2>1. session \in Sessions /\ session' = [session EXCEPT ![t] = None]
    BY <1>5 DEF TypeOK, AccessTypeOK, Sessions, LogoutAdmin, SessionExpires
  <2>2. session' \in Sessions
    BY <2>1 DEF Sessions
  <2>3. QED
    BY <1>5, <2>2 DEF LogoutAdmin, SessionExpires, Elsewhere
<1>6. QED
  BY <1>1, <1>2, <1>3, <1>4, <1>5 DEF AccessNext

LEMMA TypeStep ==
    ASSUME IInv, [Next]_vars
    PROVE  TypeOK' /\ StoreInv'
<1>0. /\ TypeOK /\ StoreInv /\ SessionInv
      /\ \A q \in Requests : RequestInv(q) /\ OthersInv(q)
      /\ \A p \in Processes : StartInv(p)
  BY DEF IInv, QInv
<1>1. /\ request \in [Requests -> RequestRow]
      /\ session \in [Tokens -> [user : Users, at : Processes] \cup {None}]
      /\ revision \in 0..Head /\ rekeyed \in BOOLEAN /\ edited \in BOOLEAN
      /\ raced \subseteq Processes
      /\ stops \in 0..MaxStops /\ StoreTypeOK
      /\ role \in [Roles -> RoleRow \cup {NoRole}] /\ nextRole \in 1..(MaxRoles + 1)
      /\ process \in [Processes -> ProcessRow]
  BY <1>0 DEF TypeOK, AccessTypeOK, RolloutTypeOK, StoreTypeOK
<1>2. CASE UNCHANGED vars
  BY <1>0, <1>2 DEF vars, tables, accessVars, rolloutVars, TypeOK, StoreTypeOK, AccessTypeOK,
                    RolloutTypeOK, StoreInv
<1>3. CASE Administer
  <2>1. /\ \/ \E a \in Requests : Arrives(a) \/ Looks(a) \/ Writes(a)
           \/ Elsewhere /\ session' \in Sessions
        /\ UNCHANGED <<revision, stops>>
        /\ rekeyed' \in BOOLEAN /\ edited' \in BOOLEAN /\ raced' \subseteq Processes
    BY <1>0, <1>3, AdministerSteps
  <2>2. CASE Elsewhere /\ session' \in Sessions
    BY <1>0, <1>1, <2>1, <2>2 DEF Elsewhere, Sessions, tables, TypeOK, StoreTypeOK,
                                  AccessTypeOK, RolloutTypeOK, StoreInv
  <2>3. ASSUME NEW a \in Requests, Arrives(a) \/ Looks(a) \/ Writes(a)
        PROVE  TypeOK' /\ StoreInv'
    <3>1. Alone(a)
      BY <2>3 DEF Arrives, Looks, Writes
    <3>2. AccessTypeOK' /\ RolloutTypeOK' /\ (stops \in 0..MaxStops)'
      BY <1>1, <2>1, <3>1 DEF Alone, AccessTypeOK, RolloutTypeOK
    <3>3. StoreTypeOK' /\ StoreInv'
      <4>1. CASE UNCHANGED tables
        BY <1>0, <1>1, <3>1, <4>1 DEF tables, Alone, StoreTypeOK, StoreInv
      <4>2. CASE Writes(a)
        BY <1>0, <4>2, WriteTables
      <4>3. QED
        BY <2>3, <4>1, <4>2 DEF Arrives, Looks
    <3>4. QED
      BY <3>2, <3>3 DEF TypeOK
  <2>4. QED
    BY <2>1, <2>2, <2>3
<1>4. CASE Maintain
  <2>1. AccessTypeOK' /\ (stops \in 0..MaxStops)'
    BY <1>1, <1>4 DEF Maintain, accessVars, AccessTypeOK
  <2>2. CASE Upgrade
    <3>1. /\ revision' = Head /\ role' \in [Roles -> RoleRow \cup {NoRole}]
          /\ permission' \subseteq Permissions
          /\ \A r \in Roles : role[r].code # SystemAdmin => role'[r] = role[r]
      BY <1>0, <2>2, UpgradedRows
    <3>2. NoRole.code # SystemAdmin
      BY IdentityAssumption DEF NoRole
    <3>3. QED
      BY <1>0, <1>1, <2>1, <2>2, <3>1, <3>2
         DEF Upgrade, TypeOK, StoreTypeOK, RolloutTypeOK, Head, StoreInv
  <2>3. CASE Downgrade
    <3>1. /\ revision \in 1..Head /\ revision' = revision - 1
          /\ permission' \subseteq permission
          /\ role' \in [Roles -> RoleRow \cup {NoRole}]
          /\ \A r \in Roles : role[r] = NoRole => role'[r] = NoRole
      BY <1>0, <2>3, DowngradedRows
    <3>2. QED
      BY <1>0, <1>1, <2>1, <2>3, <3>1
         DEF Downgrade, TypeOK, StoreTypeOK, RolloutTypeOK, Head, StoreInv
  <2>4. ASSUME NEW p \in Processes, StartUpStep(p)
        PROVE  TypeOK' /\ StoreInv'
    <3>1. /\ process' \in [Processes -> ProcessRow] /\ UNCHANGED <<revision, rekeyed, edited>>
          /\ raced' \subseteq Processes /\ (UNCHANGED tables \/ Inserts(p))
      BY <1>0, <2>4, Started, StartedProcess
    <3>2. RolloutTypeOK'
      BY <1>1, <3>1 DEF RolloutTypeOK
    <3>3. CASE UNCHANGED tables
      BY <1>0, <1>1, <2>1, <3>1, <3>2, <3>3 DEF tables, TypeOK, StoreTypeOK, StoreInv
    <3>4. CASE Inserts(p)
      <4>1. /\ permission' \subseteq Permissions
            /\ assigned' \subseteq [user : Users, role : Roles, by : Makers]
        BY <3>4 DEF Inserts
      <4>2. user' \in [Users -> {"absent", "active", "inactive"}]
        BY <1>1, <3>4 DEF Inserts, StoreTypeOK
      <4>3. /\ role' \in [Roles -> RoleRow \cup {NoRole}] /\ nextRole' \in 1..(MaxRoles + 1)
            /\ StoreInv'
        <5>1. CASE UNCHANGED <<role, nextRole>>
          BY <1>0, <1>1, <5>1 DEF StoreInv
        <5>2. CASE nextRole \in Roles /\ nextRole' = nextRole + 1
                   /\ role' = [role EXCEPT ![nextRole] = Reserved(Permissions)]
          <6>1. \A r \in Roles : r >= nextRole' => r >= nextRole /\ role'[r] = role[r]
            BY <1>1, <5>2 DEF Roles
          <6>2. nextRole' \in 1..(MaxRoles + 1)
            BY <1>1, <5>2, IdentityAssumption DEF Roles
          <6>3. role' \in [Roles -> RoleRow \cup {NoRole}]
            BY <1>1, <5>2, ReservedRow
          <6>4. QED
            BY <1>0, <6>1, <6>2, <6>3 DEF StoreInv
        <5>3. QED
          BY <3>4, <5>1, <5>2 DEF Inserts
      <4>4. QED
        BY <2>1, <3>1, <3>2, <4>1, <4>2, <4>3 DEF TypeOK, StoreTypeOK
    <3>5. QED
      BY <3>1, <3>3, <3>4
  <2>5. QED
    BY <1>4, <2>2, <2>3, <2>4 DEF Maintain
<1>5. ASSUME NEW p \in Processes, Stop(p)
      PROVE  TypeOK' /\ StoreInv'
  <2>1. /\ process' = [process EXCEPT ![p] = Stopped] /\ stops' = stops + 1 /\ stops < MaxStops
        /\ session' = [t \in Tokens |->
                          IF session[t] # None /\ session[t].at = p THEN None ELSE session[t]]
        /\ request' = [q \in Requests |->
                          IF request[q].pc \in Final \cup {"idle"} \/ request[q].at # p
                          THEN request[q] ELSE Ended(request[q], "failed")]
        /\ UNCHANGED <<tables, rolloutVars>>
    BY <1>5 DEF Stop, At
  <2>2. \A q \in Requests : request'[q] \in RequestRow
    BY <1>1, <2>1, RequestRows DEF Final
  <2>3. \A t \in Tokens : session'[t] \in [user : Users, at : Processes] \cup {None}
    BY <1>1, <2>1
  <2>4. AccessTypeOK'
    BY <2>1, <2>2, <2>3 DEF AccessTypeOK
  <2>5. process' \in [Processes -> ProcessRow]
    <3>1. Stopped \in ProcessRow
      BY DEF Stopped, ProcessRow
    <3>2. QED
      BY <1>1, <2>1, <3>1
  <2>6. QED
    BY <1>0, <1>1, <2>1, <2>4, <2>5, AdministrationAssumption
       DEF tables, rolloutVars, TypeOK, StoreTypeOK, RolloutTypeOK, StoreInv
<1>6. CASE Finished
  BY <1>2, <1>6 DEF Finished
<1>7. QED
  BY <1>2, <1>3, <1>4, <1>5, <1>6 DEF Next

-----------------------------------------------------------------------------
(* What a step of one request leaves to the others: themselves, and a      *)
(* witness that is done stays done.                                        *)
LEMMA Bystanders ==
    ASSUME NEW a \in Requests, TypeOK, Arrives(a) \/ Looks(a) \/ Writes(a)
    PROVE  /\ request[a].pc \notin Final /\ request[a] \in RequestRow
           /\ request'[a] \in RequestRow /\ UNCHANGED <<process, user>>
           /\ \A q \in Requests \ {a} : request'[q] = request[q]
           /\ \A o \in Requests : request[o].pc = "done" => request'[o] = request[o]
           /\ Unfinished' \subseteq Unfinished
<1>1. /\ request \in [Requests -> RequestRow] /\ Alone(a)
      /\ request' = [request EXCEPT ![a] = request'[a]]
  BY DEF TypeOK, AccessTypeOK, Arrives, Looks, Writes, Alone
<1>2. \A q \in Requests \ {a} : request'[q] = request[q]
  BY <1>1
<1>3. request[a].pc \notin Final /\ UNCHANGED <<process, user>>
  BY <1>1 DEF Alone
<1>4. \A o \in Requests : request[o].pc = "done" => request'[o] = request[o]
  BY <1>2, <1>3 DEF Final
<1>5. Unfinished' \subseteq Unfinished
  BY <1>2, <1>3 DEF Unfinished
<1>6. QED
  BY <1>1, <1>2, <1>3, <1>4, <1>5 DEF Alone

LEMMA RequestStep ==
    ASSUME NEW a \in Requests, TypeOK, \A q \in Requests : RequestInv(q),
           Arrives(a) \/ Looks(a) \/ Writes(a)
    PROVE  \A q \in Requests : RequestInv(q)'
<1>1. /\ UNCHANGED <<process, user>> /\ request[a] \in RequestRow
      /\ \A q \in Requests \ {a} : request'[q] = request[q]
  BY Bystanders
<1>2. ASSUME NEW p \in Processes PROVE Up(p)' <=> Up(p)
  BY <1>1 DEF Up
<1>3. ASSUME NEW q \in Requests \ {a} PROVE RequestInv(q)'
  BY <1>1, <1>2, <1>3 DEF RequestInv
<1>4. CASE Arrives(a)
  BY <1>1, <1>2, <1>3, <1>4 DEF Arrives, RequestInv, UnderWay, Inside
<1>5. CASE Looks(a)
  <2>1. request[a].pc \in UnderWay
    BY <1>5 DEF Looks, UnderWay, Inside
  <2>2. request[a].at \in Processes /\ Up(request[a].at) /\ user[Root] # "absent"
    BY <2>1 DEF RequestInv
  <2>3. QED
    BY <1>1, <1>2, <1>3, <1>5, <2>2 DEF Looks, RequestInv, UnderWay, Inside
<1>6. CASE Writes(a)
  <2>1. request[a].allowed
    BY <1>6 DEF Writes, RequestInv, Inside
  <2>2. /\ request'[a].pc \in {"done", "failed"}
        /\ request'[a].pc = "done" => request'[a].op \in Operations
    BY <1>6 DEF Writes
  <2>3. request'[a].pc = "done" => request'[a].allowed
    <3>1. request'[a].pc = "done" => request'[a].allowed = request[a].allowed
      BY <1>6 DEF Writes
    <3>2. QED
      BY <2>1, <3>1
  <2>4. request'[a].pc \notin UnderWay
    BY <2>2 DEF UnderWay, Inside
  <2>5. QED
    BY <1>3, <2>2, <2>3, <2>4 DEF RequestInv, UnderWay, Inside
<1>7. QED
  BY <1>3, <1>4, <1>5, <1>6

LEMMA OthersStep ==
    ASSUME NEW a \in Requests, TypeOK, \A q \in Requests : OthersInv(q),
           Arrives(a) \/ Looks(a) \/ Writes(a)
    PROVE  \A q \in Requests : OthersInv(q)'
<1>1. /\ request[a] \in RequestRow /\ request \in [Requests -> RequestRow]
      /\ \A q \in Requests \ {a} : request'[q] = request[q]
      /\ Unfinished' \subseteq Unfinished
  BY Bystanders DEF TypeOK, AccessTypeOK
<1>2. \A q \in Requests : request[q].via \in {"api", "portal"}
  BY <1>1 DEF RequestRow
<1>3. ASSUME request'[a].pc \in Inside
      PROVE  /\ Unfinished \ {a} \subseteq request'[a].others
             /\ request'[a].via = request[a].via /\ request'[a].at = request[a].at
             /\ \A o \in Requests \ {a} :
                   request[o].pc \in Inside => Beside(request[a], request[o])
  <2>1. Looks(a) /\ request'[a].pc # "refused"
    BY <1>3 DEF Arrives, Writes, Inside
  <2>2. /\ Unfinished \ {a} \subseteq request'[a].others
        /\ request'[a].via = request[a].via /\ request'[a].at = request[a].at
        /\ request[a].pc \in {"granted", "check", "gather"}
        /\ request[a].pc = "granted" => LoopIsFree(a)
    BY <2>1 DEF Looks
  <2>3. CASE request[a].pc = "granted"
    BY <1>2, <2>2, <2>3 DEF LoopIsFree, Inside, Beside
  <2>4. CASE request[a].pc # "granted"
    BY <2>2, <2>4 DEF OthersInv, Inside
  <2>5. QED
    BY <2>2, <2>3, <2>4
<1>4. OthersInv(a)'
  BY <1>1, <1>3 DEF OthersInv, Beside
<1>5. ASSUME NEW q \in Requests \ {a} PROVE OthersInv(q)'
  <2>1. SUFFICES ASSUME request[q].pc \in Inside PROVE OthersInv(q)'
    BY <1>1, <1>5 DEF OthersInv
  <2>2. /\ Unfinished \ {q} \subseteq request[q].others
        /\ \A o \in Requests \ {q} :
              request[o].pc \in Inside => Beside(request[q], request[o])
    BY <2>1 DEF OthersInv
  <2>3. ASSUME request'[a].pc \in Inside
        PROVE  Beside(request[q], request'[a])
    BY <1>3, <1>5, <2>1, <2>3 DEF Beside
  <2>4. QED
    BY <1>1, <1>5, <2>2, <2>3 DEF OthersInv
<1>6. QED
  BY <1>4, <1>5

LEMMA DeleteStep ==
    ASSUME NEW a \in Requests, TypeOK,
           \A q \in Requests : OthersInv(q) /\ DeleteInv(q),
           Arrives(a) \/ Looks(a) \/ Writes(a)
    PROVE  \A q \in Requests : DeleteInv(q)'
<1>1. /\ \A q \in Requests \ {a} : request'[q] = request[q]
      /\ request[a].pc \notin Final
  BY Bystanders
<1>2. \A row \in assigned' : row \in assigned \/ row.by = a
  BY DEF Arrives, Looks, Writes, Creates, Updates, Drops, Assigns, tables
<1>3. ASSUME NEW q \in Requests \ {a} PROVE DeleteInv(q)'
  <2>1. CASE request[q].pc = "gather"
    <3>1. a \in request[q].others
      BY <1>1, <2>1 DEF OthersInv, Inside, Unfinished
    <3>2. QED
      BY <1>1, <1>2, <2>1, <3>1 DEF DeleteInv
  <2>2. CASE request[q].pc # "gather"
    BY <1>1, <2>2 DEF DeleteInv
  <2>3. QED
    BY <2>1, <2>2
<1>4. DeleteInv(a)'
  <2>1. CASE Looks(a)
    <3>1. CASE request'[a].pc = "gather"
      <4>1. (\A row \in assigned : row.role # request'[a].op.role) /\ assigned' = assigned
        BY <2>1, <3>1 DEF Looks, tables
      <4>2. QED
        BY <3>1, <4>1 DEF DeleteInv
    <3>2. CASE request'[a].pc = "write" /\ request'[a].op.kind = "deleteRole"
      <4>1. /\ request[a].pc = "gather" /\ request'[a].others = request[a].others
            /\ request'[a].op = request[a].op
            /\ request'[a].rows = {row \in assigned : row.role = request'[a].op.role}
        BY <2>1, <3>2 DEF Looks
      <4>2. QED
        BY <3>2, <4>1 DEF DeleteInv
    <3>3. QED
      BY <3>1, <3>2 DEF DeleteInv
  <2>2. CASE Arrives(a) \/ Writes(a)
    BY <2>2 DEF Arrives, Writes, DeleteInv
  <2>3. QED
    BY <2>1, <2>2
<1>5. QED
  BY <1>3, <1>4

LEMMA AssignStep ==
    ASSUME NEW a \in Requests, TypeOK,
           \A q \in Requests : OthersInv(q) /\ AssignInv(q),
           Arrives(a) \/ Looks(a) \/ Writes(a)
    PROVE  \A q \in Requests : AssignInv(q)'
<1>1. /\ \A q \in Requests \ {a} : request'[q] = request[q]
      /\ \A o \in Requests : request[o].pc = "done" => request'[o] = request[o]
      /\ request[a].pc \notin Final
      /\ \A q \in Requests : request[q].others \subseteq Requests
  BY Bystanders DEF TypeOK, AccessTypeOK, RequestRow
<1>2. ASSUME NEW q \in Requests \ {a} PROVE AssignInv(q)'
  <2>1. SUFFICES ASSUME request[q].pc = "write", request[q].op.kind = "assignRoles"
                 PROVE  AssignInv(q)'
    BY <1>1 DEF AssignInv
  <2>2. a \in request[q].others
    BY <1>1, <2>1 DEF OthersInv, Inside, Unfinished
  <2>3. CASE \E o \in request[q].others : Rival(q, o)
    <3>1. PICK o \in request[q].others : Rival(q, o)
      BY <2>3
    <3>2. request'[o] = request[o] /\ request'[q] = request[q]
      BY <1>1, <3>1 DEF Rival
    <3>3. Rival(q, o)'
      BY <3>1, <3>2 DEF Rival
    <3>4. QED
      BY <3>1, <3>2, <3>3 DEF AssignInv
  <2>4. CASE {row \in assigned : row.user = request[q].op.user} \subseteq request[q].rows
    <3>1. CASE Assigns(a) /\ Writes(a) /\ request'[a].pc = "done"
               /\ request[a].op.user = request[q].op.user
      <4>1. /\ request'[a].op = request[a].op /\ request'[a].via = request[a].via
            /\ request'[a].at = request[a].at /\ request[a].op.kind = "assignRoles" /\ request[a].pc = "write"
        BY <3>1 DEF Writes, Assigns
      <4>2. Beside(request[q], request[a])
        BY <1>2, <2>1, <4>1 DEF OthersInv, Inside
      <4>3. Rival(q, a)'
        BY <1>1, <1>2, <3>1, <4>1, <4>2 DEF Rival, Beside
      <4>4. QED
        BY <1>1, <1>2, <2>2, <4>3 DEF AssignInv
    <3>2. CASE \A row \in assigned' : row \in assigned \/ row.user # request[q].op.user
      BY <1>1, <1>2, <2>4, <3>2 DEF AssignInv
    <3>3. QED
      <4>1. CASE UNCHANGED assigned
        BY <3>2, <4>1
      <4>2. CASE Drops(a)
        BY <3>2, <4>2 DEF Drops
      <4>3. CASE Assigns(a)
        BY <3>1, <3>2, <4>3 DEF Arrives, Looks, Writes, Assigns, tables
      <4>4. QED
        BY <4>1, <4>2, <4>3 DEF Arrives, Looks, Writes, Creates, Updates, tables
  <2>5. QED
    BY <2>1, <2>3, <2>4 DEF AssignInv
<1>3. AssignInv(a)'
  <2>1. CASE Looks(a)
    <3>1. SUFFICES ASSUME request'[a].pc = "write", request'[a].op.kind = "assignRoles"
                   PROVE  {row \in assigned' : row.user = request'[a].op.user}
                             \subseteq request'[a].rows
      BY DEF AssignInv
    <3>2. QED
      BY <2>1, <3>1 DEF Looks, tables
  <2>2. CASE Arrives(a) \/ Writes(a)
    BY <2>2 DEF Arrives, Writes, AssignInv
  <2>3. QED
    BY <2>1, <2>2
<1>4. QED
  BY <1>2, <1>3

(* What an update did not load comes from others it may merge with.        *)
LEMMA UpdateStep ==
    ASSUME NEW a \in Requests, TypeOK, StoreInv,
           \A q \in Requests : RequestInv(q) /\ OthersInv(q) /\ UpdateInv(q),
           Arrives(a) \/ Looks(a) \/ Writes(a)
    PROVE  \A q \in Requests : UpdateInv(q)'
<1>1. /\ \A q \in Requests \ {a} : request'[q] = request[q]
      /\ \A o \in Requests : request[o].pc = "done" => request'[o] = request[o]
      /\ request[a].pc \notin Final
      /\ \A q \in Requests : request[q].others \subseteq Requests
      /\ role \in [Roles -> RoleRow \cup {NoRole}] /\ nextRole \in Int
  BY Bystanders DEF TypeOK, AccessTypeOK, StoreTypeOK, RequestRow
<1>2. nextRole <= nextRole' /\ nextRole' \in Int
  BY <1>1 DEF Arrives, Looks, Writes, Creates, Updates, Drops, Assigns, tables
<1>3. ASSUME NEW q \in Requests \ {a} PROVE UpdateInv(q)'
  <2> DEFINE r == request[q].op.role
             seen == request[q].seen
             Mate(o) == o \in Merged(q, r) \ {q}
  <2>1. SUFFICES ASSUME request[q].pc = "write", request[q].op.kind = "updateRole"
                 PROVE  UpdateInv(q)'
    BY <1>1 DEF UpdateInv
  <2>2. /\ r < nextRole /\ r \in Roles
        /\ \A b \in role[r].grants \ seen.grants :
              \E o \in Requests : Mate(o) /\ b[1] \in request[o].op.grants
        /\ role[r].active /\ ~seen.active =>
              \E o \in Requests : Mate(o) /\ request[o].op.active
    <3>1. r \in Roles
      BY <2>1, OperationFields DEF RequestInv, UnderWay, Inside
    <3>2. \A o \in Merged(q, r) \ {q} : o \in Requests
      BY <1>1 DEF Merged
    <3>3. QED
      BY <2>1, <3>1, <3>2 DEF UpdateInv
  <2>3. \A o \in Requests : Mate(o) => o \in (Merged(q, r) \ {q})' /\ request'[o] = request[o]
    BY <1>1, <1>3 DEF Merged
  <2>4. ASSUME Writes(a), Updates(a), request'[a].pc = "done", request[a].op.role = r
        PROVE  /\ a \in (Merged(q, r) \ {q})' /\ request'[a].op = request[a].op
               /\ role'[r].grants \subseteq role[r].grants \cup (request[a].op.grants \X {a})
               /\ role'[r].active => role[r].active \/ request[a].op.active
    <3>1. a \in request[q].others
      BY <1>1, <2>1 DEF OthersInv, Inside, Unfinished
    <3>2. request'[a].op = request[a].op /\ request[a].op.kind = "updateRole"
      BY <2>4 DEF Writes, Updates
    <3>3. role'[r] = Updated(a)
      BY <1>1, <2>2, <2>4 DEF Updates
    <3>4. /\ Updated(a).grants \subseteq role[r].grants \cup (request[a].op.grants \X {a})
          /\ Updated(a).active => role[r].active \/ request[a].op.active
      BY <2>4 DEF Updated, Column
    <3>5. a \in (Merged(q, r) \ {q})'
      BY <1>1, <1>3, <2>4, <3>1, <3>2 DEF Merged
    <3>6. QED
      BY <3>2, <3>3, <3>4, <3>5
  <2>5. \/ /\ role'[r].grants \subseteq role[r].grants
           /\ role'[r].active => role[r].active
        \/ Writes(a) /\ Updates(a) /\ request'[a].pc = "done" /\ request[a].op.role = r
    <3>1. CASE UNCHANGED role
      BY <3>1
    <3>2. CASE Creates(a)
      BY <1>1, <2>2, <3>2 DEF Creates
    <3>3. CASE Drops(a) /\ request[a].op.kind = "deactivateRole"
      <4>1. role' = [role EXCEPT ![request[a].op.role] =
                        [role[request[a].op.role] EXCEPT !.active = FALSE]]
        BY <3>3 DEF Drops
      <4>2. CASE request[a].op.role = r
        <5>1. role[r] \in RoleRow
          BY <1>1, <2>2, <3>3, <4>2 DEF Drops, Live
        <5>2. role'[r] = [role[r] EXCEPT !.active = FALSE]
          BY <1>1, <2>2, <4>1, <4>2
        <5>3. QED
          BY <5>1, <5>2 DEF RoleRow
      <4>3. CASE request[a].op.role # r
        BY <1>1, <2>2, <4>1, <4>3
      <4>4. QED
        BY <4>2, <4>3
    <3>4. CASE Writes(a) /\ Updates(a) /\ request'[a].pc = "done"
      BY <1>1, <2>2, <3>4 DEF Updates
    <3>5. CASE Drops(a) /\ request[a].op.kind # "deactivateRole"
      BY <1>1, <2>2, <3>5 DEF Drops, NoRole
    <3>6. \/ UNCHANGED role
          \/ Writes(a) /\ request'[a].pc = "done"
             /\ (Creates(a) \/ Updates(a) \/ Drops(a))
      <4>1. CASE Arrives(a) \/ Looks(a)
        BY <4>1 DEF Arrives, Looks, tables
      <4>2. CASE Writes(a)
        BY <4>2 DEF Writes, Assigns, tables
      <4>3. QED
        BY <4>1, <4>2
    <3>7. QED
      BY <3>1, <3>2, <3>3, <3>4, <3>5, <3>6
  <2>6. r < nextRole'
    BY <1>1, <1>2, <2>2 DEF Roles
  <2>7. \A b \in role'[r].grants \ seen.grants :
           \E o \in (Merged(q, r) \ {q})' : b[1] \in request'[o].op.grants
    <3> SUFFICES ASSUME NEW b \in role'[r].grants \ seen.grants
                 PROVE  \E o \in (Merged(q, r) \ {q})' : b[1] \in request'[o].op.grants
      OBVIOUS
    <3>1. CASE b \in role[r].grants
      BY <2>2, <2>3, <3>1
    <3>2. CASE b \notin role[r].grants
      <4>1. Writes(a) /\ Updates(a) /\ request'[a].pc = "done" /\ request[a].op.role = r
        BY <2>5, <3>2
      <4>2. b \in request[a].op.grants \X {a} /\ a \in (Merged(q, r) \ {q})'
            /\ request'[a].op = request[a].op
        BY <2>4, <3>2, <4>1
      <4>3. b[1] \in request[a].op.grants
        BY <4>2, BindingFields
      <4>4. QED
        BY <4>2, <4>3
    <3>3. QED
      BY <3>1, <3>2
  <2>8. role'[r].active /\ ~seen.active =>
           \E o \in (Merged(q, r) \ {q})' : request'[o].op.active
    <3>1. CASE role[r].active
      BY <2>2, <2>3, <3>1
    <3>2. CASE ~role[r].active
      BY <2>4, <2>5, <3>2
    <3>3. QED
      BY <3>1, <3>2
  <2> HIDE DEF Mate
  <2>9. request'[q] = request[q]
    BY <1>1, <1>3
  <2>10. QED
    BY <2>1, <2>6, <2>7, <2>8, <2>9 DEF UpdateInv
<1>4. UpdateInv(a)'
  <2> DEFINE r == request'[a].op.role
  <2>1. SUFFICES ASSUME request'[a].pc = "write", request'[a].op.kind = "updateRole"
                 PROVE  UpdateInv(a)'
    BY DEF UpdateInv
  <2>2. Looks(a)
    BY <2>1 DEF Arrives, Writes
  <2>3. /\ request'[a].op \in Operations /\ Live(r) /\ request'[a].seen = role[r]
        /\ UNCHANGED tables
    BY <2>1, <2>2 DEF Looks
  <2>4. r \in Roles
    BY <2>1, <2>3, OperationFields
  <2>5. r < nextRole'
    BY <1>1, <2>3, <2>4 DEF StoreInv, Live, tables, Roles
  <2>6. QED
    BY <2>1, <2>3, <2>5 DEF UpdateInv, tables
<1>5. QED
  BY <1>3, <1>4

(* Outside of the handlers little is promised of a request.                *)
LEMMA OutOfHandlers ==
    ASSUME NEW q \in Requests, request'[q].pc \notin UnderWay,
           request'[q].pc = "done" => request'[q] = request[q],
           RequestInv(q)
    PROVE  QInv(q)'
BY DEF QInv, RequestInv, OthersInv, DeleteInv, AssignInv, UpdateInv, UnderWay, Inside

(* A start-up leaves a request alone: whoever is in a handler got there    *)
(* past a first administrator, and knows only roles older than a new one.  *)
LEMMA StartUpBeside ==
    ASSUME NEW p \in Processes, TypeOK, StartInv(p), StartUpStep(p), UNCHANGED request,
           NEW q \in Requests, QInv(q)
    PROVE  QInv(q)'
<1>1. /\ process[p].pc # "up" /\ \A o \in Processes \ {p} : process'[o] = process[o]
      /\ UNCHANGED tables \/ Inserts(p)
  BY Started, StartedProcess
<1>2. /\ role \in [Roles -> RoleRow \cup {NoRole}] /\ nextRole \in Int
      /\ user \in [Users -> {"absent", "active", "inactive"}]
  BY DEF TypeOK, StoreTypeOK
<1>3. CASE request[q].pc \notin UnderWay
  BY <1>3, OutOfHandlers DEF QInv
<1>4. CASE request[q].pc \in UnderWay
  <2>1. /\ request[q].at \in Processes /\ Up(request[q].at) /\ user[Root] # "absent"
        /\ request[q].op \in Operations
    BY <1>4 DEF QInv, RequestInv
  <2>2. UNCHANGED <<user, assigned>>
    BY <1>1, <2>1 DEF Inserts, tables
  <2>3. Up(request[q].at)'
    BY <1>1, <2>1 DEF Up
  <2>4. RequestInv(q)'
    BY <2>1, <2>2, <2>3 DEF QInv, RequestInv
  <2>5. OthersInv(q)' /\ DeleteInv(q)' /\ AssignInv(q)'
    BY <2>2 DEF QInv, OthersInv, Unfinished, DeleteInv, AssignInv, Rival
  <2>6. UpdateInv(q)'
    <3> SUFFICES ASSUME request[q].pc = "write", request[q].op.kind = "updateRole"
                 PROVE  UpdateInv(q)'
      BY DEF UpdateInv
    <3> DEFINE r == request[q].op.role
    <3>1. r \in Roles /\ r < nextRole
      BY <2>1, OperationFields DEF QInv, UpdateInv
    <3>2. role'[r] = role[r] /\ r < nextRole'
      <4>1. CASE UNCHANGED <<role, nextRole>>
        BY <3>1, <4>1
      <4>2. CASE /\ nextRole' = nextRole + 1
                 /\ role' = [role EXCEPT ![nextRole] = Reserved(Permissions)]
        BY <1>2, <3>1, <4>2 DEF Roles
      <4>3. QED
        BY <1>1, <4>1, <4>2 DEF Inserts, tables
    <3>3. Merged(q, r)' = Merged(q, r) /\ request' = request
      BY DEF Merged
    <3>4. UpdateInv(q)
      BY DEF QInv
    <3>5. QED
      BY <3>2, <3>3, <3>4 DEF UpdateInv
  <2>7. QED
    BY <2>4, <2>5, <2>6 DEF QInv
<1>5. QED
  BY <1>3, <1>4

(* The stop of a process ends its requests and leaves those of others.     *)
LEMMA StopBeside ==
    ASSUME NEW p \in Processes, TypeOK, Stop(p), NEW q \in Requests, QInv(q)
    PROVE  QInv(q)'
<1>1. /\ process' = [process EXCEPT ![p] = Stopped] /\ UNCHANGED tables
      /\ request' = [o \in Requests |->
                        IF request[o].pc \in Final \cup {"idle"} \/ request[o].at # p
                        THEN request[o] ELSE Ended(request[o], "failed")]
  BY DEF Stop, At
<1>2. /\ request \in [Requests -> RequestRow] /\ process \in [Processes -> ProcessRow]
      /\ request[q].others \subseteq Requests
  BY DEF TypeOK, AccessTypeOK, StoreTypeOK, RequestRow
<1>3. \A o \in Requests : request'[o] = request[o] \/ request'[o].pc = "failed"
  BY <1>1, <1>2, RequestRows DEF Final
<1>4. /\ \A o \in Requests : request[o].pc = "done" => request'[o] = request[o]
      /\ Unfinished' \subseteq Unfinished
  BY <1>1, <1>3 DEF Final, Unfinished
<1>5. CASE request'[q].pc \notin UnderWay
  <2>1. request'[q].pc = "done" => request'[q] = request[q]
    BY <1>3
  <2>2. QED
    BY <1>5, <2>1, OutOfHandlers DEF QInv
<1>6. CASE request'[q].pc \in UnderWay
  <2>1. request'[q] = request[q] /\ request[q].pc \in UnderWay
    BY <1>3, <1>6 DEF UnderWay, Inside
  <2>2. /\ request[q].at # p /\ request[q].at \in Processes /\ Up(request[q].at)
        /\ user[Root] # "absent"
    <3>1. request[q].pc \notin Final \cup {"idle"}
      BY <2>1 DEF UnderWay, Inside, Final
    <3>2. Ended(request[q], "failed").pc = "failed"
      BY <1>2, RequestRows DEF Final
    <3>3. request[q].at # p
      BY <1>1, <2>1, <3>1, <3>2 DEF UnderWay, Inside
    <3>4. QED
      BY <2>1, <3>3 DEF QInv, RequestInv
  <2>3. Up(request[q].at)'
    BY <1>1, <1>2, <2>2 DEF Up
  <2>4. RequestInv(q)'
    BY <1>1, <2>1, <2>2, <2>3 DEF QInv, RequestInv, tables
  <2>5. OthersInv(q)'
    <3>1. \A o \in Requests : request'[o].pc \in Inside => request'[o] = request[o]
      BY <1>3 DEF Inside
    <3>2. QED
      BY <1>4, <2>1, <3>1 DEF QInv, OthersInv
  <2>6. DeleteInv(q)'
    BY <1>1, <2>1 DEF QInv, DeleteInv, tables
  <2>7. AssignInv(q)'
    <3>1. \A o \in request[q].others : Rival(q, o) => Rival(q, o)'
      BY <1>2, <1>4, <2>1 DEF Rival
    <3>2. QED
      BY <1>1, <2>1, <3>1 DEF QInv, AssignInv, tables
  <2>8. UpdateInv(q)'
    <3> DEFINE r == request[q].op.role
           mates == Merged(q, r) \ {q}
    <3>1. \A o \in mates : o \in mates' /\ request'[o] = request[o]
      BY <1>2, <1>4, <2>1 DEF Merged
    <3>2. SUFFICES ASSUME request[q].pc = "write", request[q].op.kind = "updateRole"
                   PROVE  UpdateInv(q)'
      BY <2>1 DEF UpdateInv
    <3>3. /\ r < nextRole
          /\ \A b \in role[r].grants \ request[q].seen.grants :
                \E o \in mates : b[1] \in request[o].op.grants
          /\ role[r].active /\ ~request[q].seen.active => \E o \in mates : request[o].op.active
      BY <3>2 DEF QInv, UpdateInv
    <3>4. /\ r < nextRole
          /\ \A b \in role[r].grants \ request[q].seen.grants :
                \E o \in mates' : b[1] \in request'[o].op.grants
          /\ role[r].active /\ ~request[q].seen.active => \E o \in mates' : request'[o].op.active
      BY <3>1, <3>3
    <3>5. QED
      BY <1>1, <2>1, <3>4 DEF UpdateInv, tables
  <2>9. QED
    BY <2>4, <2>5, <2>6, <2>7, <2>8 DEF QInv
<1>7. QED
  BY <1>5, <1>6

LEMMA RequestsStep ==
    ASSUME IInv, [Next]_vars
    PROVE  \A q \in Requests : QInv(q)'
<1>0. /\ TypeOK /\ StoreInv /\ SessionInv
      /\ \A q \in Requests : /\ QInv(q) /\ RequestInv(q) /\ OthersInv(q) /\ DeleteInv(q)
                             /\ AssignInv(q) /\ UpdateInv(q)
      /\ \A p \in Processes : StartInv(p)
  BY DEF IInv, QInv
<1>1. request \in [Requests -> RequestRow]
  BY <1>0 DEF TypeOK, AccessTypeOK
<1>2. ASSUME NEW a \in Requests, Arrives(a) \/ Looks(a) \/ Writes(a)
      PROVE  \A q \in Requests : QInv(q)'
  <2>1. \A q \in Requests : RequestInv(q)'
    BY <1>0, <1>2, RequestStep
  <2>2. \A q \in Requests : OthersInv(q)'
    BY <1>0, <1>2, OthersStep
  <2>3. \A q \in Requests : DeleteInv(q)'
    BY <1>0, <1>2, DeleteStep
  <2>4. \A q \in Requests : AssignInv(q)'
    BY <1>0, <1>2, AssignStep
  <2>5. \A q \in Requests : UpdateInv(q)'
    BY <1>0, <1>2, UpdateStep
  <2>6. QED
    BY <2>1, <2>2, <2>3, <2>4, <2>5 DEF QInv
<1>3. ASSUME Elsewhere
      PROVE  \A q \in Requests : QInv(q)'
  BY <1>0, <1>3 DEF Elsewhere, tables, QInv, RequestInv, OthersInv, DeleteInv, AssignInv,
                    UpdateInv, Unfinished, Rival, Merged, Up
<1>4. CASE UNCHANGED vars
  BY <1>3, <1>4 DEF vars, accessVars, Elsewhere
<1>5. CASE Administer
  BY <1>0, <1>2, <1>3, <1>5, AdministerSteps
<1>6. CASE Maintain
  <2>1. UNCHANGED request
    BY <1>6 DEF Maintain, accessVars
  <2>2. CASE Upgrade \/ Downgrade
    <3>1. AllDown
      BY <2>2 DEF Upgrade, Downgrade
    <3>2. \A q \in Requests : request'[q].pc \notin UnderWay
      BY <1>0, <2>1, <3>1 DEF RequestInv, AllDown, Up
    <3>3. QED
      BY <1>0, <2>1, <3>2, OutOfHandlers
  <2>3. QED
    BY <1>0, <1>6, <2>1, <2>2, StartUpBeside DEF Maintain
<1>7. CASE \E p \in Processes : Stop(p)
  BY <1>0, <1>7, StopBeside
<1>8. CASE Finished
  BY <1>4, <1>8 DEF Finished
<1>9. QED
  BY <1>4, <1>5, <1>6, <1>7, <1>8 DEF Next

-----------------------------------------------------------------------------
(* What is noted of the reserved role while administrators work.           *)
LEMMA Noted ==
    ASSUME TypeOK, SessionInv, \A q \in Requests : RequestInv(q) /\ OthersInv(q), Administer
    PROVE  /\ UNCHANGED <<permission, user, process, revision>>
           /\ ~edited' => /\ ~edited
                          /\ \A r \in Roles : role'[r].code = SystemAdmin => role'[r] = role[r]
           /\ ~rekeyed' => ~rekeyed
           /\ ~rekeyed' =>
                 \A r \in Roles : role'[r].name = SystemAdminName =>
                     role'[r] = role[r] \/ role'[r].code = SystemAdmin
<1>1. UNCHANGED <<permission, user, process, revision>>
  BY AdministerSteps DEF Arrives, Looks, Writes, Alone, Elsewhere, tables
<1>2. rekeyed \in BOOLEAN /\ edited \in BOOLEAN
  BY DEF TypeOK, RolloutTypeOK
<1>3. ~edited' => /\ ~edited
                  /\ \A r \in Roles : role'[r].code = SystemAdmin => role'[r] = role[r]
  BY <1>2 DEF Administer, TouchesReserved
<1>4. ~rekeyed' => ~rekeyed
  BY <1>2 DEF Administer
<1>5. ~rekeyed' =>
         \A r \in Roles : role'[r].name = SystemAdminName =>
             role'[r] = role[r] \/ role'[r].code = SystemAdmin
  BY <1>2 DEF Administer
<1>6. QED
  BY <1>1, <1>3, <1>4, <1>5

(* Revisions bind what the reserved role lacks of them, take away what     *)
(* they brought, and a bootstrap makes the role complete or leaves it.     *)
LEMMA CompleteStep ==
    ASSUME IInv, [Next]_vars
    PROVE  CompleteInv'
<1>0. /\ TypeOK /\ StoreInv /\ CompleteInv /\ SessionInv
      /\ \A q \in Requests : RequestInv(q) /\ OthersInv(q)
      /\ \A p \in Processes : StartInv(p)
  BY DEF IInv, QInv
<1>1. /\ revision \in 0..Head /\ permission \subseteq Permissions
      /\ role \in [Roles -> RoleRow \cup {NoRole}] /\ nextRole \in Int
  BY <1>0 DEF TypeOK, StoreTypeOK, RolloutTypeOK
<1>2. CASE UNCHANGED <<permission, role, revision, edited>>
  BY <1>0, <1>2 DEF CompleteInv
<1>3. CASE Administer
  <2>1. /\ UNCHANGED <<permission, revision>>
        /\ ~edited' => /\ ~edited
                       /\ \A r \in Roles : role'[r].code = SystemAdmin => role'[r] = role[r]
    BY <1>0, <1>3, Noted
  <2>2. QED
    BY <1>0, <2>1 DEF CompleteInv
<1>4. CASE Upgrade
  <2> SUFFICES ASSUME ~edited', NEW r \in Roles, role'[r].code = SystemAdmin
               PROVE  /\ role'[r].active
                      /\ Bound(role'[r].grants) \subseteq permission'
                      /\ Permissions \ Bound(role'[r].grants) \subseteq BackfilledIn(revision', Head)
    BY DEF CompleteInv
  <2> DEFINE added == BackfilledIn(revision, Head)
  <2>1. ~edited
    BY <1>4 DEF Upgrade
  <2>2. /\ revision' = Head /\ permission' = permission \cup added
        /\ role[r].code = SystemAdmin /\ role'[r].active = role[r].active
        /\ Bound(role'[r].grants) = Bound(role[r].grants) \cup added
    BY <1>0, <1>4, UpgradedRows
  <2>3. /\ role[r].active /\ Bound(role[r].grants) \subseteq permission
        /\ Permissions \ Bound(role[r].grants) \subseteq added
    BY <1>0, <2>1, <2>2 DEF CompleteInv
  <2>4. role'[r].active
    BY <2>2, <2>3
  <2> HIDE DEF added
  <2>5. QED
    BY <2>2, <2>3, <2>4
<1>5. CASE Downgrade
  <2> SUFFICES ASSUME ~edited', NEW r \in Roles, role'[r].code = SystemAdmin
               PROVE  /\ role'[r].active
                      /\ Bound(role'[r].grants) \subseteq permission'
                      /\ Permissions \ Bound(role'[r].grants) \subseteq BackfilledIn(revision', Head)
    BY DEF CompleteInv
  <2> DEFINE dropped == BackfilledIn(revision - 1, revision)
             coming == BackfilledIn(revision, Head)
             again == BackfilledIn(revision', Head)
  <2>1. ~edited
    BY <1>5 DEF Downgrade
  <2>2. /\ revision \in 1..Head /\ revision' = revision - 1
        /\ permission' = permission \ dropped
        /\ role'[r].code = role[r].code /\ role'[r].active = role[r].active
        /\ Bound(role'[r].grants) = Bound(role[r].grants) \ dropped
    BY <1>0, <1>5, DowngradedRows
  <2>3. /\ role[r].active /\ Bound(role[r].grants) \subseteq permission
        /\ Permissions \ Bound(role[r].grants) \subseteq coming
    BY <1>0, <2>1, <2>2 DEF CompleteInv
  <2>4. again = dropped \cup coming
    <3>1. revision - 1 \in 0..Head /\ revision \in 0..Head /\ revision - 1 <= revision
      BY <2>2 DEF Head
    <3>2. BackfilledIn(revision - 1, Head) = dropped \cup coming
      BY <3>1, Backfilled
    <3>3. QED
      BY <2>2, <3>2
  <2>5. role'[r].active
    BY <2>2, <2>3
  <2> HIDE DEF dropped, coming
  <2>6. again = dropped \cup coming => Permissions \ Bound(role'[r].grants) \subseteq again
    <3> HIDE DEF again
    <3>1. QED
      BY <2>2, <2>3
  <2>7. Bound(role'[r].grants) \subseteq permission'
    BY <2>2, <2>3
  <2>8. QED
    BY <2>4, <2>5, <2>6, <2>7
<1>6. ASSUME NEW p \in Processes, StartUpStep(p)
      PROVE  CompleteInv'
  <2>1. UNCHANGED <<revision, edited>>
    BY <1>0, <1>6, StartedProcess
  <2>2. CASE UNCHANGED tables
    BY <1>2, <2>1, <2>2 DEF tables
  <2>3. CASE Inserts(p) /\ UNCHANGED role
    BY <1>0, <2>1, <2>3 DEF CompleteInv, Inserts
  <2>4. CASE /\ nextRole \in Roles /\ RoleMissing
             /\ role' = [role EXCEPT ![nextRole] = Reserved(Permissions)]
             /\ permission' = Permissions
    <3>1. \A r \in Roles : role'[r].code = SystemAdmin =>
             r = nextRole /\ role'[r] = Reserved(Permissions)
      BY <1>1, <2>4 DEF RoleMissing
    <3>2. QED
      BY <2>4, <3>1, ReservedRow DEF CompleteInv
  <2>5. QED
    BY <1>0, <1>6, <2>2, <2>3, <2>4, Started DEF Inserts
<1>7. CASE (\E p \in Processes : Stop(p)) \/ Finished \/ UNCHANGED vars
  BY <1>2, <1>7 DEF Stop, Finished, vars, tables, rolloutVars
<1>8. QED
  BY <1>3, <1>4, <1>5, <1>6, <1>7 DEF Next, Maintain

LEMMA NameStep ==
    ASSUME IInv, [Next]_vars
    PROVE  NameInv'
<1>0. /\ TypeOK /\ StoreInv /\ NameInv /\ SessionInv
      /\ \A q \in Requests : RequestInv(q) /\ OthersInv(q)
      /\ \A p \in Processes : StartInv(p)
  BY DEF IInv, QInv
<1>1. role \in [Roles -> RoleRow \cup {NoRole}] /\ nextRole \in Int
  BY <1>0 DEF TypeOK, StoreTypeOK
<1>2. CASE UNCHANGED <<role, rekeyed>>
  BY <1>0, <1>2 DEF NameInv
<1>3. CASE Administer
  <2>1. /\ ~rekeyed' => ~rekeyed
        /\ ~rekeyed' =>
              \A r \in Roles : role'[r].name = SystemAdminName =>
                  role'[r] = role[r] \/ role'[r].code = SystemAdmin
    BY <1>0, <1>3, Noted
  <2>2. QED
    BY <1>0, <2>1 DEF NameInv
<1>4. CASE Upgrade \/ Downgrade
  <2>1. \A r \in Roles : role'[r].name = role[r].name /\ role'[r].code = role[r].code
    BY <1>0, <1>4, UpgradedRows, DowngradedRows
  <2>2. UNCHANGED rekeyed
    BY <1>4 DEF Upgrade, Downgrade
  <2>3. QED
    BY <1>0, <2>1, <2>2 DEF NameInv
<1>5. ASSUME NEW p \in Processes, StartUpStep(p)
      PROVE  NameInv'
  <2>1. UNCHANGED rekeyed
    BY <1>0, <1>5, StartedProcess
  <2>2. CASE UNCHANGED role
    BY <1>2, <2>1, <2>2
  <2>3. CASE nextRole \in Roles /\ role' = [role EXCEPT ![nextRole] = Reserved(Permissions)]
    BY <1>0, <1>1, <2>1, <2>3, ReservedRow DEF NameInv
  <2>4. QED
    BY <1>0, <1>5, <2>2, <2>3, Started DEF Inserts, tables
<1>6. CASE (\E p \in Processes : Stop(p)) \/ Finished \/ UNCHANGED vars
  BY <1>2, <1>6 DEF Stop, Finished, vars, tables, rolloutVars
<1>7. QED
  BY <1>3, <1>4, <1>5, <1>6 DEF Next, Maintain

-----------------------------------------------------------------------------
(* Accounts are not taken back, and a process that serves is stopped       *)
(* before it starts again.                                                 *)
LEMMA SessionStep ==
    ASSUME IInv, [Next]_vars
    PROVE  SessionInv' /\ RootInv'
<1>0. /\ TypeOK /\ SessionInv /\ RootInv
      /\ \A q \in Requests : RequestInv(q) /\ OthersInv(q)
      /\ \A p \in Processes : StartInv(p)
  BY DEF IInv, QInv
<1>1. /\ session \in [Tokens -> [user : Users, at : Processes] \cup {None}]
      /\ process \in [Processes -> ProcessRow]
      /\ user \in [Users -> {"absent", "active", "inactive"}] /\ Root \in Users
  BY <1>0, IdentityAssumption DEF TypeOK, AccessTypeOK, StoreTypeOK
<1>2. CASE UNCHANGED <<session, process, user>>
  BY <1>0, <1>2 DEF SessionInv, RootInv, Up
<1>3. CASE Administer
  <2>1. UNCHANGED <<process, user>>
    BY <1>0, <1>3, AdministerSteps DEF Arrives, Looks, Writes, Alone, Elsewhere, tables
  <2>2. RootInv'
    BY <1>0, <2>1 DEF RootInv
  <2>3. SessionInv'
    <3>1. CASE UNCHANGED session
      BY <1>0, <2>1, <3>1 DEF SessionInv, Up
    <3>2. ASSUME NEW t \in Tokens, session' = [session EXCEPT ![t] = None]
          PROVE  SessionInv'
      BY <1>0, <1>1, <2>1, <3>2 DEF SessionInv, Up
    <3>3. ASSUME NEW t \in Tokens, NEW p \in Processes, NEW u \in Users, LoginAdmin(p, t, u)
          PROVE  SessionInv'
      <4>1. /\ Up(p) /\ user[u] = "active"
            /\ session' = [session EXCEPT ![t] = [user |-> u, at |-> p]]
        BY <3>3 DEF LoginAdmin, Enters
      <4>2. user[Root] # "absent"
        BY <1>0, <4>1 DEF RootInv
      <4>3. session'[t].at = p /\ \A o \in Tokens \ {t} : session'[o] = session[o]
        BY <1>1, <4>1
      <4>4. QED
        BY <1>0, <2>1, <4>1, <4>2, <4>3 DEF SessionInv, Up
    <3>4. ASSUME NEW q \in Requests, AccessStep(q)
          PROVE  UNCHANGED session
      BY <1>0, <3>4, Steps DEF Arrives, Looks, Writes, Alone
    <3>5. QED
      BY <1>3, <3>1, <3>2, <3>3, <3>4 DEF Administer, AccessNext, LogoutAdmin, SessionExpires
  <2>4. QED
    BY <2>2, <2>3
<1>4. ASSUME NEW p \in Processes, StartUpStep(p), UNCHANGED accessVars
      PROVE  SessionInv' /\ RootInv'
  <2>1. /\ process[p].pc # "up" /\ UNCHANGED session
        /\ \A o \in Processes \ {p} : process'[o] = process[o]
    BY <1>0, <1>4, StartedProcess DEF accessVars
  <2>2. user' = user \/ user' = [user EXCEPT ![Root] = "active"]
    BY <1>0, <1>4, Started DEF Inserts, tables
  <2>3. RootInv'
    BY <1>0, <1>1, <2>2 DEF RootInv
  <2>4. SessionInv'
    <3> SUFFICES ASSUME NEW t \in Tokens, session'[t] # None
                 PROVE  process'[session'[t].at].pc = "up" /\ user'[Root] # "absent"
      BY DEF SessionInv, Up
    <3>1. /\ session[t] # None /\ session'[t] = session[t]
          /\ session[t].at \in Processes
      BY <1>1, <2>1
    <3>2. Up(session[t].at) /\ user[Root] # "absent"
      BY <1>0, <3>1 DEF SessionInv
    <3>3. session[t].at # p
      BY <2>1, <3>2 DEF Up
    <3>4. QED
      BY <1>1, <2>1, <2>2, <3>1, <3>2, <3>3 DEF Up
  <2>5. QED
    BY <2>3, <2>4
<1>5. ASSUME NEW p \in Processes, Stop(p)
      PROVE  SessionInv' /\ RootInv'
  <2>1. /\ process' = [process EXCEPT ![p] = Stopped] /\ UNCHANGED tables
        /\ session' = [t \in Tokens |->
                          IF session[t] # None /\ session[t].at = p THEN None ELSE session[t]]
    BY <1>5 DEF Stop, At
  <2>2. RootInv'
    BY <1>0, <2>1 DEF RootInv, tables
  <2>3. SessionInv'
    <3> SUFFICES ASSUME NEW t \in Tokens, session'[t] # None
                 PROVE  process'[session'[t].at].pc = "up" /\ user'[Root] # "absent"
      BY DEF SessionInv, Up
    <3>1. session[t] # None /\ session'[t] = session[t] /\ session[t].at # p
      BY <2>1
    <3>2. session[t].at \in Processes /\ Up(session[t].at) /\ user[Root] # "absent"
      BY <1>0, <1>1, <3>1 DEF SessionInv
    <3>3. QED
      BY <1>1, <2>1, <3>1, <3>2 DEF Up, tables
  <2>4. QED
    BY <2>2, <2>3
<1>6. CASE Finished \/ UNCHANGED vars
  BY <1>2, <1>6 DEF Finished, vars, tables, accessVars
<1>7. CASE Maintain
  <2>1. CASE Upgrade \/ Downgrade
    BY <1>2, <1>7, <2>1 DEF Upgrade, Downgrade, Maintain, accessVars
  <2>2. QED
    BY <1>4, <1>7, <2>1 DEF Maintain
<1>8. QED
  BY <1>3, <1>5, <1>6, <1>7 DEF Next

(* A bootstrap's own step: what it reads is so, and what it has read is so *)
(* still if nobody raced it.                                               *)
LEMMA StartOwn ==
    ASSUME NEW p \in Processes, TypeOK, NameInv, StartInv(p), StartUpStep(p)
    PROVE  StartInv(p)'
<1> DEFINE x == process[p]
<1>1. /\ process \in [Processes -> ProcessRow] /\ x \in ProcessRow
      /\ permission \subseteq Permissions /\ rekeyed \in BOOLEAN
      /\ x.found \in Roles \cup {0}
  BY DEF TypeOK, StoreTypeOK, RolloutTypeOK, ProcessRow
<1>2. ASSUME NEW row, At(p, row) PROVE process'[p] = row
  BY <1>1, <1>2 DEF At
<1>3. ASSUME process'[p].pc \in {"up", "failed", "permissions"},
             process'[p].cause # "key"
      PROVE  StartInv(p)'
  BY <1>3 DEF StartInv
<1>4. CASE StartUp(p)
  <2>1. \/ process'[p] = [Stopped EXCEPT !.pc = "up"]
        \/ process'[p] = [Stopped EXCEPT !.pc = "failed", !.cause = "settings"]
        \/ process'[p] = [Stopped EXCEPT !.pc = "permissions"]
    BY <1>1, <1>4 DEF StartUp, At, Fails
  <2>2. QED
    BY <1>3, <2>1 DEF Stopped
<1>5. CASE EnsureBasePermissions(p)
  <2>1. CASE revision = 0
    <3>1. process'[p] = [Stopped EXCEPT !.pc = "failed", !.cause = "schema"]
      BY <1>1, <1>5, <2>1 DEF EnsureBasePermissions, Selects, At
    <3>2. QED
      BY <1>3, <3>1 DEF Stopped
  <2>2. CASE revision # 0
    <3>1. /\ process'[p] = [x EXCEPT !.pc = "role", !.lacks = Permissions \ permission]
          /\ UNCHANGED <<tables, rolloutVars>>
      BY <1>1, <1>5, <2>2 DEF EnsureBasePermissions, Selects, At
    <3>2. /\ process'[p].pc = "role" /\ process'[p].lacks = Permissions \ permission
          /\ process'[p].cause = x.cause
      BY <1>1, <3>1 DEF ProcessRow
    <3>3. QED
      BY <1>1, <3>1, <3>2 DEF StartInv, tables, rolloutVars
  <2>3. QED
    BY <2>1, <2>2
<1>6. CASE EnsureSystemAdminRole(p)
  <2>1. PICK r \in Roles \cup {0} :
           /\ IF RoleMissing THEN r = 0 ELSE r # 0 /\ role[r].code = SystemAdmin
           /\ Selects(p, "role", [x EXCEPT !.pc = "admin", !.found = r])
    BY <1>6 DEF EnsureSystemAdminRole
  <2>2. /\ x.pc = "role" /\ process'[p] = [x EXCEPT !.pc = "admin", !.found = r]
        /\ UNCHANGED <<tables, rolloutVars>>
    BY <1>1, <2>1 DEF Selects, At
  <2>3. /\ process'[p].pc = "admin" /\ process'[p].found = r
        /\ process'[p].lacks = x.lacks /\ process'[p].cause = x.cause
    BY <1>1, <2>2 DEF ProcessRow
  <2>4. IF r = 0 THEN RoleMissing ELSE role[r].code = SystemAdmin
    BY <2>1 DEF RoleMissing
  <2>5. QED
    BY <2>2, <2>3, <2>4 DEF StartInv, RoleMissing, tables, rolloutVars
<1>7. CASE EnsureFirstAdmin(p)
  <2> DEFINE b == user[Root] = "absent"
  <2>1. /\ x.pc = "admin" /\ process'[p] = [x EXCEPT !.pc = "write", !.fresh = b]
        /\ UNCHANGED <<tables, rolloutVars>>
    BY <1>1, <1>7 DEF EnsureFirstAdmin, Selects, At
  <2>2. /\ process'[p].pc = "write" /\ process'[p].fresh = b
        /\ process'[p].found = x.found
        /\ process'[p].lacks = x.lacks /\ process'[p].cause = x.cause
    BY <1>1, <2>1 DEF ProcessRow
  <2>3. QED
    BY <2>1, <2>2 DEF StartInv, RoleMissing, tables, rolloutVars
<1>8. CASE StartUpBreaks(p)
  <2>1. process'[p] = [Stopped EXCEPT !.pc = "failed", !.cause = "database"]
    BY <1>1, <1>8 DEF StartUpBreaks, Fails, At
  <2>2. QED
    BY <1>3, <2>1 DEF Stopped
<1>9. CASE Bootstrap(p) /\ KeyTaken(p)
  <2>1. /\ x.pc = "write" /\ UNCHANGED <<raced, rekeyed>>
        /\ process'[p] = [Stopped EXCEPT !.pc = "failed", !.cause = "key"]
    BY <1>1, <1>9 DEF Bootstrap, Fails, At
  <2>2. process'[p].pc = "failed"
    BY <2>1 DEF Stopped
  <2>3. ASSUME p \notin raced PROVE rekeyed
    <3>1. /\ x.lacks \cap permission = {}
          /\ IF x.found = 0 THEN RoleMissing ELSE role[x.found].code = SystemAdmin
          /\ x.fresh => user[Root] = "absent"
      BY <2>1, <2>3 DEF StartInv
    <3>2. ~(x.found # 0 /\ ~Live(x.found))
      BY <1>1, <3>1, RowFields, IdentityAssumption DEF Live, NoRole
    <3>3. x.found = 0 /\ ~KeysFree(None, SystemAdmin, SystemAdminName)
      BY <1>9, <3>1, <3>2 DEF KeyTaken
    <3>4. PICK o \in Roles : role[o].code = SystemAdmin \/ role[o].name = SystemAdminName
      BY <3>3 DEF KeysFree
    <3>5. role[o].name = SystemAdminName /\ role[o].code # SystemAdmin
      BY <3>1, <3>3, <3>4 DEF RoleMissing
    <3>6. QED
      BY <1>1, <3>5 DEF NameInv
  <2>4. QED
    BY <2>1, <2>2, <2>3 DEF StartInv
<1>10. CASE Bootstrap(p) /\ ~KeyTaken(p)
  <2>1. process'[p] = [Stopped EXCEPT !.pc = "up"]
    BY <1>1, <1>10 DEF Bootstrap, At
  <2>2. QED
    BY <1>3, <2>1 DEF Stopped
<1>11. QED
  BY <1>4, <1>5, <1>6, <1>7, <1>8, <1>9, <1>10 DEF StartUpStep

(* Whoever changes what a bootstrap has read is noted in raced.            *)
LEMMA StartStep ==
    ASSUME IInv, [Next]_vars
    PROVE  \A p \in Processes : StartInv(p)'
<1>0. /\ TypeOK /\ NameInv /\ SessionInv /\ StoreInv
      /\ \A q \in Requests : RequestInv(q) /\ OthersInv(q)
      /\ \A p \in Processes : StartInv(p)
  BY DEF IInv, QInv
<1>1. /\ process \in [Processes -> ProcessRow] /\ rekeyed \in BOOLEAN
      /\ role \in [Roles -> RoleRow \cup {NoRole}]
  BY <1>0 DEF TypeOK, StoreTypeOK, RolloutTypeOK
<1> SUFFICES ASSUME NEW p \in Processes PROVE StartInv(p)'
  OBVIOUS
<1> DEFINE x == process[p]
<1>2. x.found \in Roles \cup {0}
  BY <1>1 DEF ProcessRow
<1>3. CASE UNCHANGED <<permission, role, user, rekeyed, raced>> /\ process'[p] = process[p]
  BY <1>0, <1>3 DEF StartInv, RoleMissing
<1>4. CASE Administer
  <2>1. /\ UNCHANGED <<permission, process, user>> /\ (~rekeyed' => ~rekeyed)
        /\ raced' = raced \cup (IF TouchesReserved THEN Starting ELSE {})
    BY <1>0, <1>4, Noted DEF Administer
  <2>2. CASE x.pc \in Bootstrapping /\ p \notin raced'
    <3>1. ~TouchesReserved /\ p \notin raced
      BY <2>1, <2>2 DEF Starting
    <3>2. \A r \in Roles : (role'[r].code = SystemAdmin) <=> (role[r].code = SystemAdmin)
      BY <3>1 DEF TouchesReserved
    <3>3. RoleMissing' <=> RoleMissing
      BY <3>2 DEF RoleMissing
    <3>4. x.found # 0 => (role'[x.found].code = SystemAdmin <=> role[x.found].code = SystemAdmin)
      BY <1>2, <3>2
    <3>5. QED
      BY <1>0, <1>1, <2>1, <3>1, <3>3, <3>4 DEF StartInv
  <2>3. CASE ~(x.pc \in Bootstrapping /\ p \notin raced')
    BY <1>0, <1>1, <2>1, <2>3 DEF StartInv, Bootstrapping
  <2>4. QED
    BY <2>2, <2>3
<1>5. CASE Upgrade \/ Downgrade
  <2>1. x.pc = "down" /\ UNCHANGED <<process, rekeyed, raced>>
    BY <1>5 DEF Upgrade, Downgrade, AllDown
  <2>2. QED
    BY <1>0, <2>1 DEF StartInv
<1>6. ASSUME NEW o \in Processes, StartUpStep(o)
      PROVE  StartInv(p)'
  <2>1. CASE o = p
    BY <1>0, <1>6, <2>1, StartOwn
  <2>2. CASE o # p
    <3>1. /\ process'[p] = process[p] /\ UNCHANGED rekeyed
          /\ p \in raced => p \in raced'
          /\ UNCHANGED tables \/ Inserts(o)
      BY <1>0, <1>6, <2>2, Started, StartedProcess
    <3>2. CASE UNCHANGED tables
      BY <1>0, <3>1, <3>2 DEF StartInv, RoleMissing, tables
    <3>3. CASE Inserts(o)
      <4>1. permission \subseteq permission' /\ Starting \subseteq raced'
        BY <3>3 DEF Inserts
      <4>2. x.pc \in Bootstrapping => p \in raced'
        BY <4>1 DEF Starting
      <4>3. QED
        BY <1>0, <3>1, <4>1, <4>2 DEF StartInv, Bootstrapping
    <3>4. QED
      BY <3>1, <3>2, <3>3
  <2>3. QED
    BY <2>1, <2>2
<1>7. ASSUME NEW o \in Processes, Stop(o)
      PROVE  StartInv(p)'
  <2>1. process' = [process EXCEPT ![o] = Stopped] /\ UNCHANGED <<tables, rolloutVars>>
    BY <1>7 DEF Stop, At
  <2>2. CASE o = p
    <3>1. process'[p].pc = "down" /\ process'[p].cause = "none"
      BY <1>1, <2>1, <2>2 DEF Stopped
    <3>2. QED
      BY <3>1 DEF StartInv
  <2>3. CASE o # p
    BY <1>1, <1>3, <2>1, <2>3 DEF tables, rolloutVars
  <2>4. QED
    BY <2>2, <2>3
<1>8. CASE Finished \/ UNCHANGED vars
  BY <1>3, <1>8 DEF Finished, vars, tables, rolloutVars
<1>9. QED
  BY <1>4, <1>5, <1>6, <1>7, <1>8 DEF Next, Maintain

-----------------------------------------------------------------------------
(* A database that was found, bootstrapped (`used`) or not.                *)
LEMMA FoundTables ==
    ASSUME NEW clerk \in Clerks, NEW staffed \in SUBSET Staffed, RolloutInit(clerk, staffed)
    PROVE  /\ StoreTypeOK /\ RolloutTypeOK /\ StoreInv /\ CompleteInv /\ NameInv /\ RootInv
           /\ \A p \in Processes : StartInv(p)
<1>1. PICK rev \in InitialRevisions, used \in BOOLEAN :
         /\ revision = rev
         /\ permission = IF used THEN BaseAt(rev) ELSE BackfilledIn(0, rev)
         /\ role = [r \in Roles |->
                       IF used /\ r = 1 THEN Reserved(BaseAt(rev))
                       ELSE IF used /\ r = 2 THEN clerk ELSE NoRole]
         /\ nextRole = IF used THEN 3 ELSE 1
         /\ assigned = IF used
                       THEN staffed \cup {[user |-> Root, role |-> 1, by |-> Deploy]}
                       ELSE {}
         /\ user = [u \in Users |-> IF used THEN "active" ELSE "absent"]
  BY DEF RolloutInit
<1>2. /\ process = [p \in Processes |-> Stopped]
      /\ rekeyed = FALSE /\ edited = FALSE /\ raced = {}
  BY DEF RolloutInit
<1>3. /\ rev \in 0..Head /\ MaxRoles \in Nat /\ MaxRoles > 1
      /\ clerk \in RoleRow /\ clerk.code # SystemAdmin /\ clerk.name # SystemAdminName
  BY AdministrationAssumption, IdentityAssumption
<1> DEFINE base == BaseAt(rev)
           first == Reserved(base)
<1>4. /\ base \subseteq Permissions /\ BackfilledIn(0, rev) \subseteq Permissions
      /\ Permissions \ base \subseteq BackfilledIn(rev, Head)
  <2>1. 0 \in 0..Head
    BY DEF Head
  <2>2. QED
    BY <1>3, <2>1, Backfilled DEF BaseAt
<1>5. /\ first.active /\ first.code = SystemAdmin /\ first.name = SystemAdminName
      /\ first.grants = base \X {Deploy} /\ first \in RoleRow
  <2>1. base \X {Deploy} \in SUBSET (Permissions \X Makers)
    BY <1>4 DEF Makers
  <2> HIDE DEF base
  <2>2. QED
    BY <2>1, IdentityAssumption DEF Reserved, RoleRow
<1>6. Bound(first.grants) = base
  BY <1>5, BoundProduct
<1>7. /\ NoRole.code # SystemAdmin /\ NoRole.name # SystemAdminName
  BY IdentityAssumption DEF NoRole
<1> HIDE DEF base, first
<1>8. \A r \in Roles : role[r] = IF used /\ r = 1 THEN first
                                 ELSE IF used /\ r = 2 THEN clerk ELSE NoRole
  BY <1>1 DEF first, base
<1>9. role \in [Roles -> RoleRow \cup {NoRole}]
  <2>1. \A r \in Roles : role[r] \in RoleRow \cup {NoRole}
    BY <1>3, <1>5, <1>8
  <2>2. QED
    BY <1>1, <2>1
<1>10. assigned \subseteq [user : Users, role : Roles, by : Makers]
  <2>1. 1 \in Roles /\ 2 \in Roles
    BY <1>3 DEF Roles
  <2>2. Staffed \subseteq [user : Users, role : Roles, by : Makers]
    BY <2>1, AdministrationAssumption DEF Makers
  <2>3. [user |-> Root, role |-> 1, by |-> Deploy] \in [user : Users, role : Roles, by : Makers]
    BY <2>1, IdentityAssumption DEF Makers
  <2>4. QED
    BY <1>1, <2>2, <2>3
<1>11. StoreTypeOK
  <2>1. permission \subseteq Permissions
    BY <1>1, <1>4 DEF base
  <2>2. nextRole \in 1..(MaxRoles + 1)
    BY <1>1, <1>3
  <2>3. Stopped \in ProcessRow
    BY DEF Stopped, ProcessRow
  <2>4. QED
    BY <1>1, <1>2, <1>9, <1>10, <2>1, <2>2, <2>3 DEF StoreTypeOK
<1>12. RolloutTypeOK
  BY <1>1, <1>2, <1>3 DEF RolloutTypeOK
<1>13. StoreInv
  BY <1>1, <1>3, <1>8 DEF StoreInv, Roles
<1>14. CompleteInv
  <2> SUFFICES ASSUME NEW r \in Roles, role[r].code = SystemAdmin
               PROVE  /\ role[r].active
                      /\ Bound(role[r].grants) \subseteq permission
                      /\ Permissions \ Bound(role[r].grants) \subseteq BackfilledIn(revision, Head)
    BY DEF CompleteInv
  <2>1. used /\ role[r] = first
    BY <1>3, <1>7, <1>8
  <2>2. permission = base /\ revision = rev
    BY <1>1, <2>1 DEF base
  <2>3. QED
    BY <1>4, <1>5, <1>6, <2>1, <2>2
<1>15. NameInv
  <2>1. \A r \in Roles : role[r].name = SystemAdminName => role[r].code = SystemAdmin
    BY <1>3, <1>5, <1>7, <1>8
  <2>2. QED
    BY <1>2, <2>1 DEF NameInv
<1>16. RootInv
  BY <1>1, IdentityAssumption DEF RootInv
<1>17. \A p \in Processes : StartInv(p)
  <2>1. Stopped.pc = "down" /\ Stopped.cause = "none"
    BY DEF Stopped
  <2>2. QED
    BY <1>2, <2>1 DEF StartInv
<1>18. QED
  BY <1>11, <1>12, <1>13, <1>14, <1>15, <1>16, <1>17

LEMMA InitIInv == Init => IInv
<1> SUFFICES ASSUME Init PROVE IInv
  OBVIOUS
<1>1. /\ StoreTypeOK /\ RolloutTypeOK /\ StoreInv /\ CompleteInv /\ NameInv /\ RootInv
      /\ \A p \in Processes : StartInv(p)
  BY FoundTables DEF Init
<1>2. AccessTypeOK
  <2>1. Idle \in RequestRow
    BY DEF Idle, RequestRow
  <2>2. QED
    BY <2>1 DEF Init, AccessInit, AccessTypeOK
<1>3. stops \in 0..MaxStops
  BY AdministrationAssumption DEF Init
<1>4. \A q \in Requests : QInv(q)
  <2>1. \A q \in Requests : request[q].pc = "idle"
    BY DEF Init, AccessInit, Idle
  <2>2. QED
    BY <2>1 DEF QInv, RequestInv, OthersInv, DeleteInv, AssignInv, UpdateInv, UnderWay, Inside
<1>5. SessionInv
  BY DEF Init, AccessInit, SessionInv
<1>6. QED
  BY <1>1, <1>2, <1>3, <1>4, <1>5 DEF IInv, TypeOK

LEMMA NextIInv == IInv /\ [Next]_vars => IInv'
BY TypeStep, RequestsStep, CompleteStep, NameStep, SessionStep, StartStep DEF IInv

(* The invariant the other theorems rest on.                               *)
THEOREM Invariant == Spec => []IInv
BY InitIInv, NextIInv, PTL DEF Spec

(* Tables, requests, sessions and counters keep their types, whatever      *)
(* administrators, revisions and restarts do (models.py, the migrations).  *)
THEOREM TypeCorrect == Spec => []TypeOK
<1>1. IInv => TypeOK
  BY DEF IInv
<1>2. QED
  BY <1>1, Invariant, PTL

(* A serving process on the schema of its code has a complete reserved     *)
(* role, as long as no administrator touched that role.                    *)
THEOREM ReservedRoleComplete == Spec => []ReservedRoleIsComplete
<1>1. IInv => ReservedRoleIsComplete
  <2> SUFFICES ASSUME IInv, revision = Head, ~edited,
                      NEW r \in Roles, role[r].code = SystemAdmin
               PROVE  role[r].active /\ Bound(role[r].grants) = permission
    BY DEF ReservedRoleIsComplete
  <2>1. /\ role[r].active
        /\ Bound(role[r].grants) \subseteq permission
        /\ Permissions \ Bound(role[r].grants) \subseteq BackfilledIn(revision, Head)
    BY DEF IInv, CompleteInv
  <2>2. BackfilledIn(Head, Head) = {}
    <3>1. Head \in 0..Head
      BY DEF Head
    <3>2. QED
      BY <3>1, Backfilled
  <2>3. permission \subseteq Permissions
    BY DEF IInv, TypeOK, StoreTypeOK
  <2>4. QED
    BY <2>1, <2>2, <2>3
<1>2. QED
  BY <1>1, Invariant, PTL

(* What a bootstrap read holds until it commits, so that no key refuses    *)
(* it, unless the reserved name has been given away or it lost to somebody *)
(* who committed meanwhile.                                                *)
THEOREM StartUpLoses == Spec => []StartUpLosesToARival
<1>1. IInv => StartUpLosesToARival
  BY DEF IInv, StartInv, StartUpLosesToARival
<1>2. QED
  BY <1>1, Invariant, PTL

(* A request reads and writes for its operation, or is done, only if the   *)
(* permission for that operation was found.                                *)
THEOREM ChangesAllowed == Spec => []EveryChangeWasAllowed
<1>1. IInv => EveryChangeWasAllowed
  BY DEF IInv, QInv, RequestInv, EveryChangeWasAllowed, Inside
<1>2. QED
  BY <1>1, Invariant, PTL

-----------------------------------------------------------------------------
(* A request completes by the write of its own operation.                  *)
LEMMA Completing ==
    ASSUME IInv, [Next]_vars, NEW q \in Requests, Completes(q)
    PROVE  /\ Writes(q) /\ request'[q].pc = "done" /\ request'[q].op = request[q].op
           /\ Administer
<1>0. TypeOK /\ SessionInv /\ \A o \in Requests : RequestInv(o) /\ OthersInv(o)
  BY DEF IInv, QInv
<1>1. request[q].pc = "write" /\ request'[q].pc = "done"
  BY DEF Completes
<1>2. Administer
  <2>1. ASSUME NEW p \in Processes, Stop(p)
        PROVE  FALSE
    <3>1. request'[q] = request[q] \/ request'[q] = Ended(request[q], "failed")
      BY <2>1 DEF Stop
    <3>2. request[q] \in RequestRow
      BY <1>0 DEF TypeOK, AccessTypeOK
    <3>3. QED
      BY <1>1, <3>1, <3>2, RequestRows DEF Final
  <2>2. QED
    BY <1>1, <2>1 DEF Next, Maintain, Finished, vars, accessVars
<1>3. PICK a \in Requests : Arrives(a) \/ Looks(a) \/ Writes(a)
  <2>1. request' # request
    BY <1>1
  <2>2. QED
    BY <1>0, <1>2, <2>1, AdministerSteps DEF Elsewhere
<1>4. a = q
  BY <1>0, <1>1, <1>3, Bystanders
<1>5. Writes(q)
  BY <1>1, <1>3, <1>4 DEF Arrives, Looks, Inside
<1>6. QED
  BY <1>1, <1>2, <1>5 DEF Writes

(* A deletion takes only assignments that were made beside it.             *)
THEOREM DeletionSpares == Spec => DeletionSparesTheAssigned
<1>1. IInv /\ [Next]_vars =>
         [\A q \in Requests :
             Completes(q) /\ request[q].op.kind = "deleteRole" =>
                 \A row \in assigned \ assigned' : row.by \in request[q].others]_vars
  <2> SUFFICES ASSUME IInv, [Next]_vars, NEW q \in Requests, Completes(q),
                      request[q].op.kind = "deleteRole",
                      NEW row \in assigned \ assigned'
               PROVE  row.by \in request[q].others
    OBVIOUS
  <2>1. Writes(q) /\ request'[q].pc = "done"
    BY Completing
  <2>2. Drops(q)
    BY <2>1 DEF Writes, Creates, Updates, Assigns
  <2>3. row \in request[q].rows
    BY <2>2 DEF Drops
  <2>4. DeleteInv(q) /\ request[q].pc = "write"
    BY DEF IInv, QInv, Completes
  <2>5. QED
    BY <2>3, <2>4 DEF DeleteInv
<1>2. QED
  BY <1>1, Invariant, PTL DEF Spec, DeletionSparesTheAssigned

(* A user holds exactly what a completed assignment asked for, unless      *)
(* another one for the same user ran beside it, through the API or in      *)
(* another process.                                                        *)
THEOREM AssignmentsExact == Spec => AssignmentsAreExact
<1> DEFINE Exact(q) ==
             LET op == request[q].op IN
             Completes(q) /\ op.kind = "assignRoles" =>
                 \/ RolesOf(op.user)' = op.roles
                 \/ \E o \in request[q].others :
                       /\ request[o].pc = "done" /\ request[o].op.kind = "assignRoles"
                       /\ request[o].op.user = op.user
                       /\ \/ "api" \in {request[q].via, request[o].via}
                          \/ request[q].at # request[o].at
<1>1. IInv /\ [Next]_vars => [\A q \in Requests : Exact(q)]_vars
  <2> SUFFICES ASSUME IInv, [Next]_vars, NEW q \in Requests, Completes(q),
                      request[q].op.kind = "assignRoles"
               PROVE  \/ RolesOf(request[q].op.user)' = request[q].op.roles
                      \/ \E o \in request[q].others : Rival(q, o)
    BY DEF Rival, Beside
  <2>1. /\ Writes(q) /\ request'[q].pc = "done" /\ request'[q].op = request[q].op
        /\ request[q].pc = "write" /\ AssignInv(q)
    BY Completing DEF Completes, IInv, QInv
  <2>2. Assigns(q)
    BY <2>1 DEF Writes, Creates, Updates, Drops
  <2> DEFINE u == request[q].op.user
             new == [user : {u}, role : request[q].op.roles, by : {q}]
  <2>3. CASE {row \in assigned : row.user = u} \subseteq request[q].rows
    <3>1. \A row \in assigned' : row.user = u <=> row \in new
      BY <2>2, <2>3 DEF Assigns
    <3>2. new \subseteq assigned'
      BY <2>2 DEF Assigns
    <3>3. \A r \in request[q].op.roles :
             \E row \in new : row.role = r
      <4> SUFFICES ASSUME NEW r \in request[q].op.roles
                   PROVE  \E row \in new : row.role = r
        OBVIOUS
      <4>1. [user |-> u, role |-> r, by |-> q] \in new
        OBVIOUS
      <4>2. QED
        BY <4>1
    <3>4. \A row \in new : row.role \in request[q].op.roles
      OBVIOUS
    <3> HIDE DEF new
    <3>5. {row.role : row \in {x \in assigned' : x.user = u}} = request[q].op.roles
      BY <3>1, <3>2, <3>3, <3>4
    <3>6. QED
      BY <2>1, <3>5 DEF RolesOf
  <2>4. QED
    BY <2>1, <2>3 DEF AssignInv
<1>2. QED
  BY <1>1, Invariant, PTL DEF Spec, AssignmentsAreExact

-----------------------------------------------------------------------------
(* The row an update leaves grants what the updates it merges asked for.   *)
LEMMA UpdateGives ==
    ASSUME IInv, NEW a \in Requests, Completes(a), Updates(a),
           NEW p \in Effective(Updated(a))
    PROVE  Gives(a, request[a].op.role, p)
<1> DEFINE op == request[a].op
           old == request[a].seen
           now == role[op.role]
           mates == Merged(a, op.role)
<1>1. /\ request[a].pc = "write" /\ op.kind = "updateRole" /\ op.active \in BOOLEAN
      /\ UpdateInv(a) /\ a \in mates
  <2>1. request[a].pc = "write" /\ op.kind = "updateRole"
    BY DEF Completes, Updates
  <2>2. op \in Operations /\ UpdateInv(a)
    BY <2>1 DEF IInv, QInv, RequestInv, UnderWay, Inside
  <2>3. QED
    BY <2>1, <2>2, OperationFields DEF Merged
<1>2. Updated(a).active /\ p \in Bound(Updated(a).grants)
  BY DEF Effective
<1>3. \E x \in mates : request[x].op.active
  <2>1. op.active \/ (now.active /\ ~old.active)
    BY <1>1, <1>2 DEF Updated, Column
  <2>2. QED
    BY <1>1, <2>1 DEF UpdateInv
<1>4. \E y \in mates : p \in request[y].op.grants
  <2>1. PICK b \in (now.grants \ old.grants) \cup (op.grants \X {a}) : p = b[1]
    BY <1>2 DEF Updated, Bound
  <2>2. CASE b \in op.grants \X {a}
    BY <1>1, <2>1, <2>2, BindingFields
  <2>3. CASE b \in now.grants \ old.grants
    BY <1>1, <2>1, <2>3 DEF UpdateInv
  <2>4. QED
    BY <2>2, <2>3
<1>5. QED
  BY <1>1, <1>3, <1>4 DEF Gives

(* What a role grants anew was asked for by an administrator, brought by   *)
(* its revision, or made with the reserved role.                           *)
THEOREM GrantsSourced == Spec => GrantsHaveASource
<1> DEFINE Source(r, p) ==
             \/ \E q \in Requests : Gives(q, r, p)
             \/ p \in BackfilledIn(revision, revision') /\ role[r].code = SystemAdmin
             \/ ~Live(r) /\ RoleMissing /\ \E s \in Processes : s \in Starting /\ Up(s)'
           Gained(r) == Effective(role'[r]) \ Effective(role[r])
<1>1. ASSUME IInv, [Next]_vars, NEW r \in Roles, NEW p \in Gained(r)
      PROVE  Source(r, p)
  <2>0. /\ TypeOK /\ StoreInv /\ SessionInv
        /\ \A o \in Requests : RequestInv(o) /\ OthersInv(o)
        /\ \A s \in Processes : StartInv(s)
        /\ role \in [Roles -> RoleRow \cup {NoRole}] /\ nextRole \in Int
    BY <1>1 DEF IInv, QInv, TypeOK, StoreTypeOK
  <2>1. /\ p \in Effective(role'[r]) /\ p \notin Effective(role[r]) /\ role'[r] # role[r]
        /\ role'[r].active /\ p \in Bound(role'[r].grants)
    BY <1>1 DEF Effective
  <2>2. CASE Administer
    <3>1. PICK a \in Requests : Arrives(a) \/ Looks(a) \/ Writes(a)
      BY <2>0, <2>1, <2>2, AdministerSteps DEF Elsewhere, tables
    <3>2. /\ Writes(a) /\ request'[a].pc = "done" /\ request[a].pc = "write"
          /\ request[a].op \in Operations /\ Completes(a)
          /\ Creates(a) \/ Updates(a) \/ Drops(a)
      BY <2>1, <3>1 DEF Arrives, Looks, Writes, Assigns, tables, Completes
    <3>3. CASE Creates(a)
      <4>1. /\ r = nextRole /\ role'[r].active = request[a].op.active
            /\ role'[r].grants = request[a].op.grants \X {a}
        BY <2>0, <2>1, <3>3 DEF Creates
      <4>2. Bound(role'[r].grants) = request[a].op.grants
        BY <4>1, BoundProduct
      <4>3. request[a].op.active /\ p \in request[a].op.grants
        BY <2>1, <4>1, <4>2
      <4>4. Gives(a, r, p)
        BY <3>2, <3>3, <4>3 DEF Gives, Creates, Merged
      <4>5. QED
        BY <4>4
    <3>4. CASE Updates(a)
      <4>1. r = request[a].op.role /\ role'[r] = Updated(a)
        BY <2>0, <2>1, <3>4 DEF Updates
      <4>2. Gives(a, r, p)
        BY <1>1, <2>1, <3>2, <3>4, <4>1, UpdateGives
      <4>3. QED
        BY <4>2
    <3>5. CASE Drops(a)
      <4>1. CASE request[a].op.kind = "deleteRole"
        BY <2>0, <2>1, <3>5, <4>1 DEF Drops, NoRole
      <4>2. CASE request[a].op.kind # "deleteRole"
        <5>1. /\ r = request[a].op.role /\ role[r] \in RoleRow
              /\ role' = [role EXCEPT ![r] = [role[r] EXCEPT !.active = FALSE]]
          BY <2>0, <2>1, <3>5, <4>2 DEF Drops, Live
        <5>2. QED
          BY <2>0, <2>1, <5>1 DEF RoleRow
      <4>3. QED
        BY <4>1, <4>2
    <3>6. QED
      BY <3>2, <3>3, <3>4, <3>5
  <2>3. CASE Upgrade
    <3> DEFINE added == BackfilledIn(revision, Head)
    <3>1. /\ revision' = Head /\ role[r].code = SystemAdmin
          /\ role'[r].active = role[r].active
          /\ Bound(role'[r].grants) = Bound(role[r].grants) \cup added
      BY <2>0, <2>1, <2>3, UpgradedRows
    <3>2. p \in added
      <4> HIDE DEF added
      <4>1. QED
        BY <2>1, <3>1 DEF Effective
    <3>3. QED
      BY <3>1, <3>2
  <2>4. CASE Downgrade
    <3>1. /\ role'[r].active = role[r].active
          /\ Bound(role'[r].grants) \subseteq Bound(role[r].grants)
      BY <2>0, <2>4, DowngradedRows
    <3>2. QED
      BY <2>1, <3>1 DEF Effective
  <2>5. ASSUME NEW s \in Processes, StartUpStep(s)
        PROVE  Source(r, p)
    <3>1. Inserts(s)
      BY <2>0, <2>1, <2>5, Started DEF tables
    <3>2. RoleMissing /\ role' = [role EXCEPT ![nextRole] = Reserved(Permissions)]
      BY <2>1, <3>1 DEF Inserts
    <3>3. s \in Starting /\ Up(s)'
      BY <3>1 DEF Inserts, Starting, Bootstrapping, Up
    <3>4. r = nextRole
      BY <2>0, <2>1, <3>2
    <3>5. ~Live(r)
      BY <2>0, <3>4 DEF StoreInv, Live
    <3>6. QED
      BY <3>2, <3>3, <3>5
  <2>6. CASE Administer \/ Maintain
    BY <2>2, <2>3, <2>4, <2>5, <2>6 DEF Maintain
  <2>7. CASE (\E s \in Processes : Stop(s)) \/ Finished \/ UNCHANGED vars
    BY <2>1, <2>7 DEF Stop, Finished, vars, tables
  <2>8. QED
    BY <1>1, <2>6, <2>7 DEF Next
<1>2. IInv /\ [Next]_vars => [\A r \in Roles : \A p \in Gained(r) : Source(r, p)]_vars
  BY <1>1
<1>3. QED
  BY <1>2, Invariant, PTL DEF Spec, GrantsHaveASource

===============================================================================
