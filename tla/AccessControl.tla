----------------------------- MODULE AccessControl -----------------------------
(***************************************************************************)
(* Administrators at work on roles and their assignments: log-in, the      *)
(* in-memory sessions, the permission checks of the JSON API and of the    *)
(* admin portal, and every writing request of PermissionService, split     *)
(* where another transaction may commit in between.                        *)
(*                                                                         *)
(* A request ends "done" (committed), "refused" (an AppError) or "failed"  *)
(* (an error of the database nobody maps, answered 500).  In every case    *)
(* but the first its transaction leaves nothing behind.  The reads an      *)
(* answer is built from come after that and change nothing: they are left  *)
(* out, and so are those of the page a portal form answers with, which     *)
(* shows all roles to whoever may enter, done or refused.                  *)
(***************************************************************************)
EXTENDS IdentityStore

CONSTANTS
    Tokens,             \* session cookies
    Operations          \* what requests ask for (see Operation)

Operation ==
    [kind : {"createRole"}, code : Codes, name : Names, active : BOOLEAN,
     grants : SUBSET Permissions]
    \cup [kind : {"updateRole"}, role : Roles, code : Codes, name : Names,
          active : BOOLEAN, grants : SUBSET Permissions]
    \cup [kind : {"deactivateRole", "deleteRole"}, role : Roles]
    \cup [kind : {"assignRoles"}, user : Users, roles : SUBSET Roles]

ASSUME OperationAssumption == Operations \subseteq Operation

VARIABLES
    session,        \* AdminSessionStore: token -> its user and the process it is kept in
    request         \* request -> [pc, op, via, at, who, seen, rows, others, allowed]

accessVars == <<session, request>>

Final == {"done", "refused", "failed"}
Idle == [pc |-> "idle", op |-> None, via |-> "api", at |-> None, who |-> None,
         seen |-> NoRole, rows |-> {}, others |-> {}, allowed |-> FALSE]

(* What is remembered of a request that is over.                           *)
Ended(x, how) ==
    IF how = "done" THEN [x EXCEPT !.pc = how, !.who = None, !.seen = NoRole, !.rows = {}]
    ELSE [Idle EXCEPT !.pc = how]

RequestRow ==
    [pc : {"idle", "granted", "check", "gather", "write"} \cup Final,
     op : Operations \cup {None}, via : {"api", "portal"},
     at : Processes \cup {None}, who : Users \cup {None},
     seen : RoleRow \cup {NoRole},
     rows : SUBSET [user : Users, role : Roles, by : Makers],
     others : SUBSET Requests,  \* history: requests not finished when this one looked
     allowed : BOOLEAN]         \* history: the permission was held at a check

AccessTypeOK ==
    /\ session \in [Tokens -> [user : Users, at : Processes] \cup {None}]
    /\ request \in [Requests -> RequestRow]

AccessInit ==
    /\ session = [t \in Tokens |-> None]
    /\ request = [q \in Requests |-> Idle]

-----------------------------------------------------------------------------
(* Sessions.  Log-in asks for the portal permission, and so does every     *)
(* later use of the session.                                               *)
Enters(u) == user[u] = "active" /\ PortalAccess \in Granted(u)

LoginAdmin(p, t, u) ==
    /\ Up(p) /\ session[t] = None
    /\ Enters(u)
    /\ session' = [session EXCEPT ![t] = [user |-> u, at |-> p]]
    /\ UNCHANGED <<tables, process, request>>

LogoutAdmin(t) ==
    /\ session[t] # None
    /\ session' = [session EXCEPT ![t] = None]
    /\ UNCHANGED <<tables, process, request>>

(* expires_at <= utc_now(): the record is dropped.                         *)
SessionExpires(t) ==
    /\ session[t] # None
    /\ session' = [session EXCEPT ![t] = None]
    /\ UNCHANGED <<tables, process, request>>

-----------------------------------------------------------------------------
(* What the API asks for each operation ...                                *)
Needs(op) == IF op.kind = "assignRoles" THEN UsersRolesWrite ELSE RolesWrite

(* ... and what the dependency of the route asks: one form of the portal   *)
(* carries every operation on roles, behind the permission to enter, and   *)
(* asks for the rest when it has read which operation it is.               *)
RouteNeeds(op, via) ==
    IF via = "portal" /\ op.kind # "assignRoles" THEN PortalAccess ELSE Needs(op)

(* The dependency, in a thread of its own.  A refusal has no effect.       *)
Authorize(q) ==
    \E t \in Tokens, op \in Operations, via \in {"api", "portal"} :
        /\ request[q].pc = "idle" /\ session[t] # None
        /\ Enters(session[t].user)
        /\ RouteNeeds(op, via) \in Granted(session[t].user)
        /\ request' = [request EXCEPT ![q] =
              [Idle EXCEPT !.pc = "granted", !.op = op, !.via = via,
                           !.at = session[t].at, !.who = session[t].user,
                           !.allowed = Needs(op) \in Granted(session[t].user)]]
        /\ UNCHANGED <<tables, process, session>>

(* ensure_permission inside the portal's form on roles, before a branch    *)
(* reads or writes anything for its operation.  Who fails it gets the page *)
(* with the error, and with all roles like everybody who may enter.        *)
(* Mutant: a branch that forgot it.                                        *)
BranchAllowsAll(q) == TRUE

BranchAllows(q) ==
    RouteNeeds(request[q].op, request[q].via) # Needs(request[q].op)
        => Needs(request[q].op) \in Granted(request[q].who)

(* A handler of the portal is a coroutine that never waits once it has     *)
(* read the form: the event loop of a process runs one of them at a time,  *)
(* while those of the API run in threads.  Mutant: the portal's run in     *)
(* threads too.                                                            *)
LoopIsAlwaysFree(q) == TRUE

LoopIsFree(q) ==
    request[q].via = "portal" =>
        \A o \in Requests \ {q} :
            \/ request[o].via = "api" \/ request[o].at # request[q].at
            \/ request[o].pc \notin {"check", "gather", "write"}

Unfinished == {o \in Requests : request[o].pc \notin Final}

(* The handler starts and reads; `next` is where it stands then.           *)
Enter(q, kind, next, seen, rows) ==
    LET x == request[q]
        held == Needs(x.op) \in Granted(x.who)
    IN  /\ x.pc = "granted" /\ x.op.kind = kind
        /\ LoopIsFree(q)
        /\ request' = [request EXCEPT ![q] =
              IF BranchAllows(q) /\ next # "refused"
              THEN [x EXCEPT !.pc = next, !.who = None, !.seen = seen, !.rows = rows,
                             !.others = Unfinished \ {q},
                             !.allowed = IF held THEN TRUE ELSE x.allowed]
              ELSE Ended(x, "refused")]
        /\ UNCHANGED <<tables, process, session>>

-----------------------------------------------------------------------------
(* Reads of the four operations on roles.                                  *)
CreateRoleCheck(q) ==
    LET op == request[q].op IN
    Enter(q, "createRole",
          IF KeysFree(None, op.code, op.name) /\ op.grants \subseteq permission
          THEN "write" ELSE "refused", NoRole, {})

UpdateRoleLoad(q) ==
    LET op == request[q].op IN
    Enter(q, "updateRole",
          IF Live(op.role) /\ KeysFree(op.role, op.code, op.name)
             /\ op.grants \subseteq permission
          THEN "write" ELSE "refused", role[op.role], {})

DeactivateRoleLoad(q) ==
    LET r == request[q].op.role IN
    Enter(q, "deactivateRole", IF role[r].active THEN "write" ELSE "refused", role[r], {})

DeleteRoleLoad(q) ==
    LET r == request[q].op.role IN
    Enter(q, "deleteRole",
          IF Live(r) /\ role[r].code # SystemAdmin THEN "check" ELSE "refused", role[r], {})

(* has_user_assignments.  Mutant: nobody asks.                             *)
DeleteRoleUnchecked(q) ==
    /\ request[q].pc = "check"
    /\ request' = [request EXCEPT ![q].pc = "gather", ![q].others = Unfinished \ {q}]
    /\ UNCHANGED <<tables, process, session>>

DeleteRoleCheck(q) ==
    /\ request[q].pc = "check"
    /\ request' = [request EXCEPT ![q] =
          IF \E row \in assigned : row.role = request[q].op.role
          THEN Ended(@, "refused")
          ELSE [@ EXCEPT !.pc = "gather", !.others = Unfinished \ {q}]]
    /\ UNCHANGED <<tables, process, session>>

(* session.delete: the cascade loads the assignments there are by now.     *)
DeleteRoleGather(q) ==
    /\ request[q].pc = "gather"
    /\ request' = [request EXCEPT
          ![q].pc = "write",
          ![q].rows = {row \in assigned : row.role = request[q].op.role}]
    /\ UNCHANGED <<tables, process, session>>

AssignRolesLoad(q) ==
    LET op == request[q].op IN
    Enter(q, "assignRoles",
          IF user[op.user] # "absent" /\ \A r \in op.roles : role[r].active
          THEN "write" ELSE "refused",
          NoRole, {row \in assigned : row.user = op.user})

-----------------------------------------------------------------------------
Writing(q, kind) == request[q].pc = "write" /\ request[q].op.kind = kind

Answer(q, how) ==
    /\ request' = [request EXCEPT ![q] = Ended(@, how)]
    /\ UNCHANGED <<permission, user, process, session>>

(* Any statement of a write may fail (a deadlock, a lost connection).      *)
StatementFails(q) ==
    /\ request[q].pc = "write"
    /\ Answer(q, "failed")
    /\ UNCHANGED <<role, nextRole, assigned>>

CreateRoleWrite(q) ==
    LET op == request[q].op IN
    /\ Writing(q, "createRole") /\ nextRole \in Roles
    /\ IF KeysFree(None, op.code, op.name)
       THEN /\ role' = [role EXCEPT ![nextRole] =
                  [code |-> op.code, name |-> op.name, active |-> op.active,
                   grants |-> op.grants \X {q}]]
            /\ nextRole' = nextRole + 1
            /\ Answer(q, "done")
       ELSE Answer(q, "failed") /\ UNCHANGED <<role, nextRole>>
    /\ UNCHANGED assigned

(* A column is written when it differs from what was loaded.               *)
Column(loaded, wanted, current) == IF wanted # loaded THEN wanted ELSE current

(* The row an update leaves: the bindings it loaded are deleted by their   *)
(* ids, bindings of others stay, the wanted ones are inserted.             *)
Updated(q) ==
    LET op == request[q].op
        old == request[q].seen
        now == role[op.role]
    IN  [code |-> Column(old.code, op.code, now.code),
         name |-> Column(old.name, op.name, now.name),
         active |-> Column(old.active, op.active, now.active),
         grants |-> (now.grants \ old.grants) \cup (op.grants \X {q})]

(* Mutant: the foreign key of the bindings is missing.                     *)
UpdateRoleOrphan(q) ==
    LET op == request[q].op IN
    /\ Writing(q, "updateRole")
    /\ role' = [role EXCEPT ![op.role] = Updated(q)]
    /\ Answer(q, "done")
    /\ UNCHANGED <<nextRole, assigned>>

UpdateRoleWrite(q) ==
    LET op == request[q].op
        old == request[q].seen
        others == role[op.role].grants \ old.grants
        new == Updated(q)
        silent == /\ op.grants = {} /\ op.code = old.code
                  /\ op.name = old.name /\ op.active = old.active
    IN  /\ Writing(q, "updateRole")
        /\ IF /\ Live(op.role)
              /\ KeysFree(op.role, new.code, new.name)
              /\ Bound(others) \cap op.grants = {}
           THEN role' = [role EXCEPT ![op.role] = new] /\ Answer(q, "done")
           ELSE \* without the role only an update that writes nothing passes
                /\ Answer(q, IF ~Live(op.role) /\ silent THEN "done" ELSE "failed")
                /\ UNCHANGED role
        /\ UNCHANGED <<nextRole, assigned>>

DeactivateRoleWrite(q) ==
    LET r == request[q].op.role IN
    /\ Writing(q, "deactivateRole")
    /\ IF Live(r)
       THEN role' = [role EXCEPT ![r].active = FALSE] /\ Answer(q, "done")
       ELSE Answer(q, "failed") /\ UNCHANGED role
    /\ UNCHANGED <<nextRole, assigned>>

(* The DELETE of the role fails on a binding or an assignment it did not   *)
(* load, and without the role it deletes nothing.                          *)
DeleteRoleWrite(q) ==
    LET r == request[q].op.role IN
    /\ Writing(q, "deleteRole")
    /\ IF /\ role[r].grants \subseteq request[q].seen.grants
          /\ {row \in assigned : row.role = r} \subseteq request[q].rows
       THEN /\ role' = [role EXCEPT ![r] = NoRole]
            /\ assigned' = assigned \ request[q].rows
            /\ Answer(q, "done")
       ELSE Answer(q, "failed") /\ UNCHANGED <<role, assigned>>
    /\ UNCHANGED nextRole

(* replace_roles: in one flush the new rows are inserted before the loaded *)
(* ones are deleted, so the unique key refuses every role the user holds   *)
(* already, and the foreign key a role that is gone.                       *)
AssignRolesWrite(q) ==
    LET op == request[q].op IN
    /\ Writing(q, "assignRoles")
    /\ IF op.roles \cap RolesOf(op.user) = {} /\ \A r \in op.roles : Live(r)
       THEN /\ assigned' = (assigned \ request[q].rows)
                           \cup [user : {op.user}, role : op.roles, by : {q}]
            /\ Answer(q, "done")
       ELSE Answer(q, "failed") /\ UNCHANGED assigned
    /\ UNCHANGED <<role, nextRole>>

-----------------------------------------------------------------------------
AccessStep(q) ==
    \/ Authorize(q)
    \/ CreateRoleCheck(q) \/ UpdateRoleLoad(q) \/ DeactivateRoleLoad(q)
    \/ DeleteRoleLoad(q) \/ DeleteRoleCheck(q) \/ DeleteRoleGather(q) \/ AssignRolesLoad(q)
    \/ CreateRoleWrite(q) \/ UpdateRoleWrite(q) \/ DeactivateRoleWrite(q)
    \/ DeleteRoleWrite(q) \/ AssignRolesWrite(q) \/ StatementFails(q)

AccessNext ==
    \/ \E q \in Requests : AccessStep(q)
    \/ \E t \in Tokens :
          \/ LogoutAdmin(t) \/ SessionExpires(t)
          \/ \E p \in Processes, u \in Users : LoginAdmin(p, t, u)
=============================================================================
