----------------------------- MODULE Administration -----------------------------
(***************************************************************************)
(* The life of a deployment: databases of earlier releases are upgraded or *)
(* not, processes start with or without their bootstrap, administrators    *)
(* work on roles until a process stops or crashes, an operator may step    *)
(* back a revision when all have, and they start again.  Composes          *)
(* AccessControl and Rollout over the tables of IdentityStore.             *)
(***************************************************************************)
EXTENDS AccessControl, Rollout

CONSTANTS
    Clerks, Staffed,    \* what a second role may be, and who may have been given it
    MaxStops,           \* bound on stops of processes
    MaxEngaged          \* bound on requests made and processes started, at any time

VARIABLE stops          \* how often a process has stopped

vars == <<tables, process, accessVars, rolloutVars, stops>>

ASSUME AdministrationAssumption ==
    /\ MaxStops \in Nat /\ MaxEngaged \in Nat
    /\ InitialRevisions \subseteq 0..Head /\ Oldest \in 1..Head
    /\ \A clerk \in Clerks :
          clerk \in RoleRow /\ clerk.code # SystemAdmin /\ clerk.name # SystemAdminName
    /\ Staffed \subseteq [user : Users, role : {2}, by : {Deploy}]
    /\ MaxRoles > 1

TypeOK ==
    /\ StoreTypeOK /\ AccessTypeOK /\ RolloutTypeOK
    /\ stops \in 0..MaxStops

-----------------------------------------------------------------------------
Init ==
    /\ AccessInit
    /\ \E clerk \in Clerks, staffed \in SUBSET Staffed : RolloutInit(clerk, staffed)
    /\ stops = 0

(* What administrators do to the reserved role and its name is noted, also *)
(* for the processes that start meanwhile.                                 *)
TouchesReserved ==
    \E r \in Roles : role'[r] # role[r] /\ SystemAdmin \in {role[r].code, role'[r].code}

Engaged ==
    Cardinality({q \in Requests : request[q].pc # "idle"})
        + Cardinality({p \in Processes : process[p].pc # "down"})

Administer ==
    /\ AccessNext /\ Engaged' <= MaxEngaged
    /\ rekeyed' = (rekeyed \/ \E r \in Roles :
                      /\ role'[r] # role[r]
                      /\ role'[r].name = SystemAdminName /\ role'[r].code # SystemAdmin)
    /\ edited' = (edited \/ TouchesReserved)
    /\ raced' = raced \cup (IF TouchesReserved THEN Starting ELSE {})
    /\ UNCHANGED <<revision, stops>>

Maintain ==
    /\ Upgrade \/ Downgrade \/ \E p \in Processes : StartUpStep(p)
    /\ UNCHANGED <<accessVars, stops>>
    /\ Engaged' <= MaxEngaged

(* A deployment, a crash: its sessions and open transactions are gone.     *)
Stop(p) ==
    /\ process[p].pc # "down" /\ stops < MaxStops
    /\ At(p, Stopped) /\ stops' = stops + 1
    /\ session' = [t \in Tokens |->
                      IF session[t] # None /\ session[t].at = p THEN None ELSE session[t]]
    /\ request' = [q \in Requests |->
                      IF request[q].pc \in Final \cup {"idle"} \/ request[q].at # p
                      THEN request[q] ELSE Ended(request[q], "failed")]
    /\ UNCHANGED <<tables, rolloutVars>>

(* Nobody has to come back; a request or a start-up under way has to end.  *)
Finished ==
    /\ stops = MaxStops /\ Starting = {}
    /\ \A q \in Requests : request[q].pc \in Final \cup {"idle"}
    /\ UNCHANGED vars

Next == Administer \/ Maintain \/ (\E p \in Processes : Stop(p)) \/ Finished

Spec == Init /\ [][Next]_vars

-----------------------------------------------------------------------------
(* Steps that complete a request.                                          *)
Completes(q) == request[q].pc = "write" /\ request'[q].pc = "done"

(* The requests whose wishes an update merges: it deletes the bindings it  *)
(* loaded, and writes the columns it changed.                              *)
Merged(q, r) ==
    {q} \cup {o \in request[q].others :
                 /\ request[o].pc = "done" /\ request[o].op.kind = "updateRole"
                 /\ request[o].op.role = r}

Gives(q, r, p) ==
    LET op == request[q].op IN
    /\ Completes(q)
    /\ op.kind \in {"createRole", "updateRole"}
    /\ op.kind = "updateRole" => op.role = r
    /\ \E x, y \in Merged(q, r) : request[x].op.active /\ p \in request[y].op.grants

Effective(row) == IF row.active THEN Bound(row.grants) ELSE {}

(* Nothing but an administrator's request, the revision that introduces a  *)
(* permission, or the creation of the reserved role makes a role grant it: *)
(* no start-up and no repeated upgrade brings back a permission or a role   *)
(* somebody has taken away, and of updates of one role that run beside     *)
(* each other, one asked for the permission and one for an active role     *)
(* (role_repository.py, bootstrap_service.py, the backfilling revisions).  *)
GrantsHaveASource ==
    [][\A r \in Roles : \A p \in Effective(role'[r]) \ Effective(role[r]) :
          \/ \E q \in Requests : Gives(q, r, p)
          \/ p \in BackfilledIn(revision, revision') /\ role[r].code = SystemAdmin
          \/ ~Live(r) /\ RoleMissing /\ \E s \in Processes : s \in Starting /\ Up(s)']_vars

(* A serving process on the schema it was written for has a reserved role  *)
(* with every base permission, whatever revision the database was found    *)
(* at, started before it was upgraded or not, as long as no administrator  *)
(* has touched that role (backfills of 000002, 000004 and 000006 together  *)
(* with the bootstrap).                                                    *)
ReservedRoleIsComplete ==
    (\E p \in Processes : Up(p)) /\ revision = Head /\ ~edited =>
        \A r \in Roles : role[r].code = SystemAdmin =>
            role[r].active /\ Bound(role[r].grants) = permission

(* On a database with its tables, the bootstrap of a process that has its  *)
(* settings, and whose statements do not fail for reasons of their own, is *)
(* stopped in two cases only: the reserved name is on a role with another  *)
(* code, or while it was under way somebody else committed, another        *)
(* process its bootstrap or an administrator a change to the reserved      *)
(* role.  A reserved role that was deactivated or stripped before, or a    *)
(* first administrator who was, does not stop it (bootstrap_service.py).   *)
StartUpLosesToARival ==
    \A p \in Processes : process[p].cause = "key" => rekeyed \/ p \in raced

(* Deleting a role takes an assignment away only if that assignment was    *)
(* made by a request that was still running when the deletion looked for   *)
(* assignments (permission_service.py: check, then delete with cascade).   *)
DeletionSparesTheAssigned ==
    [][\A q \in Requests :
          Completes(q) /\ request[q].op.kind = "deleteRole" =>
              \A row \in assigned \ assigned' : row.by \in request[q].others]_vars

(* A completed assignment leaves the user with exactly the roles asked     *)
(* for, unless another assignment for the same user ran beside it, and     *)
(* that takes the API or two processes: the forms of one portal are served *)
(* one at a time.                                                          *)
AssignmentsAreExact ==
    [][\A q \in Requests :
          LET op == request[q].op IN
          Completes(q) /\ op.kind = "assignRoles" =>
              \/ RolesOf(op.user)' = op.roles
              \/ \E o \in request[q].others :
                    /\ request[o].pc = "done" /\ request[o].op.kind = "assignRoles"
                    /\ request[o].op.user = op.user
                    /\ \/ "api" \in {request[q].via, request[o].via}
                       \/ request[q].at # request[o].at]_vars

(* Whatever way a request takes, through the API or the one form of the    *)
(* portal, and whatever happens to roles and assignments on its way: what  *)
(* its operation reads to decide and what it writes comes only after the   *)
(* permission for that very operation was found.  (Not so the reads that   *)
(* show the portal's page again: they need the permission to enter only.)  *)
(* (admin_rbac.py, admin_identity.py: ensure_permission in each branch)    *)
EveryChangeWasAllowed ==
    \A q \in Requests :
        request[q].pc \in {"check", "gather", "write", "done"} => request[q].allowed
=============================================================================
