----------------------------- MODULE IdentityStore -----------------------------
(***************************************************************************)
(* The identity tables: permissions, roles with their role_permissions,    *)
(* user_roles and users, with the unique keys and foreign keys the         *)
(* migrations put on them.  AccessControl (the administrators' requests)   *)
(* and Rollout (migrations and bootstrap) both write these tables.         *)
(*                                                                         *)
(* A binding row has an id of its own and the code deletes by id, so a row *)
(* is a permission (or a role) together with the request that inserted it. *)
(***************************************************************************)
EXTENDS Integers, FiniteSets

CONSTANTS
    Users, Root,        \* accounts with an e-mail address; the first administrator
    Requests,           \* requests of administrators
    MaxRoles,           \* bound on the roles ever inserted
    Codes, Names,       \* role codes and role names in use
    SystemAdmin, SystemAdminName,   \* the reserved role's
    Processes,          \* server processes on the one database
    None

PortalAccess == "admin.portal.access"
RolesRead == "identity.roles.read"
RolesWrite == "identity.roles.write"
PermissionsRead == "identity.permissions.read"
UsersWrite == "identity.users.write"
UsersRolesWrite == "identity.users.roles.write"
DepartmentsWrite == "identity.departments.write"
BlocksWrite == "violation.manual_blocks.write"

(* BASE_PERMISSION_DEFINITIONS                                             *)
Permissions ==
    {PortalAccess, RolesRead, RolesWrite, PermissionsRead,
     UsersWrite, UsersRolesWrite, DepartmentsWrite, BlocksWrite}

Roles == 1..MaxRoles
Deploy == "deploy"              \* maker of the rows no request inserted
Makers == Requests \cup {Deploy}

ASSUME IdentityAssumption ==
    /\ Root \in Users /\ MaxRoles \in Nat \ {0} /\ None \notin Roles
    /\ SystemAdmin \in Codes /\ SystemAdminName \in Names
    /\ None \notin Codes \cup Names \cup Users \cup Processes
    /\ Deploy \notin Requests

VARIABLES
    permission,     \* rows of permissions
    role,           \* id -> its row, NoRole when there is none
    nextRole,       \* the id the next insert gets
    assigned,       \* rows of user_roles: [user, role, by]
    user,           \* e-mail address -> "absent" | "active" | "inactive"
    process         \* process -> [pc, lacks, found, fresh, cause]

tables == <<permission, role, nextRole, assigned, user>>

NoRole == [code |-> None, name |-> None, active |-> FALSE, grants |-> {}]

RoleRow == [code : Codes, name : Names, active : BOOLEAN,
            grants : SUBSET (Permissions \X Makers)]

(* How far a process is: down, in one of the statements of its bootstrap,  *)
(* up, or ended by a failure of its start-up and what caused it.  Of the   *)
(* bootstrap: the permissions it did not find, the role it found (0: none) *)
(* and whether there was no first administrator.                           *)
Bootstrapping == {"permissions", "role", "admin", "write"}

ProcessRow ==
    [pc : Bootstrapping \cup {"down", "up", "failed"},
     lacks : SUBSET Permissions, found : Roles \cup {0}, fresh : BOOLEAN,
     cause : {"none", "settings", "schema", "key", "database"}]

Stopped == [pc |-> "down", lacks |-> {}, found |-> 0, fresh |-> FALSE, cause |-> "none"]

StoreTypeOK ==
    /\ permission \subseteq Permissions
    /\ role \in [Roles -> RoleRow \cup {NoRole}]
    /\ nextRole \in 1..(MaxRoles + 1)
    /\ assigned \subseteq [user : Users, role : Roles, by : Makers]
    /\ user \in [Users -> {"absent", "active", "inactive"}]
    /\ process \in [Processes -> ProcessRow]

-----------------------------------------------------------------------------
Up(p) == process[p].pc = "up"

Starting == {p \in Processes : process[p].pc \in Bootstrapping}

Live(r) == role[r] # NoRole

(* The permissions a set of role_permissions rows is about.                *)
Bound(rows) == {row[1] : row \in rows}

RolesOf(u) == {row.role : row \in {x \in assigned : x.user = u}}

(* list_permissions_for_user, user_has_permission: inactive roles do not   *)
(* count.                                                                  *)
Granted(u) ==
    {p \in permission : \E r \in RolesOf(u) : role[r].active /\ p \in Bound(role[r].grants)}

(* The unique keys on roles.code and roles.name, for a new row (None) or   *)
(* for the row of role r.                                                  *)
KeysFree(r, code, name) ==
    \A o \in Roles : o # r => role[o].code # code /\ role[o].name # name
=============================================================================
