-------------------------------- MODULE Rollout --------------------------------
(***************************************************************************)
(* From a database to serving processes: `alembic upgrade head`, one       *)
(* transaction for all revisions, then the start-up of each process with   *)
(* the bootstrap of the base permissions, the reserved role and the first  *)
(* administrator, one transaction too, whose SELECTs see what others       *)
(* commit in between.  A process may also be started without the upgrade   *)
(* (the container's command has it, running uvicorn by hand has not), and  *)
(* an operator may take revisions back.                                    *)
(*                                                                         *)
(* Of the schema only what the identity tables need is modelled, and       *)
(* revisions change only while no process runs.  DATABASE_AUTO_CREATE,     *)
(* which makes tables without revisions, is off in every deployment the    *)
(* repository has and is left out.                                         *)
(***************************************************************************)
EXTENDS IdentityStore

CONSTANTS
    InitialRevisions,       \* revisions a database may be found at
    Oldest                  \* bound on how far an operator steps back

VARIABLES
    revision,       \* alembic_version, 0 for an empty database
    rekeyed,        \* history: an administrator took the reserved name or code away
    edited,         \* history: an administrator changed the reserved role
    raced           \* history: starting processes for whom the tables changed

rolloutVars == <<revision, rekeyed, edited, raced>>

Head == 6

RolloutTypeOK ==
    /\ revision \in 0..Head /\ rekeyed \in BOOLEAN /\ edited \in BOOLEAN
    /\ raced \subseteq Processes

-----------------------------------------------------------------------------
(* The permission a revision adds for databases that were bootstrapped     *)
(* before the code knew it.                                                *)
BackfillUsers == [revision |-> 2, permission |-> UsersWrite]
BackfillDepartments == [revision |-> 4, permission |-> DepartmentsWrite]
BackfillBlocks == [revision |-> 6, permission |-> BlocksWrite]

Backfills == {BackfillUsers, BackfillDepartments, BackfillBlocks}

BackfilledIn(from, to) ==
    {b.permission : b \in {x \in Backfills : from < x.revision /\ x.revision <= to}}

(* What a database at this revision was bootstrapped with: the permissions *)
(* the code of that time knew.                                             *)
BaseAt(rev) == Permissions \ BackfilledIn(rev, Head)

Reserved(perms) ==
    [code |-> SystemAdmin, name |-> SystemAdminName, active |-> TRUE,
     grants |-> perms \X {Deploy}]

-----------------------------------------------------------------------------
AllDown == \A p \in Processes : process[p].pc = "down"

(* Mutant: a permission that exists is taken for bound.                    *)
UpgradeNewOnly ==
    LET added == BackfilledIn(revision, Head) \ permission IN
    /\ AllDown
    /\ revision' = Head
    /\ permission' = permission \cup added
    /\ role' = [r \in Roles |->
                   IF role[r].code = SystemAdmin
                   THEN [role[r] EXCEPT !.grants =
                            @ \cup {<<p, Deploy>> : p \in added \ Bound(@)}]
                   ELSE role[r]]
    /\ UNCHANGED <<nextRole, assigned, user, process, rekeyed, edited, raced>>

(* alembic upgrade head: each backfill inserts its permission if it is     *)
(* missing and binds it to the role with the reserved code, if there is    *)
(* one and it is not bound.                                                *)
Upgrade ==
    LET added == BackfilledIn(revision, Head) IN
    /\ AllDown
    /\ revision' = Head
    /\ permission' = permission \cup added
    /\ role' = [r \in Roles |->
                   IF role[r].code = SystemAdmin
                   THEN [role[r] EXCEPT !.grants =
                            @ \cup {<<p, Deploy>> : p \in added \ Bound(@)}]
                   ELSE role[r]]
    /\ UNCHANGED <<nextRole, assigned, user, process, rekeyed, edited, raced>>

(* alembic downgrade -1: the bindings of the permission, in every role, and *)
(* the permission itself.                                                  *)
Downgrade ==
    LET dropped == BackfilledIn(revision - 1, revision) IN
    /\ AllDown /\ revision > Oldest
    /\ revision' = revision - 1
    /\ permission' = permission \ dropped
    /\ role' = [r \in Roles |->
                   [role[r] EXCEPT !.grants = {row \in @ : row[1] \notin dropped}]]
    /\ UNCHANGED <<nextRole, assigned, user, process, rekeyed, edited, raced>>

-----------------------------------------------------------------------------
At(p, row) == process' = [process EXCEPT ![p] = row]
Fails(p, cause) == At(p, [Stopped EXCEPT !.pc = "failed", !.cause = cause])

(* A SELECT of the bootstrap: what it found is kept, nothing is written.   *)
Selects(p, from, found) ==
    /\ process[p].pc = from
    /\ At(p, found)
    /\ UNCHANGED <<tables, rolloutVars>>

(* run_identity_bootstrap: switched off, or without its two settings, or   *)
(* under way.                                                              *)
StartUp(p) ==
    /\ process[p].pc = "down"
    /\ \/ At(p, [Stopped EXCEPT !.pc = "up"])
       \/ Fails(p, "settings")
       \/ At(p, [Stopped EXCEPT !.pc = "permissions"])
    /\ raced' = raced \ {p}
    /\ UNCHANGED <<tables, revision, rekeyed, edited>>

(* The first SELECT, which an empty database has no table for.             *)
EnsureBasePermissions(p) ==
    Selects(p, "permissions",
        IF revision = 0 THEN [Stopped EXCEPT !.pc = "failed", !.cause = "schema"]
        ELSE [process[p] EXCEPT !.pc = "role", !.lacks = Permissions \ permission])

(* Is there no role to keep?  Mutant: only an active one is looked for.    *)
NoActiveRole == \A r \in Roles : role[r].code # SystemAdmin \/ ~role[r].active

RoleMissing == \A r \in Roles : role[r].code # SystemAdmin

EnsureSystemAdminRole(p) ==
    \E r \in Roles \cup {0} :
        /\ IF RoleMissing THEN r = 0 ELSE r # 0 /\ role[r].code = SystemAdmin
        /\ Selects(p, "role", [process[p] EXCEPT !.pc = "admin", !.found = r])

EnsureFirstAdmin(p) ==
    Selects(p, "admin",
        [process[p] EXCEPT !.pc = "write", !.fresh = (user[Root] = "absent")])

(* A unique or foreign key refuses a row the bootstrap inserts.            *)
KeyTaken(p) ==
    LET x == process[p] IN
    \/ x.lacks \cap permission # {}
    \/ x.found = 0 /\ ~KeysFree(None, SystemAdmin, SystemAdminName)
    \/ x.fresh /\ user[Root] # "absent"
    \/ x.fresh /\ x.found # 0 /\ ~Live(x.found)

(* The bootstrap is create-only: a role it found is left as it is ...      *)
(* Mutant: what that role lacks is bound.                                  *)
RepairsRole(p) ==
    LET r == process[p].found IN
    IF r = 0
    THEN /\ nextRole \in Roles
         /\ role' = [role EXCEPT ![nextRole] = Reserved(Permissions)]
         /\ nextRole' = nextRole + 1
    ELSE /\ role' = [role EXCEPT ![r].grants =
                        @ \cup {<<x, Deploy>> : x \in Permissions \ Bound(@)}]
         /\ UNCHANGED nextRole

InsertsRole(p) ==
    IF process[p].found = 0
    THEN /\ nextRole \in Roles
         /\ role' = [role EXCEPT ![nextRole] = Reserved(Permissions)]
         /\ nextRole' = nextRole + 1
    ELSE UNCHANGED <<role, nextRole>>

(* ... and so is an existing account.                                      *)
InsertsFirstAdmin(p) ==
    LET found == process[p].found IN
    IF process[p].fresh
    THEN /\ user' = [user EXCEPT ![Root] = "active"]
         /\ assigned' = assigned \cup
               {[user |-> Root, role |-> IF found = 0 THEN nextRole ELSE found, by |-> Deploy]}
    ELSE UNCHANGED <<user, assigned>>

(* The INSERTs and the COMMIT.  They are one step: an INSERT whose key is  *)
(* in an uncommitted row waits for that row's transaction, so which of two *)
(* rivals inserted first shows only in which of them commits.              *)
Bootstrap(p) ==
    /\ process[p].pc = "write"
    /\ IF KeyTaken(p)
       THEN Fails(p, "key") /\ UNCHANGED <<tables, raced>>
       ELSE /\ permission' = permission \cup process[p].lacks
            /\ InsertsRole(p) /\ InsertsFirstAdmin(p)
            /\ At(p, [Stopped EXCEPT !.pc = "up"])
            /\ raced' = raced \cup (IF tables' = tables THEN {} ELSE Starting)
    /\ UNCHANGED <<revision, rekeyed, edited>>

(* Any statement of it may fail (a lost connection).                       *)
StartUpBreaks(p) ==
    /\ p \in Starting
    /\ Fails(p, "database")
    /\ UNCHANGED <<tables, rolloutVars>>

StartUpStep(p) ==
    \/ StartUp(p)
    \/ EnsureBasePermissions(p) \/ EnsureSystemAdminRole(p) \/ EnsureFirstAdmin(p)
    \/ Bootstrap(p) \/ StartUpBreaks(p)

-----------------------------------------------------------------------------
(* A database of an earlier release: bootstrapped with the permissions of  *)
(* its time, or not bootstrapped at all; clerk is a second role an         *)
(* administrator has set up.                                               *)
RolloutInit(clerk, staffed) ==
    /\ \E rev \in InitialRevisions, used \in BOOLEAN :
          /\ revision = rev
          /\ used => rev > 0
          /\ permission = IF used THEN BaseAt(rev) ELSE BackfilledIn(0, rev)
          /\ role = [r \in Roles |->
                        IF used /\ r = 1 THEN Reserved(BaseAt(rev))
                        ELSE IF used /\ r = 2 THEN clerk ELSE NoRole]
          /\ nextRole = IF used THEN 3 ELSE 1
          /\ assigned = IF used
                        THEN staffed \cup {[user |-> Root, role |-> 1, by |-> Deploy]}
                        ELSE {}
          /\ user = [u \in Users |-> IF used THEN "active" ELSE "absent"]
    /\ process = [p \in Processes |-> Stopped]
    /\ rekeyed = FALSE /\ edited = FALSE /\ raced = {}
=============================================================================
