--------------------------- MODULE MCAdministration ---------------------------
EXTENDS Administration, TLC

CONSTANTS root, clerk, r1, r2, t1, p1, p2

(* The clerk may enter and assign roles, if the role is in use.            *)
ClerkRoles == [code : {"clerk"}, name : {"Clerk"}, active : BOOLEAN,
               grants : {{PortalAccess, UsersRolesWrite} \X {Deploy}}]
ClerkRow == {[user |-> clerk, role |-> 2, by |-> Deploy]}

MCOperations ==
    {[kind |-> "createRole", code |-> "aide", name |-> "Aide", active |-> TRUE,
      grants |-> {PortalAccess, RolesRead}],
     \* the reserved code is changed, its name is not
     [kind |-> "updateRole", role |-> 1, code |-> "aide", name |-> "System Admin",
      active |-> TRUE, grants |-> {PortalAccess, RolesWrite}],
     \* both are, and a bootstrap will make the role anew
     [kind |-> "updateRole", role |-> 1, code |-> "aide", name |-> "Aide",
      active |-> TRUE, grants |-> {PortalAccess, RolesWrite}],
     [kind |-> "updateRole", role |-> 2, code |-> "clerk", name |-> "Clerk",
      active |-> TRUE, grants |-> {PortalAccess}],
     [kind |-> "updateRole", role |-> 2, code |-> "clerk", name |-> "Clerk",
      active |-> FALSE, grants |-> {RolesRead}],
     [kind |-> "deactivateRole", role |-> 1],
     [kind |-> "deleteRole", role |-> 1],
     [kind |-> "deleteRole", role |-> 2],
     [kind |-> "assignRoles", user |-> clerk, roles |-> {}],
     [kind |-> "assignRoles", user |-> clerk, roles |-> {1}],
     [kind |-> "assignRoles", user |-> clerk, roles |-> {2}],
     [kind |-> "assignRoles", user |-> clerk, roles |-> {1, 3}],
     [kind |-> "assignRoles", user |-> root, roles |-> {2}]}

Symmetric == Permutations({r1, r2}) \cup Permutations({p1, p2})
=============================================================================
