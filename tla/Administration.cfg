\* Two processes, two requests and thirteen operations through either door, three of them at once.
SPECIFICATION Spec
CONSTANTS
    root = root  clerk = clerk  r1 = r1  r2 = r2  t1 = t1
    p1 = p1  p2 = p2
    None = None
    Processes = {p1, p2}
    Users = {root, clerk}
    Root = root
    Requests = {r1, r2}
    Tokens = {t1}
    MaxRoles = 3
    Codes = {"system_admin", "clerk", "aide"}
    Names = {"System Admin", "Clerk", "Aide"}
    SystemAdmin = "system_admin"
    SystemAdminName = "System Admin"
    Operations <- MCOperations
    Clerks <- ClerkRoles
    Staffed <- ClerkRow
    InitialRevisions = {0, 3}
    Oldest = 5
    MaxStops = 1
    MaxEngaged = 3
SYMMETRY Symmetric
INVARIANTS
    TypeOK
    ReservedRoleIsComplete
    StartUpLosesToARival
    EveryChangeWasAllowed
PROPERTIES
    GrantsHaveASource
    DeletionSparesTheAssigned
    AssignmentsAreExact
