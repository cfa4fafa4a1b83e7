SPECIFICATION Spec
CONSTANTS
    sa = sa
    c = c
    root = root
    m = m
    assign = assign
    other = other
    t1 = t1
    t2 = t2
    Members = {root, m}
    Root = root
    RoleIds = {sa, c}
    BuiltIn <- OneBuiltIn
    Names = {"super_admin", "treasurer"}
    SystemNames = {"super_admin"}
    AdminNames = {"super_admin"}
    RootName = "super_admin"
    UniqueNames = FALSE
    Permissions = {assign, other}
    AssignRoles = assign
    ManageUsers = other
    Seeded <- SeededOnce
    Lists <- AtMostOne
    Threads = {t1, t2}
    Batches = {1, 2, 3}
    MaxRequests = 4
SYMMETRY Interchangeable
INVARIANTS
    TypeOK
    GrantsFollowRequests
    HoldingsFollowAssignments
    SystemRolesStay
PROPERTIES
    RestartRestoresRoot
    DirectorySpec
