SPECIFICATION Spec
CONSTANTS
    Users = {u1, u2}
    Orgs = {o1, o2}
    Workspaces = {k1}
    Groups = {g1}
    Documents = {d1}
    OrganizationRoles = {"owner", "evaluation_admin"}
    WorkspaceRoles = {"manager", "member"}
    Levels = {"viewer", "manager"}
    Sessions = {s1, s2}
    Nil = Nil
    MaxRequests = 5
    MaxChanges = 1
SYMMETRY Symmetry
INVARIANTS
    TypeOK
    AccessDefinitionsAgree
PROPERTIES
    OnlyManagersChangeReaders
CHECK_DEADLOCK FALSE
