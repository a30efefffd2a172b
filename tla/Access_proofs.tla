--------------------------- MODULE Access_proofs ---------------------------
(***************************************************************************)
(* Proofs about Access, for any number of users, organizations, objects    *)
(* and sessions.  The inductive invariant says what a session in progress  *)
(* may rely on (the identifiers it reserved are still unused, its document *)
(* still exists, its actor is still entitled unless marked outdated) and   *)
(* how rows of different tables agree about their organization.            *)
(***************************************************************************)
EXTENDS Access, TLAPS

DocumentOperations == {"add_user_permission", "remove_user_permission",
                       "add_group_permission", "remove_group_permission"}
Creations == {"create_workspace", "create_group", "upload"}

(* A row to be created does not exist yet, and no other session creates it. *)
Reservations ==
    /\ \A s \in Sessions :
          /\ request[s].op = "create_workspace" =>
                workspace[request[s].who] = Nil /\ request[s].on \in organizations
          /\ request[s].op = "create_group" => group[request[s].who] = Nil
          /\ request[s].op = "upload" =>
                ~Stored(request[s].who) /\ workspace[request[s].on] # Nil
    /\ \A s, t \in Sessions :
          request[s].op \in Creations /\ request[t].op = request[s].op
            /\ request[t].who = request[s].who => s = t

(* Memberships, workspaces, documents and group grants agree about their    *)
(* organization, and it exists.                                             *)
TenancyAgrees ==
    /\ \A o \in Orgs, u \in Users : org_role[o][u] # "none" => o \in organizations
    /\ \A w \in Workspaces : workspace[w] # Nil => workspace[w] \in organizations
    /\ \A d \in Documents : Stored(d) => workspace[document[d].workspace] = document[d].org
    /\ \A d \in Documents, g \in Groups :
          group_grant[d][g] # "none" => Stored(d) /\ group[g] = document[d].org

(* What a request has read and no other request can change.                 *)
Targets ==
    /\ \A s \in found : Busy(s)
    /\ \A s \in Sessions :
          /\ request[s].op \in DocumentOperations => Stored(request[s].on)
          /\ s \in found /\ request[s].op = "add_group_permission" =>
                group[request[s].who] = document[request[s].on].org

(* The right on which a request was let in.                                 *)
Entitled(r) ==
    /\ r.op = "add_workspace_member" => MayAddWorkspaceMember(r.by, r.on)
    /\ r.op \in {"add_group_member", "remove_group_member"} =>
          OrganizationManager(r.by, group[r.on])
    /\ r.op \in DocumentOperations => CanManage(r.by, r.on)
Rights == \A s \in Sessions : Busy(s) /\ s \notin outdated => Entitled(request[s])

Inv == TypeOK /\ Reservations /\ TenancyAgrees /\ Targets /\ Rights

-----------------------------------------------------------------------------
(* What the fields of a request are, by its operation (schemas of the       *)
(* routes' request bodies).                                                 *)
LEMMA RequestTypes ==
    ASSUME NEW r \in Requests
    PROVE  /\ r.by \in Users
           /\ r # Idle
           /\ r.op = "create_workspace" => r.on \in Orgs /\ r.who \in Workspaces
           /\ r.op = "create_group" => r.on \in Orgs /\ r.who \in Groups
           /\ r.op = "add_workspace_member" =>
                 r.on \in Workspaces /\ r.who \in Users /\ r.how \in WorkspaceRoles
           /\ r.op \in {"add_group_member", "remove_group_member"} =>
                 r.on \in Groups /\ r.who \in Users
           /\ r.op = "upload" =>
                 r.on \in Workspaces /\ r.who \in Documents /\ r.how \in Visibilities
           /\ r.op = "add_user_permission" =>
                 r.on \in Documents /\ r.who \in Users /\ r.how \in Levels
           /\ r.op = "remove_user_permission" => r.on \in Documents /\ r.who \in Users
           /\ r.op = "add_group_permission" =>
                 r.on \in Documents /\ r.who \in Groups /\ r.how \in Levels
           /\ r.op = "remove_group_permission" => r.on \in Documents /\ r.who \in Groups
  <1>1. r.op # "idle" /\ r.by \in Users
    BY DEF Requests
  <1>2. r # Idle
    BY <1>1 DEF Idle
  <1>3. QED
    BY <1>1, <1>2 DEF Requests

(* A session that runs a transaction holds a well-typed request.            *)
LEMMA BusyTypes ==
    ASSUME TypeOK, NEW s \in Sessions
    PROVE  /\ request[s] \in Requests \cup {Idle}
           /\ Busy(s) => request[s] \in Requests
           /\ request[s].op # "idle" => Busy(s)
  BY DEF TypeOK, Busy, Idle

(* Finish and Leave only reset the session's own entries.                   *)
LEMMA FinishTypes ==
    ASSUME TypeOK, NEW s \in Sessions, NEW losers, Finish(s, losers)
    PROVE  /\ request' \in [Sessions -> Requests \cup {Idle}]
           /\ found' \in SUBSET Sessions
           /\ missed' \in SUBSET Sessions
           /\ outdated' \in SUBSET Sessions
           /\ requests' \in 0 .. MaxRequests
           /\ changes' \in 0 .. MaxChanges
  BY DEF TypeOK, Finish, Leave

(* Deleting a grant.                                                        *)
LEMMA NoneTypes ==
    ASSUME NEW A, NEW B, NEW C, NEW f \in [A -> [B -> C \cup {"none"}]],
           NEW a \in A, NEW b \in B
    PROVE  [f EXCEPT ![a][b] = "none"] \in [A -> [B -> C \cup {"none"}]]
  OBVIOUS

(* Every action keeps the types; an upload relies on its workspace existing. *)
LEMMA TypeStep ==
    ASSUME TypeOK, Reservations, [Next]_vars
    PROVE  TypeOK'
  <1> USE DEF TypeOK, None
  <1>1. ASSUME NEW s \in Sessions, NEW r \in Requests, Check(s, r)
        PROVE  TypeOK'
    BY <1>1, BoundsAreNaturals DEF Check, tenancy, grants
  <1>2. ASSUME NEW s \in Sessions, FindTarget(s)
        PROVE  TypeOK'
    BY <1>2 DEF FindTarget, tenancy, grants
  <1>3. ASSUME NEW s \in Sessions, CreateWorkspace(s)
        PROVE  TypeOK'
    <2>1. Finish(s, {}) /\ request[s].op = "create_workspace"
      BY <1>3 DEF CreateWorkspace
    <2>2. /\ request[s].by \in Users /\ request[s].on \in Orgs
          /\ request[s].who \in Workspaces
      BY <2>1, BusyTypes, RequestTypes
    <2>3. workspace_role' \in [Workspaces -> [Users -> WorkspaceRoles \cup None]]
      BY <1>3, <2>2, RolesAreEnumerated DEF CreateWorkspace
    <2>4. workspace' \in [Workspaces -> Orgs \cup {Nil}]
      BY <1>3, <2>2 DEF CreateWorkspace
    <2>5. QED
      BY <1>3, <2>1, <2>3, <2>4, FinishTypes DEF CreateWorkspace, grants
  <1>4. ASSUME NEW s \in Sessions, CreateGroup(s)
        PROVE  TypeOK'
    <2>1. Finish(s, {}) /\ request[s].op = "create_group"
      BY <1>4 DEF CreateGroup
    <2>2. request[s].on \in Orgs /\ request[s].who \in Groups
      BY <2>1, BusyTypes, RequestTypes
    <2>3. QED
      BY <1>4, <2>1, <2>2, FinishTypes DEF CreateGroup, grants
  <1>5. ASSUME NEW s \in Sessions, AddWorkspaceMember(s)
        PROVE  TypeOK'
    <2>1. Finish(s, {}) /\ request[s].op = "add_workspace_member"
      BY <1>5 DEF AddWorkspaceMember
    <2>2. /\ request[s].on \in Workspaces /\ request[s].who \in Users
          /\ request[s].how \in WorkspaceRoles
      BY <2>1, BusyTypes, RequestTypes
    <2>3. workspace_role' \in [Workspaces -> [Users -> WorkspaceRoles \cup None]]
      BY <1>5, <2>2 DEF AddWorkspaceMember
    <2>4. QED
      BY <1>5, <2>1, <2>3, FinishTypes DEF AddWorkspaceMember, grants
  <1>6. ASSUME NEW s \in Sessions, AddGroupMember(s) \/ RemoveGroupMember(s)
        PROVE  TypeOK'
    <2>1. /\ \E losers : Finish(s, losers)
          /\ request[s].op \in {"add_group_member", "remove_group_member"}
      BY <1>6 DEF AddGroupMember, RemoveGroupMember
    <2>2. request[s].on \in Groups /\ request[s].who \in Users
      BY <2>1, BusyTypes, RequestTypes
    <2>3. members' \in [Groups -> SUBSET Users]
      BY <1>6, <2>2 DEF AddGroupMember, RemoveGroupMember
    <2>4. QED
      BY <1>6, <2>1, <2>3, FinishTypes DEF AddGroupMember, RemoveGroupMember, grants
  <1>7. ASSUME NEW s \in Sessions, Upload(s)
        PROVE  TypeOK'
    <2>1. Finish(s, {}) /\ request[s].op = "upload"
      BY <1>7 DEF Upload
    <2>2. /\ request[s].by \in Users /\ request[s].on \in Workspaces
          /\ request[s].who \in Documents /\ request[s].how \in Visibilities
      BY <2>1, BusyTypes, RequestTypes
    <2>3. workspace[request[s].on] \in Orgs
      BY <2>1, <2>2 DEF Reservations
    <2>4. document' \in [Documents -> DocumentRows \cup {NoDocument}]
      BY <1>7, <2>2, <2>3 DEF Upload, DocumentRows
    <2>5. QED
      BY <1>7, <2>1, <2>4, FinishTypes DEF Upload, tenancy
  <1>8. ASSUME NEW s \in Sessions, AddUserPermission(s) \/ RemoveUserPermission(s)
        PROVE  TypeOK'
    <2>1. /\ \E losers : Finish(s, losers)
          /\ request[s].op \in {"add_user_permission", "remove_user_permission"}
      BY <1>8 DEF AddUserPermission, RemoveUserPermission
    <2>2. /\ request[s].on \in Documents /\ request[s].who \in Users
          /\ request[s].op = "add_user_permission" => request[s].how \in Levels
      BY <2>1, BusyTypes, RequestTypes
    <2>3. user_grant' \in [Documents -> [Users -> Levels \cup None]]
      <3>1. CASE AddUserPermission(s)
        BY <3>1, <2>2 DEF AddUserPermission
      <3>2. CASE RemoveUserPermission(s)
        BY <3>2, <2>2, NoneTypes DEF RemoveUserPermission
      <3>3. QED
        BY <1>8, <3>1, <3>2
    <2>4. QED
      BY <1>8, <2>1, <2>3, FinishTypes DEF AddUserPermission, RemoveUserPermission, tenancy
  <1>9. ASSUME NEW s \in Sessions, AddGroupPermission(s) \/ RemoveGroupPermission(s)
        PROVE  TypeOK'
    <2>1. /\ \E losers : Finish(s, losers)
          /\ request[s].op \in {"add_group_permission", "remove_group_permission"}
      BY <1>9 DEF AddGroupPermission, RemoveGroupPermission
    <2>2. /\ request[s].on \in Documents /\ request[s].who \in Groups
          /\ request[s].op = "add_group_permission" => request[s].how \in Levels
      BY <2>1, BusyTypes, RequestTypes
    <2>3. group_grant' \in [Documents -> [Groups -> Levels \cup None]]
      <3>1. CASE AddGroupPermission(s)
        BY <3>1, <2>2 DEF AddGroupPermission
      <3>2. CASE RemoveGroupPermission(s)
        BY <3>2, <2>2, NoneTypes DEF RemoveGroupPermission
      <3>3. QED
        BY <1>9, <3>1, <3>2
    <2>4. QED
      BY <1>9, <2>1, <2>3, FinishTypes DEF AddGroupPermission, RemoveGroupPermission, tenancy
  <1>10. ASSUME NEW s \in Sessions, Fail(s)
         PROVE  TypeOK'
    BY <1>10 DEF Fail, Leave, tenancy, grants
  <1>11. ASSUME NEW a \in Users, NEW o \in Orgs, CreateOrganization(a, o)
         PROVE  TypeOK'
    <2>1. org_role' \in [Orgs -> [Users -> OrganizationRoles \cup None]]
      BY <1>11, RolesAreEnumerated DEF CreateOrganization
    <2>2. QED
      BY <1>11, <2>1 DEF CreateOrganization, grants
  <1>12. ASSUME NEW o \in Orgs, NEW u \in Users, NEW role \in OrganizationRoles \cup None,
                SetOrganizationRole(o, u, role)
         PROVE  TypeOK'
    <2>1. org_role' \in [Orgs -> [Users -> OrganizationRoles \cup None]]
      BY <1>12 DEF SetOrganizationRole
    <2>2. changes' \in 0 .. MaxChanges
      BY <1>12, BoundsAreNaturals DEF SetOrganizationRole
    <2>3. QED
      BY <1>12, <2>1, <2>2 DEF SetOrganizationRole, grants
  <1>13. CASE UNCHANGED vars
    BY <1>13 DEF vars, tenancy, grants
  <1>14. QED
    BY <1>1, <1>2, <1>3, <1>4, <1>5, <1>6, <1>7, <1>8, <1>9, <1>10, <1>11, <1>12, <1>13
    DEF Next, Commit

-----------------------------------------------------------------------------
(* A session that ends its transaction, by commit or rollback, becomes idle *)
(* and leaves the requests of the others alone.                             *)
LEMMA LeaveEffect ==
    ASSUME TypeOK, NEW s \in Sessions, Leave(s)
    PROVE  /\ request'[s] = Idle
           /\ \A t \in Sessions : t # s => request'[t] = request[t]
           /\ \A t \in Sessions : t \in found' <=> t # s /\ t \in found
           /\ found' \subseteq Sessions
  BY DEF TypeOK, Leave

(* A reservation stays valid when rows of other identifiers are created.    *)
LEMMA ReservationsStep ==
    ASSUME TypeOK, Reservations, TenancyAgrees, [Next]_vars
    PROVE  Reservations'
  <1> USE DEF Reservations, Stored, Creations
  <1>1. ASSUME NEW s \in Sessions, NEW r \in Requests, Check(s, r)
        PROVE  Reservations'
    <2>1. /\ request' = [request EXCEPT ![s] = r]
          /\ UNCHANGED <<workspace, group, document, organizations, org_role>>
          /\ Permitted(r)
      BY <1>1 DEF Check, tenancy, grants
    <2>2. request'[s] = r /\ \A t \in Sessions : t # s => request'[t] = request[t]
      BY <2>1 DEF TypeOK
    <2>3. /\ r.op = "create_workspace" => workspace[r.who] = Nil /\ r.on \in organizations
          /\ r.op = "create_group" => group[r.who] = Nil
          /\ r.op = "upload" => ~Stored(r.who) /\ workspace[r.on] # Nil
      BY <2>1, RequestTypes DEF Permitted, OrganizationManager, MayUpload, TenancyAgrees
    <2>4. r.op \in Creations => ~Reserved(r.who)
      BY <2>1 DEF Permitted
    <2>5. \A t \in Sessions : request[t].op \in Creations => Busy(t)
      BY BusyTypes
    <2>6. \A t \in Sessions : r.op \in Creations /\ request[t].op \in Creations =>
             request[t].who # r.who
      BY <2>4, <2>5 DEF Reserved
    <2>7. QED
      BY <2>1, <2>2, <2>3, <2>6
  <1>2. ASSUME NEW s \in Sessions, Leave(s), UNCHANGED <<workspace, group, document, organizations>>
        PROVE  Reservations'
    BY <1>2, LeaveEffect DEF Idle
  <1>3. ASSUME NEW s \in Sessions, CreateWorkspace(s)
        PROVE  Reservations'
    <2>1. /\ Leave(s) /\ request[s].op = "create_workspace"
          /\ workspace' = [workspace EXCEPT ![request[s].who] = request[s].on]
          /\ UNCHANGED <<group, document, organizations>>
      BY <1>3 DEF CreateWorkspace, Finish, grants
    <2>2. request[s].on \in Orgs /\ request[s].who \in Workspaces
      BY <2>1, BusyTypes, RequestTypes
    <2>3. \A t \in Sessions : t # s /\ request[t].op = "create_workspace" =>
             workspace'[request[t].who] = Nil
      BY <2>1, <2>2 DEF TypeOK
    <2>4. \A w \in Workspaces : workspace[w] # Nil => workspace'[w] # Nil
      BY <2>1, <2>2, NilIsNobody DEF TypeOK
    <2>5. \A t \in Sessions : request[t].op = "upload" => request[t].on \in Workspaces
      BY BusyTypes, RequestTypes
    <2>6. QED
      BY <2>1, <2>3, <2>4, <2>5, LeaveEffect DEF Idle
  <1>4. ASSUME NEW s \in Sessions, CreateGroup(s)
        PROVE  Reservations'
    <2>1. /\ Leave(s) /\ request[s].op = "create_group"
          /\ group' = [group EXCEPT ![request[s].who] = request[s].on]
          /\ UNCHANGED <<workspace, document, organizations>>
      BY <1>4 DEF CreateGroup, Finish, grants
    <2>2. \A t \in Sessions : t # s /\ request[t].op = "create_group" =>
             group'[request[t].who] = Nil
      BY <2>1 DEF TypeOK
    <2>3. QED
      BY <2>1, <2>2, LeaveEffect DEF Idle
  <1>5. ASSUME NEW s \in Sessions, Upload(s)
        PROVE  Reservations'
    <2>1. /\ Leave(s) /\ request[s].op = "upload"
          /\ \E row : document' = [document EXCEPT ![request[s].who] = row]
          /\ UNCHANGED <<workspace, group, organizations>>
      BY <1>5 DEF Upload, Finish, tenancy
    <2>2. \A t \in Sessions : t # s /\ request[t].op = "upload" =>
             ~Stored(request[t].who)'
      <3>1. PICK row : document' = [document EXCEPT ![request[s].who] = row]
        BY <2>1
      <3>2. TAKE t \in Sessions
      <3>3. HAVE t # s /\ request[t].op = "upload"
      <3>4. request[t].who \in Documents
        BY <3>3, BusyTypes, RequestTypes
      <3>5. request'[t].who = request[t].who
        BY <2>1, <3>3, LeaveEffect
      <3>6. QED
        BY <2>1, <3>1, <3>3, <3>4, <3>5 DEF TypeOK
    <2>3. QED
      BY <2>1, <2>2, LeaveEffect DEF Idle
  <1>6. ASSUME NEW a \in Users, NEW o \in Orgs, CreateOrganization(a, o)
        PROVE  Reservations'
    BY <1>6 DEF CreateOrganization, grants
  <1>7. ASSUME UNCHANGED <<workspace, group, document, organizations, request>>
        PROVE  Reservations'
    BY <1>7
  <1>8. QED
    <2>1. ASSUME NEW s \in Sessions, Commit(s) \/ Fail(s)
          PROVE  Reservations'
      BY <2>1, <1>2, <1>3, <1>4, <1>5
      DEF Commit, Fail, AddWorkspaceMember, AddGroupMember, RemoveGroupMember,
          AddUserPermission, RemoveUserPermission, AddGroupPermission,
          RemoveGroupPermission, Finish, tenancy, grants
    <2>2. ASSUME NEW s \in Sessions, FindTarget(s)
          PROVE  Reservations'
      BY <2>2, <1>7 DEF FindTarget, tenancy, grants
    <2>3. ASSUME NEW o \in Orgs, NEW u \in Users, NEW role \in OrganizationRoles \cup None,
                 SetOrganizationRole(o, u, role)
          PROVE  Reservations'
      BY <2>3, <1>7 DEF SetOrganizationRole, grants
    <2>4. CASE UNCHANGED vars
      BY <2>4, <1>7 DEF vars, tenancy, grants
    <2>5. QED
      BY <1>1, <1>6, <2>1, <2>2, <2>3, <2>4 DEF Next

-----------------------------------------------------------------------------
(* A stored document has an organization, a workspace and an owner.         *)
LEMMA StoredTypes ==
    ASSUME TypeOK, NEW d \in Documents, Stored(d)
    PROVE  /\ document[d].org \in Orgs /\ document[d].org # Nil
           /\ document[d].workspace \in Workspaces
           /\ document[d].owner \in Users
  BY NilIsNobody DEF TypeOK, Stored, DocumentRows

(* A new row agrees with the rows it refers to: a workspace or group had no *)
(* documents or grants before, and a grant was checked against both rows.   *)
LEMMA TenancyStep ==
    ASSUME TypeOK, Reservations, TenancyAgrees, Targets, [Next]_vars
    PROVE  TenancyAgrees'
  <1> USE DEF TenancyAgrees, Stored
  <1>1. ASSUME NEW s \in Sessions, CreateWorkspace(s)
        PROVE  TenancyAgrees'
    <2>1. /\ request[s].op = "create_workspace"
          /\ workspace' = [workspace EXCEPT ![request[s].who] = request[s].on]
          /\ UNCHANGED <<organizations, org_role, group, document, group_grant>>
      BY <1>1 DEF CreateWorkspace, grants
    <2>2. request[s].who \in Workspaces /\ request[s].on \in Orgs
      BY <2>1, BusyTypes, RequestTypes
    <2>3. workspace[request[s].who] = Nil /\ request[s].on \in organizations
      BY <2>1 DEF Reservations
    <2>4. \A w \in Workspaces : workspace'[w] = IF w = request[s].who THEN request[s].on
                                                ELSE workspace[w]
      BY <2>1, <2>2 DEF TypeOK
    <2>5. \A d \in Documents : Stored(d) => document[d].workspace # request[s].who
      BY <2>3, StoredTypes
    <2>6. QED
      BY <2>1, <2>2, <2>3, <2>4, <2>5, StoredTypes
  <1>2. ASSUME NEW s \in Sessions, CreateGroup(s)
        PROVE  TenancyAgrees'
    <2>1. /\ request[s].op = "create_group"
          /\ group' = [group EXCEPT ![request[s].who] = request[s].on]
          /\ UNCHANGED <<organizations, org_role, workspace, document, group_grant>>
      BY <1>2 DEF CreateGroup, grants
    <2>2. group[request[s].who] = Nil
      BY <2>1 DEF Reservations
    <2>3. \A g \in Groups : group[g] # Nil => group'[g] = group[g]
      BY <2>1, <2>2 DEF TypeOK
    <2>4. QED
      BY <2>1, <2>3, StoredTypes
  <1>3. ASSUME NEW s \in Sessions, Upload(s)
        PROVE  TenancyAgrees'
    <2> DEFINE row == [org |-> workspace[request[s].on], workspace |-> request[s].on,
                       owner |-> request[s].by, visibility |-> request[s].how]
    <2>1. /\ request[s].op = "upload"
          /\ document' = [document EXCEPT ![request[s].who] = row]
          /\ UNCHANGED <<organizations, org_role, workspace, group, group_grant>>
      BY <1>3 DEF Upload, tenancy
    <2>2. ~Stored(request[s].who)
      BY <2>1 DEF Reservations
    <2>3. request[s].who \in Documents
      BY <2>1, BusyTypes, RequestTypes
    <2>4. \A d \in Documents : document'[d] = IF d = request[s].who THEN row ELSE document[d]
      BY <2>1, <2>3 DEF TypeOK
    <2>5. \A d \in Documents, g \in Groups :
             group_grant[d][g] # "none" => d # request[s].who
      BY <2>2
    <2>6. workspace[row.workspace] = row.org
      OBVIOUS
    <2> HIDE DEF row
    <2>7. QED
      BY <2>1, <2>4, <2>5, <2>6
  <1>4. ASSUME NEW s \in Sessions, AddGroupPermission(s) \/ RemoveGroupPermission(s)
        PROVE  TenancyAgrees'
    <2>1. /\ request[s].op \in {"add_group_permission", "remove_group_permission"}
          /\ UNCHANGED <<organizations, org_role, workspace, group, document>>
          /\ s \in found
          /\ \/ group_grant' = group_grant
             \/ group_grant' = [group_grant EXCEPT ![request[s].on][request[s].who] = "none"]
             \/ /\ request[s].op = "add_group_permission"
                /\ group_grant' = [group_grant EXCEPT
                                     ![request[s].on][request[s].who] = request[s].how]
      BY <1>4 DEF AddGroupPermission, RemoveGroupPermission, tenancy
    <2>2. request[s].on \in Documents /\ request[s].who \in Groups
      BY <2>1, BusyTypes, RequestTypes
    <2>3. \A d \in Documents, g \in Groups :
             group_grant'[d][g] # "none" =>
                \/ group_grant[d][g] # "none"
                \/ /\ request[s].op = "add_group_permission"
                   /\ d = request[s].on /\ g = request[s].who
      BY <2>1, <2>2 DEF TypeOK
    <2>4. request[s].op = "add_group_permission" =>
             /\ Stored(request[s].on)
             /\ group[request[s].who] = document[request[s].on].org
      BY <2>1 DEF Targets, DocumentOperations
    <2>5. QED
      BY <2>1, <2>3, <2>4
  <1>5. ASSUME NEW a \in Users, NEW o \in Orgs, CreateOrganization(a, o)
        PROVE  TenancyAgrees'
    <2>1. /\ organizations' = organizations \cup {o}
          /\ org_role' = [org_role EXCEPT ![o][a] = "owner"]
          /\ UNCHANGED <<workspace, group, document, group_grant>>
      BY <1>5 DEF CreateOrganization, grants
    <2>2. \A p \in Orgs, u \in Users : p # o => org_role'[p][u] = org_role[p][u]
      BY <2>1 DEF TypeOK
    <2>3. QED
      BY <2>1, <2>2
  <1>6. ASSUME NEW o \in Orgs, NEW u \in Users, NEW role \in OrganizationRoles \cup None,
               SetOrganizationRole(o, u, role)
        PROVE  TenancyAgrees'
    <2>1. /\ o \in organizations
          /\ org_role' = [org_role EXCEPT ![o][u] = role]
          /\ UNCHANGED <<organizations, workspace, group, document, group_grant>>
      BY <1>6 DEF SetOrganizationRole, grants
    <2>2. \A p \in Orgs, v \in Users : p # o => org_role'[p][v] = org_role[p][v]
      BY <2>1 DEF TypeOK
    <2>3. QED
      BY <2>1, <2>2
  <1>7. ASSUME UNCHANGED <<organizations, org_role, workspace, group, document, group_grant>>
        PROVE  TenancyAgrees'
    BY <1>7
  <1>8. QED
    <2>1. ASSUME NEW s \in Sessions, Commit(s) \/ Fail(s) \/ FindTarget(s)
          PROVE  TenancyAgrees'
      BY <2>1, <1>1, <1>2, <1>3, <1>4, <1>7
      DEF Commit, Fail, FindTarget, AddWorkspaceMember, AddGroupMember,
          RemoveGroupMember, AddUserPermission, RemoveUserPermission, tenancy, grants
    <2>2. ASSUME NEW s \in Sessions, NEW r \in Requests, Check(s, r)
          PROVE  TenancyAgrees'
      BY <2>2, <1>7 DEF Check, tenancy, grants
    <2>3. CASE UNCHANGED vars
      BY <2>3, <1>7 DEF vars, tenancy, grants
    <2>4. QED
      BY <1>5, <1>6, <2>1, <2>2, <2>3 DEF Next

-----------------------------------------------------------------------------
(* Workspaces, groups and documents keep their organization forever: no     *)
(* handler updates the column, and a fresh identifier hits no existing row. *)
LEMMA RowsKept ==
    ASSUME TypeOK, Reservations, [Next]_vars
    PROVE  /\ \A d \in Documents : Stored(d) => document'[d] = document[d]
           /\ \A g \in Groups : group[g] # Nil => group'[g] = group[g]
           /\ \A w \in Workspaces : workspace[w] # Nil => workspace'[w] = workspace[w]
  <1>1. \A d \in Documents : Stored(d) => document'[d] = document[d]
    <2>1. ASSUME NEW s \in Sessions, Upload(s)
          PROVE  \A d \in Documents : Stored(d) => document'[d] = document[d]
      BY <2>1 DEF Upload, Reservations, TypeOK, Stored
    <2>2. \/ document' = document
          \/ \E s \in Sessions : Upload(s)
      BY DEF Next, Commit, Check, FindTarget, Fail, CreateWorkspace, CreateGroup,
         AddWorkspaceMember, AddGroupMember, RemoveGroupMember, AddUserPermission,
         RemoveUserPermission, AddGroupPermission, RemoveGroupPermission,
         CreateOrganization, SetOrganizationRole, vars, grants
    <2>3. QED
      BY <2>1, <2>2
  <1>2. \A g \in Groups : group[g] # Nil => group'[g] = group[g]
    <2>1. ASSUME NEW s \in Sessions, CreateGroup(s)
          PROVE  \A g \in Groups : group[g] # Nil => group'[g] = group[g]
      BY <2>1 DEF CreateGroup, Reservations, TypeOK
    <2>2. \/ group' = group
          \/ \E s \in Sessions : CreateGroup(s)
      BY DEF Next, Commit, Check, FindTarget, Fail, CreateWorkspace, Upload,
         AddWorkspaceMember, AddGroupMember, RemoveGroupMember, AddUserPermission,
         RemoveUserPermission, AddGroupPermission, RemoveGroupPermission,
         CreateOrganization, SetOrganizationRole, vars, tenancy
    <2>3. QED
      BY <2>1, <2>2
  <1>3. \A w \in Workspaces : workspace[w] # Nil => workspace'[w] = workspace[w]
    <2>1. ASSUME NEW s \in Sessions, CreateWorkspace(s)
          PROVE  \A w \in Workspaces : workspace[w] # Nil => workspace'[w] = workspace[w]
      BY <2>1 DEF CreateWorkspace, Reservations, TypeOK
    <2>2. \/ workspace' = workspace
          \/ \E s \in Sessions : CreateWorkspace(s)
      BY DEF Next, Commit, Check, FindTarget, Fail, CreateGroup, Upload,
         AddWorkspaceMember, AddGroupMember, RemoveGroupMember, AddUserPermission,
         RemoveUserPermission, AddGroupPermission, RemoveGroupPermission,
         CreateOrganization, SetOrganizationRole, vars, tenancy
    <2>3. QED
      BY <2>1, <2>2
  <1>4. QED
    BY <1>1, <1>2, <1>3

(* Nothing a request has read about its target can change: rows are never   *)
(* deleted and keep their organization.                                     *)
LEMMA TargetsStep ==
    ASSUME TypeOK, Reservations, TenancyAgrees, Targets, [Next]_vars
    PROVE  Targets'
  <1> USE DEF Targets, Stored
  <1>1. \A d \in Documents : Stored(d) => document'[d] = document[d]
    BY RowsKept
  <1>2. \A g \in Groups : group[g] # Nil => group'[g] = group[g]
    BY RowsKept
  <1>3. ASSUME NEW s \in Sessions, request[s].op \in DocumentOperations
        PROVE  /\ Stored(request[s].on)
               /\ document'[request[s].on] = document[request[s].on]
    <2>1. request[s].on \in Documents
      BY <1>3, BusyTypes, RequestTypes DEF DocumentOperations
    <2>2. QED
      BY <2>1, <1>1, <1>3
  <1>4. ASSUME NEW s \in Sessions, s \in found, request[s].op = "add_group_permission"
        PROVE  group'[request[s].who] = document'[request[s].on].org
    <2>1. request[s].on \in Documents /\ request[s].who \in Groups
      BY <1>4, BusyTypes, RequestTypes
    <2>2. Stored(request[s].on)
      BY <1>4 DEF DocumentOperations
    <2>3. QED
      BY <1>1, <1>2, <1>4, <2>1, <2>2, StoredTypes
  <1>5. ASSUME NEW s \in Sessions, NEW r \in Requests, Check(s, r)
        PROVE  Targets'
    <2>1. /\ request' = [request EXCEPT ![s] = r]
          /\ UNCHANGED <<found, document, group>>
          /\ ~Busy(s) /\ Permitted(r)
      BY <1>5 DEF Check, tenancy, grants
    <2>2. request'[s] = r /\ \A t \in Sessions : t # s => request'[t] = request[t]
      BY <2>1 DEF TypeOK
    <2>3. r.op \in DocumentOperations => Stored(r.on)
      BY <2>1 DEF Permitted, DocumentOperations, CanManage
    <2>4. s \notin found
      BY <2>1
    <2>5. QED
      BY <2>1, <2>2, <2>3, <2>4 DEF Busy, TypeOK
  <1>6. ASSUME NEW s \in Sessions, FindTarget(s)
        PROVE  Targets'
    <2>1. /\ found' = found \cup {s} /\ TargetFound(request[s])
          /\ UNCHANGED <<request, document, group>>
      BY <1>6 DEF FindTarget, tenancy, grants
    <2>2. request[s].op # "idle"
      BY <2>1 DEF TargetFound
    <2>3. request[s].op = "add_group_permission" =>
             group[request[s].who] = document[request[s].on].org
      BY <2>1 DEF TargetFound, EligibleGroup
    <2>4. Busy(s)
      BY <2>2, BusyTypes
    <2>5. QED
      BY <2>1, <2>3, <2>4 DEF Busy, TypeOK
  <1>7. ASSUME NEW s \in Sessions, Leave(s)
        PROVE  Targets'
    <2>1. \A t \in Sessions : t # s /\ t \in found => Busy(t)'
      BY <1>7, LeaveEffect DEF Busy
    <2>2. ASSUME NEW t \in Sessions, request'[t].op # "idle"
          PROVE  t # s /\ request'[t] = request[t]
      BY <1>7, <2>2, LeaveEffect DEF Idle
    <2>3. ASSUME NEW t \in Sessions, request'[t].op \in DocumentOperations
          PROVE  document'[request'[t].on] # NoDocument
      BY <1>3, <2>2, <2>3 DEF DocumentOperations
    <2>4. ASSUME NEW t \in Sessions, t \in found', request'[t].op = "add_group_permission"
          PROVE  group'[request'[t].who] = document'[request'[t].on].org
      BY <1>4, <1>7, <2>2, <2>4, LeaveEffect
    <2>5. QED
      BY <1>7, <2>1, <2>3, <2>4, LeaveEffect
  <1>8. ASSUME UNCHANGED <<request, found>>
        PROVE  Targets'
    BY <1>3, <1>4, <1>8 DEF Busy, TypeOK
  <1>9. QED
    <2>1. ASSUME NEW s \in Sessions, Commit(s) \/ Fail(s)
          PROVE  Targets'
      BY <2>1, <1>7
      DEF Commit, Fail, CreateWorkspace, CreateGroup, Upload, AddWorkspaceMember,
          AddGroupMember, RemoveGroupMember, AddUserPermission, RemoveUserPermission,
          AddGroupPermission, RemoveGroupPermission, Finish
    <2>2. ASSUME NEW a \in Users, NEW o \in Orgs, CreateOrganization(a, o)
          PROVE  Targets'
      BY <2>2, <1>8 DEF CreateOrganization
    <2>3. ASSUME NEW o \in Orgs, NEW u \in Users, NEW role \in OrganizationRoles \cup None,
                 SetOrganizationRole(o, u, role)
          PROVE  Targets'
      BY <2>3, <1>8 DEF SetOrganizationRole
    <2>4. CASE UNCHANGED vars
      BY <2>4, <1>8 DEF vars
    <2>5. QED
      BY <1>5, <1>6, <2>1, <2>2, <2>3, <2>4 DEF Next

-----------------------------------------------------------------------------
(* Who loses a right by a commit is outdated after it, unless the commit    *)
(* found nothing to delete.                                                 *)
LEMMA FinishEffect ==
    ASSUME TypeOK, NEW s \in Sessions, NEW losers, Finish(s, losers),
           NEW t \in Sessions, Busy(t), Busy(t)', t \notin outdated'
    PROVE  /\ t # s
           /\ request'[t] = request[t]
           /\ t \notin outdated
           /\ request[t].by \in losers => s \in missed
  BY LeaveEffect DEF Finish, Busy

(* Writing one entry of a table leaves the other columns alone.             *)
LEMMA OtherEntries ==
    ASSUME NEW A, NEW B, NEW C, NEW f \in [A -> [B -> C]], NEW a, NEW b, NEW c,
           NEW x \in A, NEW y \in B, y # b
    PROVE  [f EXCEPT ![a][b] = c][x][y] = f[x][y]
  OBVIOUS

(* The step withdraws none of the rights of u.                              *)
RightsKept(u) ==
    /\ \A o \in Orgs :
          /\ org_role[o][u] # "none" => org_role'[o][u] # "none"
          /\ org_role[o][u] \in {"owner", "admin"} => org_role'[o][u] \in {"owner", "admin"}
    /\ \A w \in Workspaces : workspace_role[w][u] = "manager" => workspace_role'[w][u] = "manager"
    /\ \A d \in Documents : user_grant[d][u] = "manager" => user_grant'[d][u] = "manager"
    /\ \A d \in Documents, g \in Groups :
          group_grant[d][g] = "manager" /\ u \in members[g] =>
             group_grant'[d][g] = "manager" /\ u \in members'[g]

(* Each commit that withdraws a right marks the sessions that may rely on it. *)
LEMMA UpToDateKeepsRights ==
    ASSUME TypeOK, TenancyAgrees, [Next]_vars,
           NEW t \in Sessions, Busy(t), Busy(t)', t \notin outdated'
    PROVE  /\ request'[t] = request[t]
           /\ t \notin outdated
           /\ RightsKept(request[t].by)
  <1> USE DEF RightsKept
  <1> DEFINE u == request[t].by
  <1>0. u \in Users
    BY BusyTypes, RequestTypes
  <1> HIDE DEF u
  <1> DEFINE Goal == request'[t] = request[t] /\ t \notin outdated /\ RightsKept(u)
  <1>1. ASSUME NEW s \in Sessions, CreateWorkspace(s)
        PROVE  Goal
    <2>1. /\ request[s].op = "create_workspace" /\ Finish(s, {})
          /\ workspace_role' = [workspace_role EXCEPT ![request[s].who][request[s].by] = "manager"]
          /\ UNCHANGED <<org_role, members, user_grant, group_grant>>
      BY <1>1 DEF CreateWorkspace, grants
    <2>2. \A w \in Workspaces : workspace_role[w][u] = "manager" => workspace_role'[w][u] = "manager"
      BY <1>0, <2>1 DEF TypeOK
    <2>3. QED
      BY <2>1, <2>2, FinishEffect
  <1>2. ASSUME NEW s \in Sessions, AddWorkspaceMember(s)
        PROVE  Goal
    <2>1. /\ request[s].op = "add_workspace_member" /\ Finish(s, {})
          /\ workspace_role[request[s].on][request[s].who] = "none"
          /\ workspace_role' = [workspace_role EXCEPT
                                  ![request[s].on][request[s].who] = request[s].how]
          /\ UNCHANGED <<org_role, members, user_grant, group_grant>>
      BY <1>2 DEF AddWorkspaceMember, InWorkspace, grants
    <2>2. \A w \in Workspaces : workspace_role[w][u] = "manager" => workspace_role'[w][u] = "manager"
      BY <1>0, <2>1 DEF TypeOK
    <2>3. QED
      BY <2>1, <2>2, FinishEffect
  <1>3. ASSUME NEW s \in Sessions, CreateGroup(s) \/ Upload(s)
        PROVE  Goal
    BY <1>3, FinishEffect DEF CreateGroup, Upload, tenancy, grants
  <1>4. ASSUME NEW s \in Sessions, AddGroupMember(s)
        PROVE  Goal
    <2>1. /\ Finish(s, {})
          /\ members' = [members EXCEPT ![request[s].on] = @ \cup {request[s].who}]
          /\ UNCHANGED <<org_role, workspace_role, user_grant, group_grant>>
      BY <1>4 DEF AddGroupMember, grants
    <2>2. \A g \in Groups : members[g] \subseteq members'[g]
      BY <2>1 DEF TypeOK
    <2>3. QED
      BY <2>1, <2>2, FinishEffect
  <1>5. ASSUME NEW s \in Sessions, RemoveGroupMember(s)
        PROVE  Goal
    <2>1. /\ Finish(s, {request[s].who})
          /\ \/ members' = members
             \/ /\ s \notin missed
                /\ members' = [members EXCEPT ![request[s].on] = @ \ {request[s].who}]
          /\ UNCHANGED <<org_role, workspace_role, user_grant, group_grant>>
      BY <1>5 DEF RemoveGroupMember, grants
    <2>2. u = request[s].who => s \in missed
      BY <2>1, FinishEffect DEF u
    <2>3. \A g \in Groups : u \in members[g] => u \in members'[g]
      BY <2>1, <2>2 DEF TypeOK
    <2>4. QED
      BY <2>1, <2>3, FinishEffect
  <1>6. ASSUME NEW s \in Sessions, AddUserPermission(s)
        PROVE  Goal
    <2>1. /\ Finish(s, {})
          /\ user_grant[request[s].on][request[s].who] = "none"
          /\ user_grant' = [user_grant EXCEPT ![request[s].on][request[s].who] = request[s].how]
          /\ UNCHANGED <<org_role, workspace_role, members, group_grant>>
      BY <1>6 DEF AddUserPermission, tenancy
    <2>2. \A d \in Documents : user_grant[d][u] = "manager" => user_grant'[d][u] = "manager"
      BY <1>0, <2>1 DEF TypeOK
    <2>3. QED
      BY <2>1, <2>2, FinishEffect
  <1>7. ASSUME NEW s \in Sessions, RemoveUserPermission(s)
        PROVE  Goal
    <2>1. /\ Finish(s, {request[s].who})
          /\ \/ user_grant' = user_grant
             \/ /\ s \notin missed
                /\ user_grant' = [user_grant EXCEPT ![request[s].on][request[s].who] = "none"]
          /\ UNCHANGED <<org_role, workspace_role, members, group_grant>>
      BY <1>7 DEF RemoveUserPermission, tenancy
    <2>2. u = request[s].who => s \in missed
      BY <2>1, FinishEffect DEF u
    <2>3. ASSUME NEW d \in Documents, u # request[s].who
          PROVE  user_grant'[d][u] = user_grant[d][u]
      <3>1. user_grant \in [Documents -> [Users -> Levels \cup None]]
        BY DEF TypeOK
      <3>2. CASE user_grant' = [user_grant EXCEPT ![request[s].on][request[s].who] = "none"]
        BY <1>0, <2>3, <3>1, <3>2, OtherEntries
      <3>3. QED
        BY <2>1, <3>2
    <2>4. QED
      BY <2>1, <2>2, <2>3, FinishEffect
  <1>8. ASSUME NEW s \in Sessions, AddGroupPermission(s)
        PROVE  Goal
    <2>1. /\ Finish(s, {})
          /\ group_grant[request[s].on][request[s].who] = "none"
          /\ group_grant' = [group_grant EXCEPT ![request[s].on][request[s].who] = request[s].how]
          /\ UNCHANGED <<org_role, workspace_role, members, user_grant>>
      BY <1>8 DEF AddGroupPermission, tenancy
    <2>2. \A d \in Documents, g \in Groups :
             group_grant[d][g] = "manager" => group_grant'[d][g] = "manager"
      BY <2>1 DEF TypeOK
    <2>3. QED
      BY <2>1, <2>2, FinishEffect
  <1>9. ASSUME NEW s \in Sessions, RemoveGroupPermission(s)
        PROVE  Goal
    <2>1. /\ Finish(s, members[request[s].who])
          /\ \/ group_grant' = group_grant
             \/ /\ s \notin missed
                /\ group_grant' = [group_grant EXCEPT ![request[s].on][request[s].who] = "none"]
          /\ UNCHANGED <<org_role, workspace_role, members, user_grant>>
      BY <1>9 DEF RemoveGroupPermission, tenancy
    <2>2. u \in members[request[s].who] => s \in missed
      BY <2>1, FinishEffect DEF u
    <2>3. ASSUME NEW d \in Documents, NEW g \in Groups, g # request[s].who
          PROVE  group_grant'[d][g] = group_grant[d][g]
      <3>1. group_grant \in [Documents -> [Groups -> Levels \cup None]]
        BY DEF TypeOK
      <3>2. CASE group_grant' = [group_grant EXCEPT ![request[s].on][request[s].who] = "none"]
        BY <2>3, <3>1, <3>2, OtherEntries
      <3>3. QED
        BY <2>1, <3>2
    <2>4. QED
      BY <2>1, <2>2, <2>3, FinishEffect
  <1>10. ASSUME NEW s \in Sessions, Fail(s)
         PROVE  Goal
    BY <1>10, LeaveEffect DEF Fail, Busy, tenancy, grants
  <1>11. ASSUME NEW a \in Users, NEW o \in Orgs, CreateOrganization(a, o)
         PROVE  Goal
    <2>1. /\ o \notin organizations
          /\ org_role' = [org_role EXCEPT ![o][a] = "owner"]
          /\ UNCHANGED <<workspace_role, members, user_grant, group_grant, request, outdated>>
      BY <1>11 DEF CreateOrganization, grants
    <2>2. \A p \in Orgs : org_role[p][u] # "none" => org_role'[p][u] = org_role[p][u]
      BY <1>0, <2>1 DEF TypeOK, TenancyAgrees
    <2>3. QED
      BY <1>0, <2>1, <2>2
  <1>12. ASSUME NEW o \in Orgs, NEW v \in Users, NEW role \in OrganizationRoles \cup None,
                SetOrganizationRole(o, v, role)
         PROVE  Goal
    <2>1. /\ org_role' = [org_role EXCEPT ![o][v] = role]
          /\ UNCHANGED <<workspace_role, members, user_grant, group_grant, request>>
          /\ t \notin outdated
          /\ u = v => ~OrganizationManager(v, o) /\ role # "none"
      BY <1>12 DEF SetOrganizationRole, grants, u
    <2>2. \A p \in Orgs :
             /\ org_role[p][u] # "none" => org_role'[p][u] # "none"
             /\ org_role[p][u] \in {"owner", "admin"} => org_role'[p][u] \in {"owner", "admin"}
      BY <1>0, <2>1, NilIsNobody DEF TypeOK, OrganizationManager
    <2>3. QED
      BY <2>1, <2>2
  <1>13. ASSUME NEW s \in Sessions, NEW r \in Requests, Check(s, r)
         PROVE  Goal
    BY <1>13 DEF Check, TypeOK, tenancy, grants
  <1>14. ASSUME UNCHANGED <<tenancy, grants, request, outdated>>
         PROVE  Goal
    BY <1>14 DEF tenancy, grants
  <1>15. Goal
    <2>1. ASSUME NEW s \in Sessions, FindTarget(s)
          PROVE  Goal
      BY <2>1, <1>14 DEF FindTarget
    <2>2. CASE UNCHANGED vars
      BY <2>2, <1>14 DEF vars
    <2>3. QED
      BY <2>1, <2>2, <1>1, <1>2, <1>3, <1>4, <1>5, <1>6, <1>7, <1>8, <1>9, <1>10, <1>11,
         <1>12, <1>13 DEF Next, Commit
  <1>16. QED
    BY <1>15 DEF u

-----------------------------------------------------------------------------
(* Who may manage a document still may after a step that withdrew no right. *)
LEMMA ManagementKept ==
    ASSUME TypeOK, Reservations, [Next]_vars, NEW a \in Users, NEW d \in Documents,
           RightsKept(a), CanManage(a, d)
    PROVE  CanManage(a, d)'
  <1>1. Stored(d) /\ Member(a, document[d].org)
    BY DEF CanManage
  <1>2. document'[d] = document[d]
    BY <1>1, RowsKept
  <1>3. /\ document[d].org \in Orgs /\ document[d].org # Nil
        /\ document[d].workspace \in Workspaces
    BY <1>1, StoredTypes
  <1>4. Stored(d)' /\ Member(a, document[d].org)'
    BY <1>1, <1>2, <1>3 DEF Stored, Member, RightsKept
  <1>5. OrganizationManager(a, document[d].org) => OrganizationManager(a, document[d].org)'
    BY <1>2, <1>3 DEF OrganizationManager, RightsKept
  <1>6. workspace_role[document[d].workspace][a] = "manager" =>
           workspace_role'[document[d].workspace][a] = "manager"
    BY <1>3 DEF RightsKept
  <1>7. user_grant[d][a] = "manager" => user_grant'[d][a] = "manager"
    BY DEF RightsKept
  <1>8. \A g \in Groups :
           group_grant[d][g] = "manager" /\ group[g] = document[d].org /\ a \in members[g] =>
              group_grant'[d][g] = "manager" /\ group'[g] = document[d].org /\ a \in members'[g]
    BY <1>3, RowsKept DEF RightsKept
  <1>9. QED
    BY <1>2, <1>4, <1>5, <1>6, <1>7, <1>8 DEF CanManage

(* A check establishes what Entitled records, and only an outdated session  *)
(* can lose it.                                                             *)
LEMMA RightsStep ==
    ASSUME TypeOK, Reservations, TenancyAgrees, Targets, Rights, [Next]_vars
    PROVE  Rights'
  <1> SUFFICES ASSUME NEW t \in Sessions, Busy(t)', t \notin outdated'
               PROVE  Entitled(request[t])'
    BY DEF Rights
  <1>1. CASE Busy(t)
    <2> DEFINE r == request[t]
    <2>1. request'[t] = r /\ t \notin outdated /\ RightsKept(r.by)
      BY <1>1, UpToDateKeepsRights
    <2>2. Entitled(r)
      BY <1>1, <2>1 DEF Rights
    <2>3. r \in Requests /\ r.by \in Users
      BY <1>1, BusyTypes, RequestTypes
    <2>4. ASSUME r.op = "add_workspace_member"
          PROVE  MayAddWorkspaceMember(r.by, r.on)'
      <3>1. r.on \in Workspaces
        BY <2>3, <2>4, RequestTypes
      <3>2. MayAddWorkspaceMember(r.by, r.on)
        BY <2>2, <2>4 DEF Entitled
      <3>3. workspace[r.on] # Nil /\ workspace[r.on] \in Orgs
        BY <3>1, <3>2 DEF MayAddWorkspaceMember, Member, TypeOK
      <3>4. workspace'[r.on] = workspace[r.on]
        BY <3>1, <3>3, RowsKept
      <3>5. Member(r.by, workspace[r.on]) => Member(r.by, workspace[r.on])'
        BY <2>1, <3>3, <3>4 DEF Member, RightsKept
      <3>6. OrganizationManager(r.by, workspace[r.on]) => OrganizationManager(r.by, workspace[r.on])'
        BY <2>1, <3>3, <3>4 DEF OrganizationManager, RightsKept
      <3>7. workspace_role[r.on][r.by] = "manager" => workspace_role'[r.on][r.by] = "manager"
        BY <2>1, <3>1 DEF RightsKept
      <3>8. QED
        BY <2>1, <3>2, <3>5, <3>6, <3>7 DEF MayAddWorkspaceMember
    <2>5. ASSUME r.op \in {"add_group_member", "remove_group_member"}
          PROVE  OrganizationManager(r.by, group[r.on])'
      <3>1. r.on \in Groups
        BY <2>3, <2>5, RequestTypes
      <3>2. OrganizationManager(r.by, group[r.on])
        BY <2>2, <2>5 DEF Entitled
      <3>3. group[r.on] # Nil /\ group[r.on] \in Orgs
        BY <3>1, <3>2 DEF OrganizationManager, TypeOK
      <3>4. group'[r.on] = group[r.on]
        BY <3>1, <3>3, RowsKept
      <3>5. QED
        BY <2>1, <3>2, <3>3, <3>4 DEF OrganizationManager, RightsKept
    <2>6. ASSUME r.op \in DocumentOperations
          PROVE  CanManage(r.by, r.on)'
      <3>1. r.on \in Documents
        BY <2>3, <2>6, RequestTypes DEF DocumentOperations
      <3>2. CanManage(r.by, r.on)
        BY <2>2, <2>6 DEF Entitled
      <3>3. QED
        BY <2>1, <2>3, <3>1, <3>2, ManagementKept
    <2>7. QED
      BY <2>1, <2>4, <2>5, <2>6 DEF Entitled
  <1>2. CASE ~Busy(t)
    <2>1. PICK r \in Requests : Check(t, r)
      <3>1. request'[t] # request[t]
        BY <1>2 DEF Busy
      <3>2. ASSUME NEW s \in Sessions, Commit(s) \/ Fail(s)
            PROVE  FALSE
        <4>1. Leave(s)
          BY <3>2 DEF Commit, Fail, CreateWorkspace, CreateGroup, Upload,
             AddWorkspaceMember, AddGroupMember, RemoveGroupMember, AddUserPermission,
             RemoveUserPermission, AddGroupPermission, RemoveGroupPermission, Finish
        <4>2. QED
          BY <3>1, <4>1, LeaveEffect DEF Busy
      <3>3. ASSUME NEW s \in Sessions, NEW q \in Requests, Check(s, q), s # t
            PROVE  FALSE
        BY <3>1, <3>3 DEF Check, TypeOK
      <3>4. request' # request
        BY <3>1
      <3>5. \E s \in Sessions, q \in Requests : Check(s, q)
        <4>1. \A s \in Sessions : ~FindTarget(s)
          BY <3>4 DEF FindTarget
        <4>2. \A a \in Users, o \in Orgs : ~CreateOrganization(a, o)
          BY <3>4 DEF CreateOrganization
        <4>3. \A o \in Orgs, v \in Users, role \in OrganizationRoles \cup None :
                 ~SetOrganizationRole(o, v, role)
          BY <3>4 DEF SetOrganizationRole
        <4>4. QED
          BY <3>2, <3>4, <4>1, <4>2, <4>3 DEF Next, vars
      <3>6. QED
        BY <3>3, <3>5
    <2>2. request'[t] = r /\ Permitted(r)
      BY <2>1 DEF Check, TypeOK
    <2>3. Entitled(r)
      BY <2>2 DEF Permitted, Entitled, DocumentOperations
    <2>4. UNCHANGED <<tenancy, grants>>
      BY <2>1 DEF Check
    <2>5. Entitled(request[t])'
      BY <2>2, <2>3, <2>4
      DEF Entitled, tenancy, grants, MayAddWorkspaceMember, Member, OrganizationManager,
          CanManage, Stored
    <2>6. QED
      BY <2>5
  <1>3. QED
    BY <1>1, <1>2

(* The empty database satisfies the invariant.                              *)
LEMMA InitialInv == Init => Inv
  <1> SUFFICES ASSUME Init
               PROVE  Inv
    OBVIOUS
  <1>1. TypeOK
    BY BoundsAreNaturals DEF Init, TypeOK, None
  <1>2. Reservations /\ Targets /\ Rights
    BY DEF Init, Reservations, Targets, Rights, Busy, Idle, Creations, DocumentOperations
  <1>3. TenancyAgrees
    BY DEF Init, TenancyAgrees, Stored
  <1>4. QED
    BY <1>1, <1>2, <1>3 DEF Inv

(* Every reachable state satisfies the inductive invariant: reservations,   *)
(* tenancy and the rights of up-to-date sessions hold together.             *)
THEOREM InductiveInvariant == Spec => []Inv
  <1>1. Inv /\ [Next]_vars => Inv'
    BY TypeStep, ReservationsStep, TenancyStep, TargetsStep, RightsStep DEF Inv
  <1>2. QED
    BY InitialInv, <1>1, PTL DEF Spec

(* Every reachable state is well-typed.                                     *)
THEOREM TypeSafety == Spec => []TypeOK
  <1>1. Inv => TypeOK
    BY DEF Inv
  <1>2. QED
    BY InductiveInvariant, <1>1, PTL

-----------------------------------------------------------------------------
(* A grant to a group counts in retrieval exactly when it counts in the     *)
(* document service, because the group is one of the document's             *)
(* organization.                                                            *)
LEMMA PathsAgree ==
    ASSUME TypeOK, TenancyAgrees, NEW u \in Users, NEW d \in Documents, Stored(d),
           Member(u, document[d].org)
    PROVE  Paths(u, d) # {} <=> CanRead(u, d)
  <1>1. \A g \in Groups : group_grant[d][g] # "none" => group[g] = document[d].org
    BY DEF TenancyAgrees
  <1>2. Paths(u, d) # {} <=>
           \/ OrganizationManager(u, document[d].org)
           \/ document[d].visibility = "organization"
           \/ document[d].visibility = "workspace" /\ InWorkspace(u, document[d].workspace)
           \/ document[d].owner = u
           \/ user_grant[d][u] # "none"
           \/ \E g \in Groups : group_grant[d][g] # "none" /\ u \in members[g]
    BY DEF Paths
  <1>3. QED
    BY <1>1, <1>2 DEF CanRead

(* The CASE expression of the permission path names every path.             *)
LEMMA PathIsNamed ==
    ASSUME NEW u, NEW d
    PROVE  PermissionPath(u, d) # "unknown" <=> Paths(u, d) # {}
  <1>1. Paths(u, d) \subseteq {"organization_admin", "document_owner",
                             "organization_visibility", "workspace_membership",
                             "direct_user_grant", "group_grant"}
    BY DEF Paths
  <1>2. QED
    BY <1>1 DEF PermissionPath

(* The document service, retrieval's filter and retrieval's explanation of  *)
(* a hit agree about who sees a document, in every reachable state.         *)
THEOREM DefinitionsAgree == Spec => []AccessDefinitionsAgree
  <1>1. Inv => AccessDefinitionsAgree
    <2> SUFFICES ASSUME Inv, NEW u \in Users, NEW d \in Documents, Stored(d)
                 PROVE  /\ \A o \in Orgs : Authorized(u, o, d) <=>
                              o = document[d].org /\ CanRead(u, d)
                        /\ Member(u, document[d].org) =>
                              (CanRead(u, d) <=> PermissionPath(u, d) # "unknown")
      BY DEF AccessDefinitionsAgree
    <2>1. CanRead(u, d) => Member(u, document[d].org)
      BY DEF CanRead
    <2>2. Member(u, document[d].org) => (Paths(u, d) # {} <=> CanRead(u, d))
      BY PathsAgree DEF Inv
    <2>3. QED
      BY <2>1, <2>2, PathIsNamed DEF Authorized
  <1>2. QED
    BY InductiveInvariant, <1>1, PTL

-----------------------------------------------------------------------------
(* Who can read d depends on these rows only.                               *)
SameRows(u, d) ==
    /\ org_role'[document[d].org][u] = org_role[document[d].org][u]
    /\ workspace_role'[document[d].workspace][u] = workspace_role[document[d].workspace][u]
    /\ user_grant'[d][u] = user_grant[d][u]
    /\ \A g \in Groups : group_grant'[d][g] = group_grant[d][g]
    /\ \A g \in Groups : group_grant[d][g] # "none" => (u \in members'[g] <=> u \in members[g])

(* A step that keeps these rows keeps the readers.                          *)
LEMMA SameReaders ==
    ASSUME TypeOK, Reservations, TenancyAgrees, [Next]_vars,
           NEW u \in Users, NEW d \in Documents, Stored(d), SameRows(u, d)
    PROVE  CanRead(u, d)' <=> CanRead(u, d)
  <1>1. document'[d] = document[d]
    BY RowsKept
  <1>2. document[d].org \in Orgs /\ document[d].org # Nil
    BY StoredTypes
  <1>3. Stored(d)' /\ (Member(u, document[d].org)' <=> Member(u, document[d].org))
    BY <1>1, <1>2 DEF Stored, Member, SameRows
  <1>4. OrganizationManager(u, document[d].org)' <=> OrganizationManager(u, document[d].org)
    BY <1>1, <1>2 DEF OrganizationManager, SameRows
  <1>5. InWorkspace(u, document[d].workspace)' <=> InWorkspace(u, document[d].workspace)
    BY <1>1 DEF InWorkspace, SameRows
  <1>6. ASSUME NEW g \in Groups
        PROVE  (group_grant'[d][g] # "none" /\ group'[g] = document[d].org /\ u \in members'[g])
                <=> (group_grant[d][g] # "none" /\ group[g] = document[d].org /\ u \in members[g])
    <2>1. group_grant[d][g] # "none" => group[g] = document[d].org
      BY DEF TenancyAgrees
    <2>2. group[g] # Nil => group'[g] = group[g]
      BY RowsKept
    <2>3. QED
      BY <1>2, <2>1, <2>2 DEF SameRows
  <1>7. user_grant'[d][u] = user_grant[d][u]
    BY DEF SameRows
  <1>8. QED
    BY <1>1, <1>3, <1>4, <1>5, <1>6, <1>7 DEF CanRead

(* The two ways in which the readers of d may change.                       *)
ManagerActs(d) ==
    \E s \in Sessions : /\ Busy(s) /\ ~Busy(s)'
                        /\ s \in outdated \/ CanManage(request[s].by, d)
OperatorActs(d) ==
    /\ org_role'[document[d].org] # org_role[document[d].org]
    /\ changes' = changes + 1

(* Each commit is by a manager of the document whose rows it changes.       *)
LEMMA ReadersStep ==
    ASSUME Inv, [Next]_vars, NEW u \in Users, NEW d \in Documents, Stored(d)
    PROVE  ManagerActs(d) \/ OperatorActs(d) \/ SameRows(u, d)
  <1> USE DEF Inv
  <1>1. /\ document[d].org \in Orgs /\ document[d].org # Nil
        /\ document[d].workspace \in Workspaces
        /\ workspace[document[d].workspace] = document[d].org
    BY StoredTypes DEF TenancyAgrees
  <1>2. ASSUME NEW s \in Sessions, Leave(s), Busy(s),
               s \notin outdated => CanManage(request[s].by, d)
        PROVE  ManagerActs(d)
    BY <1>2, LeaveEffect DEF ManagerActs, Busy
  <1>3. ASSUME NEW s \in Sessions, Commit(s)
        PROVE  ManagerActs(d) \/ SameRows(u, d)
    <2> DEFINE r == request[s]
    <2>1. Leave(s) /\ r.op # "idle"
      BY <1>3 DEF Commit, CreateWorkspace, CreateGroup, Upload, AddWorkspaceMember,
         AddGroupMember, RemoveGroupMember, AddUserPermission, RemoveUserPermission,
         AddGroupPermission, RemoveGroupPermission, Finish
    <2>2. Busy(s) /\ r \in Requests /\ r.by \in Users
      BY <2>1, BusyTypes, RequestTypes
    <2>3. s \notin outdated => Entitled(r)
      BY <2>2 DEF Rights
    <2>4. CASE CreateWorkspace(s)
      <3>1. /\ workspace[r.who] = Nil
            /\ workspace_role' = [workspace_role EXCEPT ![r.who][r.by] = "manager"]
            /\ UNCHANGED <<org_role, members, user_grant, group_grant>>
        BY <2>4 DEF CreateWorkspace, Reservations, grants
      <3>2. r.who # document[d].workspace
        BY <1>1, <3>1
      <3>3. QED
        BY <1>1, <3>1, <3>2 DEF SameRows, TypeOK
    <2>5. CASE CreateGroup(s) \/ Upload(s)
      BY <2>5 DEF CreateGroup, Upload, SameRows, tenancy, grants
    <2>6. CASE AddWorkspaceMember(s)
      <3>1. /\ r.op = "add_workspace_member"
            /\ workspace_role' = [workspace_role EXCEPT ![r.on][r.who] = r.how]
            /\ UNCHANGED <<org_role, members, user_grant, group_grant>>
        BY <2>6 DEF AddWorkspaceMember, grants
      <3>2. CASE r.on = document[d].workspace
        <4>1. s \notin outdated => CanManage(r.by, d)
          BY <1>1, <2>3, <3>1, <3>2 DEF Entitled, MayAddWorkspaceMember, CanManage
        <4>2. QED
          BY <1>2, <2>1, <2>2, <4>1
      <3>3. CASE r.on # document[d].workspace
        BY <1>1, <3>1, <3>3 DEF SameRows, TypeOK
      <3>4. QED
        BY <3>2, <3>3
    <2>7. CASE AddGroupMember(s) \/ RemoveGroupMember(s)
      <3>1. /\ r.op \in {"add_group_member", "remove_group_member"}
            /\ \A g \in Groups : g # r.on => members'[g] = members[g]
            /\ UNCHANGED <<org_role, workspace_role, user_grant, group_grant>>
        BY <2>7 DEF AddGroupMember, RemoveGroupMember, grants, TypeOK
      <3>2. r.on \in Groups
        BY <2>2, <3>1, RequestTypes
      <3>3. CASE group_grant[d][r.on] # "none"
        <4>1. group[r.on] = document[d].org
          BY <3>2, <3>3 DEF TenancyAgrees
        <4>2. s \notin outdated => OrganizationManager(r.by, document[d].org)
          BY <2>3, <3>1, <4>1 DEF Entitled
        <4>3. s \notin outdated => CanManage(r.by, d)
          BY <4>2 DEF CanManage, OrganizationManager, Member
        <4>4. QED
          BY <1>2, <2>1, <2>2, <4>3
      <3>4. CASE group_grant[d][r.on] = "none"
        BY <3>1, <3>4 DEF SameRows
      <3>5. QED
        BY <3>3, <3>4
    <2>8. CASE \/ AddUserPermission(s) \/ RemoveUserPermission(s)
               \/ AddGroupPermission(s) \/ RemoveGroupPermission(s)
      <3>1. /\ r.op \in DocumentOperations
            /\ \A c \in Documents : c # r.on => user_grant'[c] = user_grant[c]
            /\ \A c \in Documents : c # r.on => group_grant'[c] = group_grant[c]
            /\ UNCHANGED <<org_role, workspace_role, members>>
        BY <2>8 DEF AddUserPermission, RemoveUserPermission, AddGroupPermission,
           RemoveGroupPermission, DocumentOperations, tenancy, TypeOK
      <3>2. CASE r.on = d
        <4>1. s \notin outdated => CanManage(r.by, d)
          BY <2>3, <3>1, <3>2 DEF Entitled
        <4>2. QED
          BY <1>2, <2>1, <2>2, <4>1
      <3>3. CASE r.on # d
        BY <3>1, <3>3 DEF SameRows
      <3>4. QED
        BY <3>2, <3>3
    <2>9. QED
      BY <1>3, <2>4, <2>5, <2>6, <2>7, <2>8 DEF Commit
  <1>4. ASSUME NEW a \in Users, NEW o \in Orgs, CreateOrganization(a, o)
        PROVE  SameRows(u, d)
    <2>1. /\ o \notin organizations
          /\ org_role' = [org_role EXCEPT ![o][a] = "owner"]
          /\ UNCHANGED <<workspace_role, members, user_grant, group_grant>>
      BY <1>4 DEF CreateOrganization, grants
    <2>2. document[d].org # o
      BY <1>1, <2>1 DEF TenancyAgrees
    <2>3. QED
      BY <1>1, <2>1, <2>2 DEF SameRows, TypeOK
  <1>5. ASSUME NEW o \in Orgs, NEW v \in Users, NEW role \in OrganizationRoles \cup None,
               SetOrganizationRole(o, v, role)
        PROVE  OperatorActs(d) \/ SameRows(u, d)
    <2>1. /\ org_role[o][v] # role /\ changes' = changes + 1
          /\ org_role' = [org_role EXCEPT ![o][v] = role]
          /\ UNCHANGED <<workspace_role, members, user_grant, group_grant>>
      BY <1>5 DEF SetOrganizationRole, grants
    <2>2. CASE document[d].org = o
      <3>1. org_role'[o][v] = role
        BY <2>1 DEF TypeOK
      <3>2. QED
        BY <2>1, <2>2, <3>1 DEF OperatorActs
    <2>3. CASE document[d].org # o
      BY <1>1, <2>1, <2>3 DEF SameRows, TypeOK
    <2>4. QED
      BY <2>2, <2>3
  <1>6. ASSUME UNCHANGED <<tenancy, grants>>
        PROVE  SameRows(u, d)
    BY <1>6 DEF SameRows, tenancy, grants
  <1>7. QED
    <2>1. ASSUME NEW s \in Sessions, FindTarget(s) \/ Fail(s) \/ \E r \in Requests : Check(s, r)
          PROVE  SameRows(u, d)
      BY <2>1, <1>6 DEF FindTarget, Fail, Check
    <2>2. CASE UNCHANGED vars
      BY <2>2, <1>6 DEF vars
    <2>3. QED
      BY <2>1, <2>2, <1>3, <1>4, <1>5 DEF Next

(* Only the sessions of managers (or of actors that were managers when they *)
(* were checked) and operators change who can read a stored document.       *)
THEOREM ManagersDecide == Spec => OnlyManagersChangeReaders
  <1> DEFINE A == \A u \in Users, d \in Documents :
                    Stored(d) /\ CanRead(u, d)' # CanRead(u, d) =>
                      \/ \E s \in Sessions : /\ Busy(s) /\ ~Busy(s)'
                                             /\ s \in outdated \/ CanManage(request[s].by, d)
                      \/ /\ org_role'[document[d].org] # org_role[document[d].org]
                         /\ changes' = changes + 1
  <1>1. Inv /\ [Next]_vars => A
    <2> SUFFICES ASSUME Inv, [Next]_vars, NEW u \in Users, NEW d \in Documents, Stored(d)
                 PROVE  \/ CanRead(u, d)' = CanRead(u, d)
                        \/ ManagerActs(d) \/ OperatorActs(d)
      BY DEF ManagerActs, OperatorActs
    <2>1. CASE SameRows(u, d)
      <3>1. CanRead(u, d)' <=> CanRead(u, d)
        BY <2>1, SameReaders DEF Inv
      <3>2. CanRead(u, d) \in BOOLEAN /\ CanRead(u, d)' \in BOOLEAN
        BY DEF CanRead
      <3>3. QED
        BY <3>1, <3>2
    <2>2. QED
      BY <2>1, ReadersStep
  <1>2. QED
    BY InductiveInvariant, <1>1, PTL DEF Spec, OnlyManagersChangeReaders
=============================================================================
