------------------------------- MODULE Access -------------------------------
(***************************************************************************)
(* Tenancy and document permissions: organizations, workspaces, groups and *)
(* their members, documents and the grants on them, and the three places   *)
(* that decide who may see a document: the document service, retrieval's   *)
(* filter and retrieval's explanation of a hit.                            *)
(*                                                                         *)
(* A request first reads what entitles its actor, then the object it will  *)
(* relate or the row it will delete, and writes later (an upload awaits    *)
(* the whole file in between), so other requests may commit in the middle. *)
(* `outdated' is a history variable: it records the requests whose actor   *)
(* has lost some right since its check.                                    *)
(*                                                                         *)
(* Definitions named Mutant... are faulty variants of the definition that  *)
(* follows them, used only to confirm that a property can fail.            *)
(***************************************************************************)
EXTENDS Naturals

CONSTANTS
    Users, Orgs, Workspaces, Groups, Documents,
    OrganizationRoles, WorkspaceRoles, Levels,  \* enums.py: roles and levels in use
    Sessions,       \* database sessions of API requests
    Nil,            \* no organization, workspace or user
    MaxRequests,    \* bound: requests that pass their check
    MaxChanges      \* bound: changes of organization roles by operators

ASSUME BoundsAreNaturals == MaxRequests \in Nat /\ MaxChanges \in Nat
ASSUME RolesAreEnumerated ==
    /\ {"owner"} \subseteq OrganizationRoles
    /\ OrganizationRoles \subseteq {"owner", "admin", "evaluation_admin", "member"}
    /\ {"manager"} \subseteq WorkspaceRoles
    /\ WorkspaceRoles \subseteq {"manager", "member", "viewer"}
    /\ Levels \subseteq {"viewer", "editor", "manager"}
ASSUME NilIsNobody == Nil \notin Users \cup Orgs \cup Workspaces

VARIABLES
    organizations,  \* organizations that exist
    org_role,       \* organization_memberships.role, "none" without a row
    workspace,      \* the organization of each workspace, Nil before it exists
    workspace_role, \* workspace_memberships.role
    group,          \* the organization of each group
    members,        \* group_memberships
    document,       \* the documents' tenancy columns and visibility
    user_grant,     \* document_user_permissions.level
    group_grant,    \* document_group_permissions.level
    request,        \* what each session has checked and is about to write
    found,          \* sessions whose second read has succeeded
    missed,         \* sessions whose row to delete was deleted by another one
    outdated,       \* history: sessions whose actor lost a right since the check
    requests,       \* requests so far, bounded by MaxRequests
    changes         \* operators' changes so far, bounded by MaxChanges

tenancy == <<organizations, org_role, workspace, workspace_role, group, members>>
grants  == <<document, user_grant, group_grant>>
vars    == <<tenancy, grants, request, found, missed, outdated, requests, changes>>

-----------------------------------------------------------------------------
Visibilities      == {"organization", "workspace", "restricted", "owner"}
None              == {"none"}

NoDocument == [org |-> Nil, workspace |-> Nil, owner |-> Nil, visibility |-> "none"]
DocumentRows ==
    [org: Orgs, workspace: Workspaces, owner: Users, visibility: Visibilities]

(* A request: its operation, actor, the object it is addressed to, the new  *)
(* or affected member of it, and a role, level or visibility.               *)
Requests ==
    [op: {"create_workspace"}, by: Users, on: Orgs, who: Workspaces, how: None]
    \cup [op: {"create_group"}, by: Users, on: Orgs, who: Groups, how: None]
    \cup [op: {"add_workspace_member"}, by: Users, on: Workspaces, who: Users,
          how: WorkspaceRoles]
    \cup [op: {"add_group_member", "remove_group_member"}, by: Users, on: Groups,
          who: Users, how: None]
    \cup [op: {"upload"}, by: Users, on: Workspaces, who: Documents, how: Visibilities]
    \cup [op: {"add_user_permission"}, by: Users, on: Documents, who: Users, how: Levels]
    \cup [op: {"remove_user_permission"}, by: Users, on: Documents, who: Users, how: None]
    \cup [op: {"add_group_permission"}, by: Users, on: Documents, who: Groups, how: Levels]
    \cup [op: {"remove_group_permission"}, by: Users, on: Documents, who: Groups, how: None]

Idle == [op |-> "idle", by |-> Nil, on |-> Nil, who |-> Nil, how |-> "none"]

TypeOK ==
    /\ organizations \in SUBSET Orgs
    /\ org_role \in [Orgs -> [Users -> OrganizationRoles \cup None]]
    /\ workspace \in [Workspaces -> Orgs \cup {Nil}]
    /\ workspace_role \in [Workspaces -> [Users -> WorkspaceRoles \cup None]]
    /\ group \in [Groups -> Orgs \cup {Nil}]
    /\ members \in [Groups -> SUBSET Users]
    /\ document \in [Documents -> DocumentRows \cup {NoDocument}]
    /\ user_grant \in [Documents -> [Users -> Levels \cup None]]
    /\ group_grant \in [Documents -> [Groups -> Levels \cup None]]
    /\ request \in [Sessions -> Requests \cup {Idle}]
    /\ found \in SUBSET Sessions
    /\ missed \in SUBSET Sessions
    /\ outdated \in SUBSET Sessions
    /\ requests \in 0 .. MaxRequests
    /\ changes \in 0 .. MaxChanges

Init ==
    /\ organizations = {}
    /\ org_role = [o \in Orgs |-> [u \in Users |-> "none"]]
    /\ workspace = [w \in Workspaces |-> Nil]
    /\ workspace_role = [w \in Workspaces |-> [u \in Users |-> "none"]]
    /\ group = [g \in Groups |-> Nil]
    /\ members = [g \in Groups |-> {}]
    /\ document = [d \in Documents |-> NoDocument]
    /\ user_grant = [d \in Documents |-> [u \in Users |-> "none"]]
    /\ group_grant = [d \in Documents |-> [g \in Groups |-> "none"]]
    /\ request = [s \in Sessions |-> Idle]
    /\ found = {}
    /\ missed = {}
    /\ outdated = {}
    /\ requests = 0
    /\ changes = 0

-----------------------------------------------------------------------------
(*                         Who may see a document                           *)

Stored(d) == document[d] # NoDocument
Member(u, o) == o # Nil /\ org_role[o][u] # "none"
OrganizationManager(u, o) == o # Nil /\ org_role[o][u] \in {"owner", "admin"}
InWorkspace(u, w) == workspace_role[w][u] # "none"

(* retrieval/authorization.py: the ways to a document, each by its name.    *)
(* The group path does not look at the group's organization.                *)
Paths(u, d) ==
    (IF OrganizationManager(u, document[d].org) THEN {"organization_admin"} ELSE {})
    \cup (IF document[d].visibility = "organization" THEN {"organization_visibility"} ELSE {})
    \cup (IF document[d].visibility = "workspace" /\ InWorkspace(u, document[d].workspace)
          THEN {"workspace_membership"} ELSE {})
    \cup (IF document[d].owner = u THEN {"document_owner"} ELSE {})
    \cup (IF user_grant[d][u] # "none" THEN {"direct_user_grant"} ELSE {})
    \cup (IF \E g \in Groups : group_grant[d][g] # "none" /\ u \in members[g]
          THEN {"group_grant"} ELSE {})

(* build_authorized_document_condition(): the filter of both searches.      *)
Authorized(u, o, d) == document[d].org = o /\ Member(u, o) /\ Paths(u, d) # {}

(* build_document_permission_path_expression(): the first path that holds   *)
(* explains the hit; it is not restricted to members.                       *)
PermissionPath(u, d) ==
    LET Holds(path) == path \in Paths(u, d) IN
    IF Holds("organization_admin") THEN "organization_admin"
    ELSE IF Holds("document_owner") THEN "document_owner"
    ELSE IF Holds("organization_visibility") THEN "organization_visibility"
    ELSE IF Holds("workspace_membership") THEN "workspace_membership"
    ELSE IF Holds("direct_user_grant") THEN "direct_user_grant"
    ELSE IF Holds("group_grant") THEN "group_grant"
    ELSE "unknown"

(* documents/service.py, authorized_document_condition().                   *)
CanRead(u, d) ==
    LET doc == document[d] IN
    /\ Stored(d)
    /\ Member(u, doc.org)
    /\ \/ OrganizationManager(u, doc.org)
       \/ doc.owner = u
       \/ user_grant[d][u] # "none"
       \/ \E g \in Groups : /\ group_grant[d][g] # "none"
                            /\ group[g] = doc.org
                            /\ u \in members[g]
       \/ doc.visibility = "organization"
       \/ doc.visibility = "workspace" /\ InWorkspace(u, doc.workspace)

(* documents/service.py, _get_manageable_document().                        *)
CanManage(u, d) ==
    LET doc == document[d] IN
    /\ Stored(d)
    /\ Member(u, doc.org)
    /\ \/ doc.owner = u
       \/ OrganizationManager(u, doc.org)
       \/ workspace_role[doc.workspace][u] = "manager"
       \/ user_grant[d][u] = "manager"
       \/ \E g \in Groups : /\ group_grant[d][g] = "manager"
                            /\ group[g] = doc.org
                            /\ u \in members[g]

-----------------------------------------------------------------------------
(*                        What a request must read                          *)

Busy(s) == request[s] # Idle
Reserved(x) == \E s \in Sessions : Busy(s) /\ request[s].who = x

(* require_document_creation(): a workspace manager needs no role in the    *)
(* organization.                                                            *)
MayUpload(a, w) ==
    /\ workspace[w] # Nil
    /\ OrganizationManager(a, workspace[w]) \/ workspace_role[w][a] = "manager"

MutantMayAddWorkspaceMember(a, w) == Member(a, workspace[w])
MayAddWorkspaceMember(a, w) ==
    /\ Member(a, workspace[w])
    /\ OrganizationManager(a, workspace[w]) \/ workspace_role[w][a] = "manager"

(* What entitles the actor; the identifiers of new rows are fresh UUIDs.    *)
Permitted(r) ==
    \/ /\ r.op = "create_workspace"
       /\ OrganizationManager(r.by, r.on)
       /\ workspace[r.who] = Nil /\ ~Reserved(r.who)
    \/ /\ r.op = "create_group"
       /\ OrganizationManager(r.by, r.on)
       /\ group[r.who] = Nil /\ ~Reserved(r.who)
    \/ /\ r.op = "upload"
       /\ MayUpload(r.by, r.on)
       /\ ~Stored(r.who) /\ ~Reserved(r.who)
    \/ /\ r.op = "add_workspace_member"
       /\ MayAddWorkspaceMember(r.by, r.on)
    \/ /\ r.op \in {"add_group_member", "remove_group_member"}
       /\ OrganizationManager(r.by, group[r.on])
    \/ /\ r.op \in {"add_user_permission", "remove_user_permission",
                    "add_group_permission", "remove_group_permission"}
       /\ CanManage(r.by, r.on)

MutantEligibleGroup(d, g) == group[g] # Nil
EligibleGroup(d, g) == group[g] = document[d].org

(* The second read: the new member or grantee is eligible and has no row    *)
(* yet (grants leave that to the unique constraint), or the row to delete   *)
(* exists.                                                                  *)
TargetFound(r) ==
    \/ /\ r.op = "add_workspace_member"
       /\ Member(r.who, workspace[r.on]) /\ ~InWorkspace(r.who, r.on)
    \/ /\ r.op = "add_group_member"
       /\ Member(r.who, group[r.on]) /\ r.who \notin members[r.on]
    \/ r.op = "remove_group_member" /\ r.who \in members[r.on]
    \/ r.op = "add_user_permission" /\ Member(r.who, document[r.on].org)
    \/ r.op = "remove_user_permission" /\ user_grant[r.on][r.who] # "none"
    \/ r.op = "add_group_permission" /\ EligibleGroup(r.on, r.who)
    \/ /\ r.op = "remove_group_permission"
       /\ group_grant[r.on][r.who] # "none" /\ EligibleGroup(r.on, r.who)

-----------------------------------------------------------------------------
(*                                Requests                                  *)

(* The reads about the actor are one step.                                  *)
Check(s, r) ==
    /\ ~Busy(s)
    /\ requests < MaxRequests
    /\ Permitted(r)
    /\ request' = [request EXCEPT ![s] = r]
    /\ requests' = requests + 1
    /\ UNCHANGED <<tenancy, grants, found, missed, outdated, changes>>

FindTarget(s) ==
    /\ s \notin found
    /\ TargetFound(request[s])
    /\ found' = found \cup {s}
    /\ UNCHANGED <<tenancy, grants, request, missed, outdated, requests, changes>>

Leave(s) ==
    /\ request' = [request EXCEPT ![s] = Idle]
    /\ found' = found \ {s}
    /\ UNCHANGED <<requests, changes>>

(* The session's transaction ends.  The sessions that have read the row it  *)
(* deleted have nothing left to delete, and some users have lost a right.   *)
Finish(s, losers) ==
    LET SameRow(t) == /\ request[t].op = request[s].op
                      /\ request[t].on = request[s].on
                      /\ request[t].who = request[s].who
        Effective == s \notin missed
    IN  /\ Leave(s)
        /\ missed' = (missed \cup {t \in found : Effective /\ SameRow(t)}) \ {s}
        /\ outdated' = (outdated \cup {t \in Sessions :
                          Effective /\ Busy(t) /\ request[t].by \in losers}) \ {s}

(* Any failure, a broken unique constraint included, rolls back.            *)
Fail(s) ==
    /\ Busy(s)
    /\ Leave(s)
    /\ missed' = missed \ {s}
    /\ outdated' = outdated \ {s}
    /\ UNCHANGED <<tenancy, grants>>

(* The creator becomes the workspace's manager in the same transaction.     *)
MutantCreateWorkspace(s) ==
    LET r == request[s] IN
    /\ r.op = "create_workspace"
    /\ workspace' = [workspace EXCEPT ![r.who] = r.on]
    /\ workspace_role' = [workspace_role EXCEPT ![r.who][r.by] = org_role[r.on][r.by]]
    /\ Finish(s, {})
    /\ UNCHANGED <<organizations, org_role, group, members, grants>>
CreateWorkspace(s) ==
    LET r == request[s] IN
    /\ r.op = "create_workspace"
    /\ workspace' = [workspace EXCEPT ![r.who] = r.on]
    /\ workspace_role' = [workspace_role EXCEPT ![r.who][r.by] = "manager"]
    /\ Finish(s, {})
    /\ UNCHANGED <<organizations, org_role, group, members, grants>>

CreateGroup(s) ==
    LET r == request[s] IN
    /\ r.op = "create_group"
    /\ group' = [group EXCEPT ![r.who] = r.on]
    /\ Finish(s, {})
    /\ UNCHANGED <<organizations, org_role, workspace, workspace_role, members, grants>>

AddWorkspaceMember(s) ==
    LET r == request[s] IN
    /\ s \in found /\ r.op = "add_workspace_member"
    /\ ~InWorkspace(r.who, r.on)
    /\ workspace_role' = [workspace_role EXCEPT ![r.on][r.who] = r.how]
    /\ Finish(s, {})
    /\ UNCHANGED <<organizations, org_role, workspace, group, members, grants>>

AddGroupMember(s) ==
    LET r == request[s] IN
    /\ s \in found /\ r.op = "add_group_member"
    /\ r.who \notin members[r.on]
    /\ members' = [members EXCEPT ![r.on] = @ \cup {r.who}]
    /\ Finish(s, {})
    /\ UNCHANGED <<organizations, org_role, workspace, workspace_role, group, grants>>

(* A DELETE addresses the row the check read, not one added since.          *)
RemoveGroupMember(s) ==
    LET r == request[s] IN
    /\ s \in found /\ r.op = "remove_group_member"
    /\ members' = IF s \in missed THEN members
                  ELSE [members EXCEPT ![r.on] = @ \ {r.who}]
    /\ Finish(s, {r.who})
    /\ UNCHANGED <<organizations, org_role, workspace, workspace_role, group, grants>>

(* upload(): the document belongs to the workspace's organization and to    *)
(* the uploading user.                                                      *)
Upload(s) ==
    LET r == request[s] IN
    /\ r.op = "upload"
    /\ document' = [document EXCEPT ![r.who] =
            [org |-> workspace[r.on], workspace |-> r.on, owner |-> r.by,
             visibility |-> r.how]]
    /\ Finish(s, {})
    /\ UNCHANGED <<tenancy, user_grant, group_grant>>

AddUserPermission(s) ==
    LET r == request[s] IN
    /\ s \in found /\ r.op = "add_user_permission"
    /\ user_grant[r.on][r.who] = "none"
    /\ user_grant' = [user_grant EXCEPT ![r.on][r.who] = r.how]
    /\ Finish(s, {})
    /\ UNCHANGED <<tenancy, document, group_grant>>

RemoveUserPermission(s) ==
    LET r == request[s] IN
    /\ s \in found /\ r.op = "remove_user_permission"
    /\ user_grant' = IF s \in missed THEN user_grant
                     ELSE [user_grant EXCEPT ![r.on][r.who] = "none"]
    /\ Finish(s, {r.who})
    /\ UNCHANGED <<tenancy, document, group_grant>>

AddGroupPermission(s) ==
    LET r == request[s] IN
    /\ s \in found /\ r.op = "add_group_permission"
    /\ group_grant[r.on][r.who] = "none"
    /\ group_grant' = [group_grant EXCEPT ![r.on][r.who] = r.how]
    /\ Finish(s, {})
    /\ UNCHANGED <<tenancy, document, user_grant>>

RemoveGroupPermission(s) ==
    LET r == request[s] IN
    /\ s \in found /\ r.op = "remove_group_permission"
    /\ group_grant' = IF s \in missed THEN group_grant
                      ELSE [group_grant EXCEPT ![r.on][r.who] = "none"]
    /\ Finish(s, members[r.who])
    /\ UNCHANGED <<tenancy, document, user_grant>>

(* create_organization(): any user may; the creator becomes its owner.      *)
CreateOrganization(a, o) ==
    /\ o \notin organizations
    /\ organizations' = organizations \cup {o}
    /\ org_role' = [org_role EXCEPT ![o][a] = "owner"]
    /\ UNCHANGED <<workspace, workspace_role, group, members, grants, request, found,
                   missed, outdated, requests, changes>>

(* No handler changes an organization's members after its creation:         *)
(* operators insert, change and delete those rows.                          *)
SetOrganizationRole(o, u, role) ==
    /\ o \in organizations
    /\ changes < MaxChanges
    /\ org_role[o][u] # role
    /\ org_role' = [org_role EXCEPT ![o][u] = role]
    /\ outdated' = outdated \cup
            {s \in Sessions : /\ Busy(s) /\ request[s].by = u
                              /\ OrganizationManager(u, o) \/ role = "none"}
    /\ changes' = changes + 1
    /\ UNCHANGED <<organizations, workspace, workspace_role, group, members, grants,
                   request, found, missed, requests>>

Commit(s) ==
    \/ CreateWorkspace(s) \/ CreateGroup(s) \/ AddWorkspaceMember(s)
    \/ AddGroupMember(s) \/ RemoveGroupMember(s) \/ Upload(s)
    \/ AddUserPermission(s) \/ RemoveUserPermission(s)
    \/ AddGroupPermission(s) \/ RemoveGroupPermission(s)

Next ==
    \/ \E s \in Sessions, r \in Requests : Check(s, r)
    \/ \E s \in Sessions : FindTarget(s) \/ Commit(s) \/ Fail(s)
    \/ \E a \in Users, o \in Orgs : CreateOrganization(a, o)
    \/ \E o \in Orgs, u \in Users, role \in OrganizationRoles \cup None :
          SetOrganizationRole(o, u, role)

Spec == Init /\ [][Next]_vars

-----------------------------------------------------------------------------
(*                               Properties                                 *)

(* The three definitions of access agree, although only the document        *)
(* service compares the organization of a group with the document's: a hit  *)
(* of retrieval can be opened, a document that can be opened is searchable, *)
(* and each hit has a permission path to store with it.                     *)
AccessDefinitionsAgree ==
    \A u \in Users, d \in Documents : Stored(d) =>
        /\ \A o \in Orgs : Authorized(u, o, d) <=> o = document[d].org /\ CanRead(u, d)
        /\ Member(u, document[d].org) => (CanRead(u, d) <=> PermissionPath(u, d) # "unknown")

(* Whoever changes who can read a stored document - by a grant, by group    *)
(* membership (groups/service.py) or by workspace membership                *)
(* (workspaces/service.py) - may manage that document, unless it lost that  *)
(* right between its check and its commit; only operators act otherwise.    *)
OnlyManagersChangeReaders ==
    [][\A u \in Users, d \in Documents :
         Stored(d) /\ CanRead(u, d)' # CanRead(u, d) =>
             \/ \E s \in Sessions : /\ Busy(s) /\ ~Busy(s)'
                                    /\ s \in outdated \/ CanManage(request[s].by, d)
             \/ /\ org_role'[document[d].org] # org_role[document[d].org]
                /\ changes' = changes + 1]_vars
=============================================================================
