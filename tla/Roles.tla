-------------------------------- MODULE Roles --------------------------------
(***************************************************************************)
(* Who may do what, while administrators change it: site roles             *)
(* (putUserRoles), roles in an organization (putMemberRoles), groups       *)
(* (patchGroup, deleteGroup) and the access list of a template             *)
(* (patchTemplateACL).                                                     *)
(*                                                                         *)
(* The middleware reads the roles of the actor, then the row of the        *)
(* target; the handler decides with what was read and writes later.        *)
(***************************************************************************)
EXTENDS RBAC

CONSTANTS
    Users,
    Orgs,
    Member,        \* Member[u]: the organizations of user u
    FirstOwner,    \* the owner at the start
    FirstAdmin,    \* the user admin at the start
    TemplateOrg,   \* the organization of the template
    Group,         \* a group of that organization
    Requests,
    MaxChanges     \* bounds the writes

SiteNames == {"owner", "user-admin"}

VARIABLES
    site,      \* users.rbac_roles
    admin,     \* organization_members.roles: the organizations one is admin of
    inGroup,   \* group_members of Group
    userACL,   \* the template's lists
    groupACL,
    granted,   \* history: roles someone who may assign them has given
    changes,
    req

vars == <<site, admin, inGroup, userACL, groupACL, granted, changes, req>>

Idle == [at |-> "idle", actor |-> "none", roles |-> {}, target |-> "none", org |-> NoOrg, held |-> {}]

TypeOK ==
    /\ site \in [Users -> SUBSET SiteNames]
    /\ admin \in [Users -> SUBSET Orgs]
    /\ inGroup \subseteq Users
    /\ \A r \in Requests : req[r].at # "idle" => req[r].actor \in Users /\ req[r].target \in Users

Init ==
    /\ site = [u \in Users |-> IF u = FirstOwner THEN {"owner"} ELSE IF u = FirstAdmin THEN {"user-admin"} ELSE {}]
    /\ admin = [u \in Users |-> {}]
    /\ inGroup = {}
    /\ userACL = << >>
    /\ groupACL = [g \in {TemplateOrg} |-> {"read"}]
    /\ granted = [u \in Users |-> site[u] \X {NoOrg}]
    /\ changes = 0
    /\ req = [r \in Requests |-> Idle]

----------------------------------------------------------------------------
SiteRoles(u) == site[u] \X {NoOrg}
OrgRoles(u) == {"organization-admin"} \X admin[u]

\* GetAuthorizationUserRoles: the stored roles and the implied ones.
UserRoles(u) ==
    SiteRoles(u) \cup {<<"member", NoOrg>>} \cup OrgRoles(u) \cup ({"organization-member"} \X Member[u])

Subject(u, scope) == [id |-> u, roles |-> UserRoles(u), scope |-> scope, groups |-> IF u \in inGroup THEN {Group} ELSE {}]

Object(type, org, owner) == [type |-> type, org |-> org, owner |-> owner, userACL |-> << >>, groupACL |-> << >>]

Template == [Object("template", TemplateOrg, NoOwner) EXCEPT !.userACL = userACL, !.groupACL = groupACL]

\* The actor as the middleware read it.
Actor(q) == [id |-> q.actor, roles |-> q.roles, scope |-> "all", groups |-> {}]

----------------------------------------------------------------------------
Change == changes < MaxChanges /\ changes' = changes + 1

\* The middleware, for one of the two handlers: nobody changes their own roles.
Read(r, u, v, org) ==
    /\ req[r].at = "idle"
    /\ u # v
    /\ org # NoOrg => org \in Member[v]
    /\ req' = [req EXCEPT ![r] = [at |-> "decide", actor |-> u, roles |-> UserRoles(u), target |-> v, org |-> org,
                                  held |-> IF org = NoOrg THEN SiteRoles(v)
                                           ELSE {x \in OrgRoles(v) : x[2] = org}]]
    /\ UNCHANGED <<site, admin, inGroup, userACL, groupACL, granted, changes>>

\* Mutant of Assignable: the change is authorized, but not the roles in it.
AssignableAll(q, to, type) ==
    /\ Added(q.held, to) # {} => Authorize(Actor(q), "create", Object(type, q.org, NoOwner))
    /\ Removed(q.held, to) # {} => Authorize(Actor(q), "delete", Object(type, q.org, NoOwner))

\* "Assigning a role requires the create permission", removing one the delete permission,
\* and either that the actor can assign the role.
Assignable(q, to, type) ==
    /\ Added(q.held, to) # {} => Authorize(Actor(q), "create", Object(type, q.org, NoOwner))
    /\ Removed(q.held, to) # {} => Authorize(Actor(q), "delete", Object(type, q.org, NoOwner))
    /\ \A role \in Added(q.held, to) \cup Removed(q.held, to) : CanAssignRole(q.roles, role)

\* A history variable: the roles that are in the request and may be assigned by its actor.
Record(q, to) == granted' = [granted EXCEPT ![q.target] = @ \cup {role \in to : CanAssignRole(q.roles, role)}]

\* putUserRoles: the member role is implied, and the list is stored as it was sent.
putUserRoles(r, names) ==
    LET q == req[r]
        to == names \X {NoOrg}
    IN  /\ q.at = "decide" /\ q.org = NoOrg
        /\ Assignable(q, to \cup {<<"member", NoOrg>>}, "assign_role")
        /\ site' = [site EXCEPT ![q.target] = names]
        /\ Record(q, to)
        /\ Change
        /\ req' = [req EXCEPT ![r] = Idle]
        /\ UNCHANGED <<admin, inGroup, userACL, groupACL>>

\* putMemberRoles: only roles of the organization in the URL.
putMemberRoles(r, makeAdmin) ==
    LET q == req[r]
        to == IF makeAdmin THEN {<<"organization-admin", q.org>>} ELSE {}
    IN  /\ q.at = "decide" /\ q.org # NoOrg
        /\ Assignable(q, to \cup {<<"organization-member", q.org>>}, "assign_org_role")
        /\ admin' = [admin EXCEPT ![q.target] = IF makeAdmin THEN @ \cup {q.org} ELSE @ \ {q.org}]
        /\ Record(q, to)
        /\ Change
        /\ req' = [req EXCEPT ![r] = Idle]
        /\ UNCHANGED <<site, inGroup, userACL, groupACL>>

\* Any of the early returns.
Refuse(r) ==
    /\ req[r].at = "decide"
    /\ req' = [req EXCEPT ![r] = Idle]
    /\ UNCHANGED <<site, admin, inGroup, userACL, groupACL, granted, changes>>

----------------------------------------------------------------------------
\* patchGroup: members of the organization only.
patchGroup(u, v) ==
    /\ Change
    /\ Authorize(Subject(u, "all"), "update", Object("group", TemplateOrg, NoOwner))
    /\ TemplateOrg \in Member[v]
    /\ inGroup' = IF v \in inGroup THEN inGroup \ {v} ELSE inGroup \cup {v}
    /\ UNCHANGED <<site, admin, userACL, groupACL, granted, req>>

\* deleteGroup: the members go with it, the access lists keep its id.
deleteGroup(u) ==
    /\ Change
    /\ Authorize(Subject(u, "all"), "delete", Object("group", TemplateOrg, NoOwner))
    /\ inGroup' = {}
    /\ UNCHANGED <<site, admin, userACL, groupACL, granted, req>>

\* convertSDKTemplateRole; no role deletes the entry.
Entry(list, id, role) ==
    LET rest == [x \in DOMAIN list \ {id} |-> list[x]]
    IN  IF role = "deleted" THEN rest
        ELSE [x \in DOMAIN list \cup {id} |-> IF x = id THEN {IF role = "admin" THEN "*" ELSE "read"} ELSE list[x]]

\* patchTemplateACL: "Only users who are able to create templates".
patchTemplateACL(u, id, role) ==
    /\ Change
    /\ Authorize(Subject(u, "all"), "create", Template)
    /\ IF id \in Users THEN userACL' = Entry(userACL, id, role) /\ UNCHANGED groupACL
                       ELSE groupACL' = Entry(groupACL, id, role) /\ UNCHANGED userACL
    /\ UNCHANGED <<site, admin, inGroup, granted, req>>

Next ==
    \/ \E r \in Requests :
        \/ \E u, v \in Users, org \in Orgs \cup {NoOrg} : Read(r, u, v, org)
        \/ \E names \in SUBSET SiteNames : putUserRoles(r, names)
        \/ \E makeAdmin \in BOOLEAN : putMemberRoles(r, makeAdmin)
        \/ Refuse(r)
    \/ \E u, v \in Users : patchGroup(u, v)
    \/ \E u \in Users : deleteGroup(u)
    \/ \E u \in Users, id \in Users \cup {Group}, role \in {"admin", "use", "deleted"} : patchTemplateACL(u, id, role)

Spec == Init /\ [][Next]_vars

----------------------------------------------------------------------------
(* A role comes from someone who may assign it.  Requests decide with the  *)
(* roles they read, so one may write back a role that was taken away       *)
(* meanwhile, but never one that was never given.                          *)
RolesWereGranted ==
    \A u \in Users : SiteRoles(u) \cup OrgRoles(u) \subseteq granted[u]

Objects == {Template} \cup {Object("workspace", org, owner) : org \in Orgs, owner \in Users}

(* A list has what its members allow one by one: the WHERE clause compiled *)
(* from the policy selects a template or a workspace just when Authorize   *)
(* allows it, whatever the roles, groups, lists and scope.  (Requests in   *)
(* flight make no difference: they may all return.)                        *)
FilterAgrees ==
    (\A r \in Requests : req[r] = Idle) => \A u \in Users, scope \in {"all", "application_connect"},
                                               action \in {"read", "update"}, o \in Objects :
        Selected(Subject(u, scope), action, o) = Authorize(Subject(u, scope), action, o)

(* "Assigning a role requires ..." that the actor may assign it.  A user   *)
(* admin who edits an owner's roles while an owner takes that role away    *)
(* gives it back.                                                          *)
TakenStaysTaken ==
    [][\A u \in Users : "owner" \in site'[u] \ site[u] =>
        \E r \in Requests : req[r].target = u /\ <<"owner", NoOrg>> \in req[r].roles]_vars
=============================================================================
