-------------------------------- MODULE RBAC --------------------------------
(***************************************************************************)
(* Authorization (coderd/rbac): the built-in roles and scopes, the policy  *)
(* that decides one request (Authorize), and the same decision turned into *)
(* a WHERE clause for a list (Prepare, regosql).                           *)
(*                                                                         *)
(* A role is <<name, organization>>, with NoOrg for a site role.  No       *)
(* built-in role negates a permission, so the policy's numbers -1, 0 and 1 *)
(* are 0 and 1 here.  A permission is <<type, action>>.                    *)
(***************************************************************************)
EXTENDS Naturals, FiniteSets

NoOrg == ""
NoOwner == ""

Wildcard == {<<"*", "*">>}
CRUD(t) == {t} \X {"create", "read", "update", "delete"}

\* builtInRoles: what a role allows anywhere, ...
Site(role) ==
    CASE role[1] = "owner" -> Wildcard
      [] role[1] = "member" -> {"user", "assign_role", "provisioner_daemon"} \X {"read"}
      [] role[1] = "auditor" -> {"template", "audit_log"} \X {"read"}
      [] role[1] = "template-admin" ->
            (UNION {CRUD(t) : t \in {"template", "file", "provisioner_daemon"}}) \cup {<<"workspace", "read">>}
      [] role[1] = "user-admin" ->
            UNION {CRUD(t) : t \in {"assign_role", "user", "organization_member", "group"}}
      [] OTHER -> {}

\* ... in its organization, ...
Org(role) ==
    CASE role[1] = "organization-admin" -> Wildcard
      [] role[1] = "organization-member" ->
            {"organization_member", "organization", "assign_org_role", "group"} \X {"read"}
      [] OTHER -> {}

\* ... and on what the user owns.
User(role) == IF role[1] = "member" THEN Wildcard ELSE {}

\* builtinScopes; only the site level of a scope is looked at.
Scope(scope) == IF scope = "all" THEN Wildcard ELSE {<<"application_connect", "create">>}

\* assignRoles
Assigns(name) ==
    CASE name = "owner" -> {"owner", "auditor", "member", "organization-admin", "organization-member",
                            "template-admin", "user-admin"}
      [] name = "user-admin" -> {"member", "organization-member"}
      [] name = "organization-admin" -> {"organization-admin", "organization-member"}
      [] OTHER -> {}

\* CanAssignRole: an organization's role counts in that organization only.
CanAssignRole(roles, role) ==
    \E r \in roles : /\ r[2] # NoOrg => r[2] = role[2]
                     /\ role[1] \in Assigns(r[1])

\* ChangeRoleSet
Added(from, to) == to \ from
Removed(from, to) == from \ to

----------------------------------------------------------------------------
(* The policy.                                                             *)

Grants(perms, action, type) == \E p \in perms : p[1] \in {type, "*"} /\ p[2] \in {action, "*"}

SiteAllow(s, action, type) == Grants(UNION {Site(r) : r \in s.roles}, action, type)
OrgAllow(s, action, type, o) == Grants(UNION {Org(r) : r \in {q \in s.roles : q[2] = o}}, action, type)
UserAllow(s, action, type) == Grants(UNION {User(r) : r \in s.roles}, action, type)
ScopeAllow(s, action, type) == Grants(Scope(s.scope), action, type)
OrgMembers(s) == {r[2] : r \in s.roles} \ {NoOrg}

\* The actions an access list gives an id.
ACL(list, id) == IF id \in DOMAIN list THEN list[id] ELSE {}

\* allow: the roles or the lists allow it, and the scope does not forbid it.
Authorize(s, action, o) ==
    LET orgMem == o.org \in OrgMembers(s)
        role == \/ SiteAllow(s, action, o.type)
                \/ orgMem /\ OrgAllow(s, action, o.type, o.org)
                \/ /\ o.org = NoOrg \/ orgMem
                   /\ o.owner # NoOwner /\ o.owner = s.id
                   /\ UserAllow(s, action, o.type)
        acl == \/ {action, "*"} \cap ACL(o.userACL, s.id) # {}
               \/ orgMem /\ \E g \in s.groups \cup {o.org} : {action, "*"} \cap ACL(o.groupACL, g) # {}
    IN  (role \/ acl) /\ ScopeAllow(s, action, o.type)

----------------------------------------------------------------------------
(* A list: the policy is evaluated without the object but for its type,    *)
(* which leaves queries over owner, org_owner and the access lists; every  *)
(* query is a set of terms, all of which must hold.                        *)

Eq(col, v) == [op |-> "eq", col |-> col, arg |-> {v}, id |-> ""]
Neq(col, v) == [op |-> "neq", col |-> col, arg |-> {v}, id |-> ""]
In(col, vs) == [op |-> "member", col |-> col, arg |-> vs, id |-> ""]
Listed(col, action, id) == [op |-> "listed", col |-> col, arg |-> {action}, id |-> id]

\* The key of an access list that is the object's organization.
OfOrg == "input.object.org_owner"

\* External: rego's partial evaluation, as newPartialAuthorizer asks for it.
Partial(s, action, type) ==
    LET inOrg == {Neq("org_owner", NoOrg), In("org_owner", OrgMembers(s))}
        owned == {Neq("owner", NoOwner), Eq("owner", s.id)}
        any == {action, "*"}
    IN  IF ~ScopeAllow(s, action, type) THEN {}
        ELSE IF SiteAllow(s, action, type) THEN {{}}
        ELSE {{Eq("org_owner", o)} : o \in {p \in OrgMembers(s) : OrgAllow(s, action, type, p)}}
             \cup (IF UserAllow(s, action, type) THEN {inOrg \cup owned, {Eq("org_owner", NoOrg)} \cup owned} ELSE {})
             \cup {{Listed("acl_user_list", a, s.id)} : a \in any}
             \cup {inOrg \cup {Listed("acl_group_list", a, g)} : a \in any, g \in s.groups \cup {OfOrg}}

\* Mutant of TemplateConverter: the access list of groups is left out.
UserACLConverter == {"org_owner", "acl_user_list"}

\* The columns a converter has; a term over any other is false (alwaysFalse), negated or not.
TemplateConverter == {"org_owner", "acl_group_list", "acl_user_list"}
NoACLConverter == {"org_owner", "owner"}

\* convertCall: a term as SQL over a row.  An id that is missing from a list gives NULL, which
\* selects nothing.
ConvertCall(cols, term, row) ==
    /\ term.col \in cols
    /\ CASE term.op = "eq" -> row[term.col] \in term.arg
         [] term.op = "neq" -> row[term.col] \notin term.arg
         [] term.op = "member" -> row[term.col] \in term.arg
         [] term.op = "listed" ->
              term.arg \subseteq ACL(row[term.col], IF term.id = OfOrg THEN row["org_owner"] ELSE term.id)

\* ConvertRegoAst: no query selects nothing, an empty one everything.
ConvertRegoAst(cols, queries, row) == \E q \in queries : \A t \in q : ConvertCall(cols, t, row)

\* The row of an object, as the tables have it.
Row(o) == [org_owner |-> o.org, owner |-> o.owner, acl_user_list |-> o.userACL, acl_group_list |-> o.groupACL]

\* CompileToSQL, for the query of templates or of workspaces.
Selected(s, action, o) ==
    ConvertRegoAst(IF o.type = "template" THEN TemplateConverter ELSE NoACLConverter, Partial(s, action, o.type), Row(o))
=============================================================================
