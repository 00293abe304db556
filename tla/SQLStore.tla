---------------------------- MODULE SQLStore ----------------------------
(***************************************************************************)
(* The statements queries.sql.go is made of, on tables that are sets of    *)
(* rows.  A statement that would break a constraint of the schema changes  *)
(* nothing and returns the violation.  Columns a statement only carries (a *)
(* hash, a token, a description) are 0 when a row is inserted and 1 once   *)
(* they have been rewritten.                                               *)
(***************************************************************************)
EXTENDS DBRows, Integers, FiniteSetsExt

VARIABLES db,      \* the tables
          answer   \* what the last statement returned

Reply(op, res) == answer' = [op |-> op, res |-> res]

Fails(op, err) == db' = db /\ Reply(op, err)

\* INSERT ... RETURNING *; taken: a unique key is in use, known: the rows it
\* refers to are there.
Insert(op, t, row, taken, known) ==
    IF taken THEN Fails(op, DuplicateKey)
    ELSE IF ~known THEN Fails(op, ForeignKey)
    ELSE db' = [db EXCEPT ![t] = @ \cup {row}] /\ Reply(op, row)

\* A table after an UPDATE, unless a unique index refuses it.
Write(op, t, table, Unique(_), res) ==
    IF Unique(table) THEN db' = [db EXCEPT ![t] = table] /\ Reply(op, res)
    ELSE Fails(op, DuplicateKey)

\* UPDATE ... RETURNING * ("one"): no row is sql.ErrNoRows.
UpdateOne(op, t, Matches(_), New(_), Unique(_)) ==
    LET rows == {r \in db[t] : Matches(r)}
    IN  IF rows = {} THEN Fails(op, NoRows)
        ELSE Write(op, t, Rewritten(db[t], Matches, New), Unique, New(CHOOSE r \in rows : TRUE))

\* UPDATE without a result ("exec"): no row is no error.
UpdateExec(op, t, Matches(_), New(_), Unique(_)) ==
    Write(op, t, Rewritten(db[t], Matches, New), Unique, Done)

DeleteExec(op, t, Matches(_)) ==
    db' = [db EXCEPT ![t] = {r \in @ : ~Matches(r)}] /\ Reply(op, Done)

\* A table without an index an UPDATE could break.
NoIndex(table) == TRUE

HasID(t, id) == \E r \in db[t] : r.id = id

ByID(t, id) == One({r \in db[t] : r.id = id})

(***************************************************************************)
(* What Postgres does for the statements of queries.sql.go on users, their *)
(* login links, API keys and git credentials, with the unique indexes and  *)
(* foreign keys of the schema.                                             *)
(***************************************************************************)

\* ---- users ----

GetUserByID(id) == ByID("users", id)

GetUsersByIDs(ids) == {u \in db.users : u.id \in ids}

GetUserByEmailOrUsername(email, username, deleted) ==
    One({u \in db.users : /\ \/ LowerOf[u.username] = LowerOf[username]
                             \/ LowerOf[u.email] = LowerOf[email]
                          /\ u.deleted = deleted})

GetUserCount == Cardinality({u \in db.users : ~u.deleted})

GetActiveUserCount ==
    Cardinality({u \in db.users : u.status = "active" /\ ~u.deleted})

\* The filters the count and the page share: an empty filter lets every row
\* pass, and "'member' != ANY(roles)" is true as soon as one role is another.
Filtered(q) ==
    {u \in db.users :
        /\ u.deleted = q.deleted
        /\ q.search # "" => \/ q.search \in PartsOf[LowerOf[u.email]]
                            \/ q.search \in PartsOf[LowerOf[u.username]]
        /\ q.status # {} => u.status \in q.status
        /\ (q.roles # {} /\ \E r \in q.roles : r # "member") => u.roles \cap q.roles # {}}

GetFilteredUserCount(q) == Cardinality(Filtered(q))

\* ORDER BY (created_at, id).
UserBefore(a, b) == \/ a.created_at < b.created_at
                    \/ a.created_at = b.created_at /\ a.id < b.id

\* The cursor is the row of after_id, whatever filters it would pass; without
\* such a row the comparison is with NULL and no row passes.  0 is uuid.Nil.
GetUsers(q) ==
    {u \in Filtered(q) :
        q.after_id # 0 => \E c \in db.users : c.id = q.after_id /\ UserBefore(c, u)}

\* users_email_lower_idx and users_username_lower_idx, among rows not deleted.
UsersUnique(table) ==
    \A u, w \in table : (u.id # w.id /\ ~u.deleted /\ ~w.deleted) =>
        LowerOf[u.email] # LowerOf[w.email] /\ LowerOf[u.username] # LowerOf[w.username]

InsertUser(id, email, username, roles, at) ==
    LET row == [id |-> id, email |-> email, username |-> username, password |-> 0,
                created_at |-> at, status |-> "active", roles |-> roles,
                avatar |-> 0, deleted |-> FALSE, last_seen_at |-> 0]
    IN  /\ ~HasID("users", id)
        /\ Insert("InsertUser", "users", row, ~UsersUnique(db.users \cup {row}), TRUE)

UpdateUser(op, id, New(_)) == UpdateOne(op, "users", LAMBDA u : u.id = id, New, UsersUnique)

ExecUser(op, id, New(_)) == UpdateExec(op, "users", LAMBDA u : u.id = id, New, UsersUnique)

UpdateUserProfile(id, email, username) ==
    UpdateUser("UpdateUserProfile", id,
               LAMBDA u : [u EXCEPT !.email = email, !.username = username, !.avatar = 1])

UpdateUserRoles(id, roles) ==
    UpdateUser("UpdateUserRoles", id, LAMBDA u : [u EXCEPT !.roles = roles])

UpdateUserStatus(id, status) ==
    UpdateUser("UpdateUserStatus", id, LAMBDA u : [u EXCEPT !.status = status])

UpdateUserLastSeenAt(id, at) ==
    UpdateUser("UpdateUserLastSeenAt", id, LAMBDA u : [u EXCEPT !.last_seen_at = at])

UpdateUserHashedPassword(id) ==
    ExecUser("UpdateUserHashedPassword", id, LAMBDA u : [u EXCEPT !.password = 1])

UpdateUserDeletedByID(id, deleted) ==
    ExecUser("UpdateUserDeletedByID", id, LAMBDA u : [u EXCEPT !.deleted = deleted])

\* ---- user_links ----

LinkOf(user, type) == {l \in db.user_links : l.user = user /\ l.type = type}

GetUserLinkByLinkedID(linked) == One({l \in db.user_links : l.linked_id = linked})

GetUserLinkByUserIDLoginType(user, type) == One(LinkOf(user, type))

InsertUserLink(user, type, linked) ==
    Insert("InsertUserLink", "user_links",
           [user |-> user, type |-> type, linked_id |-> linked, tokens |-> 0],
           LinkOf(user, type) # {}, HasID("users", user))

UpdateLink(op, user, type, New(_)) ==
    UpdateOne(op, "user_links", LAMBDA l : l.user = user /\ l.type = type, New, NoIndex)

UpdateUserLinkedID(user, type, linked) ==
    UpdateLink("UpdateUserLinkedID", user, type, LAMBDA l : [l EXCEPT !.linked_id = linked])

UpdateUserLink(user, type) ==
    UpdateLink("UpdateUserLink", user, type, LAMBDA l : [l EXCEPT !.tokens = 1])

\* ---- api_keys ----

GetAPIKeyByID(id) == ByID("api_keys", id)

GetAPIKeysLastUsedAfter(t) == {k \in db.api_keys : k.last_used > t}

GetAPIKeysByLoginType(type) == {k \in db.api_keys : k.type = type}

\* A lifetime of 0 is stored as a day.
InsertAPIKey(id, user, type, lifetime, at) ==
    LET row == [id |-> id, user |-> user, type |-> type, last_used |-> at,
                lifetime |-> IF lifetime = 0 THEN 86400 ELSE lifetime, address |-> 0]
    IN  Insert("InsertAPIKey", "api_keys", row, HasID("api_keys", id), HasID("users", user))

UpdateAPIKeyByID(id, at) ==
    UpdateExec("UpdateAPIKeyByID", "api_keys", LAMBDA k : k.id = id,
               LAMBDA k : [k EXCEPT !.last_used = at, !.address = 1], NoIndex)

DeleteAPIKeyByID(id) == DeleteExec("DeleteAPIKeyByID", "api_keys", LAMBDA k : k.id = id)

DeleteAPIKeysByUserID(user) ==
    DeleteExec("DeleteAPIKeysByUserID", "api_keys", LAMBDA k : k.user = user)

\* ---- gitsshkeys and git_auth_links ----

GetGitSSHKey(user) == One({k \in db.gitsshkeys : k.user = user})

InsertGitSSHKey(user) ==
    Insert("InsertGitSSHKey", "gitsshkeys", [user |-> user, keys |-> 0],
           GetGitSSHKey(user) # {NoRows}, HasID("users", user))

UpdateGitSSHKey(user) ==
    UpdateOne("UpdateGitSSHKey", "gitsshkeys", LAMBDA k : k.user = user,
              LAMBDA k : [k EXCEPT !.keys = 1], NoIndex)

DeleteGitSSHKey(user) == DeleteExec("DeleteGitSSHKey", "gitsshkeys", LAMBDA k : k.user = user)

GetGitAuthLink(provider, user) ==
    One({l \in db.git_auth_links : l.provider = provider /\ l.user = user})

\* git_auth_links refers to no other table.
InsertGitAuthLink(provider, user) ==
    Insert("InsertGitAuthLink", "git_auth_links",
           [provider |-> provider, user |-> user, tokens |-> 0],
           GetGitAuthLink(provider, user) # {NoRows}, TRUE)

UpdateGitAuthLink(provider, user) ==
    UpdateExec("UpdateGitAuthLink", "git_auth_links",
               LAMBDA l : l.provider = provider /\ l.user = user,
               LAMBDA l : [l EXCEPT !.tokens = 1], NoIndex)

AccountInit == /\ db = [t \in {"users", "user_links", "api_keys", "gitsshkeys", "git_auth_links"} |-> {}]
               /\ answer = [op |-> "none", res |-> Done]

UserStep ==
    \E u \in Users :
       \/ \E e \in Emails, n \in Usernames :
             \/ \E rs \in SUBSET Roles, at \in Times : InsertUser(u, e, n, rs, at)
             \/ UpdateUserProfile(u, e, n)
       \/ \E rs \in SUBSET Roles : UpdateUserRoles(u, rs)
       \/ \E s \in {"active", "suspended"} : UpdateUserStatus(u, s)
       \/ \E at \in Times : UpdateUserLastSeenAt(u, at)
       \/ UpdateUserHashedPassword(u)
       \/ \E d \in BOOLEAN : UpdateUserDeletedByID(u, d)

CredentialStep ==
    \E u \in Users :
       \/ \E t \in LoginTypes :
             \/ \E l \in LinkedIDs : InsertUserLink(u, t, l) \/ UpdateUserLinkedID(u, t, l)
             \/ UpdateUserLink(u, t)
             \/ InsertGitAuthLink(t, u) \/ UpdateGitAuthLink(t, u)
       \/ \E k \in Keys, t \in LoginTypes, life \in {0, 1}, at \in Times :
             InsertAPIKey(k, u, t, life, at)
       \/ DeleteAPIKeysByUserID(u)
       \/ InsertGitSSHKey(u) \/ UpdateGitSSHKey(u) \/ DeleteGitSSHKey(u)

KeyStep == \E k \in Keys : DeleteAPIKeyByID(k) \/ \E at \in Times : UpdateAPIKeyByID(k, at)

AccountNext == UserStep \/ CredentialStep \/ KeyStep


(***************************************************************************)
(* What Postgres does for the statements of queries.sql.go on              *)
(* organizations, their members, groups and the members of groups, and for *)
(* the query that collects a user's roles.  Organizations and groups share *)
(* one set of ids: the group of all users of an organization has its id.   *)
(***************************************************************************)

\* ---- organizations and organization_members ----

GetOrganizations == db.organizations

GetOrganizationByID(id) == ByID("organizations", id)

GetOrganizationByName(name) ==
    One({o \in db.organizations : LowerOf[o.name] = LowerOf[name]})

OrgsOf(user) == {m.org : m \in {x \in db.organization_members : x.user = user}}

\* "id = (SELECT ...)": more than one membership is an error.
GetOrganizationsByUserID(user) ==
    IF Cardinality(OrgsOf(user)) > 1 THEN "more than one row"
    ELSE {o \in db.organizations : o.id \in OrgsOf(user)}

InsertOrganization(id, name) ==
    /\ ~HasID("organizations", id)
    /\ Insert("InsertOrganization", "organizations", [id |-> id, name |-> name],
              GetOrganizationByName(name) # {NoRows}, TRUE)

GetOrganizationMemberByUserID(org, user) ==
    One({m \in db.organization_members : m.org = org /\ m.user = user})

GetOrganizationMembershipsByUserID(user) ==
    {m \in db.organization_members : m.user = user}

\* GROUP BY user_id: a user without a membership has no group, hence no row.
GetOrganizationIDsByMemberIDs(ids) ==
    {[user |-> u, orgs |-> OrgsOf(u)] : u \in {v \in ids : OrgsOf(v) # {}}}

InsertOrganizationMember(org, user, roles) ==
    Insert("InsertOrganizationMember", "organization_members",
           [org |-> org, user |-> user, roles |-> roles],
           GetOrganizationMemberByUserID(org, user) # {NoRows}, HasID("organizations", org))

UpdateMemberRoles(org, user, roles) ==
    UpdateOne("UpdateMemberRoles", "organization_members",
              LAMBDA m : m.org = org /\ m.user = user,
              LAMBDA m : [m EXCEPT !.roles = roles], NoIndex)

GetAllOrganizationMembers(org) ==
    {u \in db.users : \E m \in db.organization_members : m.org = org /\ m.user = u.id}

\* ---- groups and group_members ----

GetGroupByID(id) == ByID("groups", id)

GetGroupByOrgAndName(org, name) == One({g \in db.groups : g.org = org /\ g.name = name})

GetGroupsByOrganizationID(org) == {g \in db.groups : g.org = org /\ g.id # org}

GetGroupMembers(group) ==
    {u \in db.users : /\ [user |-> u.id, group |-> group] \in db.group_members
                      /\ u.status = "active" /\ ~u.deleted}

GetUserGroups(user) == {g \in db.groups : [user |-> user, group |-> g.id] \in db.group_members}

\* groups_name_organization_id_key.
GroupsUnique(table) ==
    \A g, h \in table : g.id # h.id => g.org # h.org \/ g.name # h.name

InsertGroup(id, org, name, allowance) ==
    LET row == [id |-> id, org |-> org, name |-> name, allowance |-> allowance]
    IN  /\ ~HasID("groups", id)
        /\ Insert("InsertGroup", "groups", row,
                  ~GroupsUnique(db.groups \cup {row}), HasID("organizations", org))

\* The organization's id is the group's.
InsertAllUsersGroup(org) ==
    LET row == [id |-> org, org |-> org, name |-> "Everyone", allowance |-> 0]
    IN  Insert("InsertAllUsersGroup", "groups", row,
               HasID("groups", org) \/ ~GroupsUnique(db.groups \cup {row}),
               HasID("organizations", org))

UpdateGroupByID(id, name, allowance) ==
    UpdateOne("UpdateGroupByID", "groups", LAMBDA g : g.id = id,
              LAMBDA g : [g EXCEPT !.name = name, !.allowance = allowance], GroupsUnique)

\* The memberships go with the group: ON DELETE CASCADE.
DeleteGroupByID(id) ==
    /\ db' = [db EXCEPT !.groups = {g \in @ : g.id # id},
                        !.group_members = {m \in @ : m.group # id}]
    /\ Reply("DeleteGroupByID", Done)

InsertGroupMember(user, group) ==
    LET row == [user |-> user, group |-> group]
    IN  IF row \in db.group_members THEN Fails("InsertGroupMember", DuplicateKey)
        ELSE IF ~HasID("groups", group) THEN Fails("InsertGroupMember", ForeignKey)
        ELSE db' = [db EXCEPT !.group_members = @ \cup {row}] /\ Reply("InsertGroupMember", Done)

\* WHERE user_id = $1: the user leaves every group.
DeleteGroupMember(user) ==
    DeleteExec("DeleteGroupMember", "group_members", LAMBDA m : m.user = user)

\* ---- what authorization and quota read ----

GetAuthorizationUserRoles(user) ==
    One({[username |-> u.username, status |-> u.status,
          roles |-> {<<r>> : r \in u.roles} \cup {<<"member">>}
                      \cup UNION {{<<r>> : r \in m.roles} \cup {<<"organization-member", m.org>>} :
                                     m \in {x \in db.organization_members : x.user = user}},
          groups |-> {m.group : m \in {x \in db.group_members : x.user = user}}] :
         u \in {x \in db.users : x.id = user}})

GetQuotaAllowanceForUser(user) ==
    MapThenSumSet(LAMBDA g : g.allowance,
                  {g \in db.groups : [user |-> user, group |-> g.id] \in db.group_members})

\* The users are there; organizations and groups come and go.
SomeUsers == {[id |-> u, username |-> u, status |-> IF u = 1 THEN "active" ELSE "suspended",
               roles |-> IF u = 1 THEN Roles ELSE {}, deleted |-> FALSE] : u \in Users}

GroupInit == /\ db = [users |-> SomeUsers, organizations |-> {}, organization_members |-> {},
                      groups |-> {}, group_members |-> {}]
             /\ answer = [op |-> "none", res |-> Done]

OrgStep ==
    \E o \in Orgs :
       \/ \E n \in Names : InsertOrganization(o, n)
       \/ \E u \in Users, rs \in SUBSET Roles :
             InsertOrganizationMember(o, u, rs) \/ UpdateMemberRoles(o, u, rs)
       \/ InsertAllUsersGroup(o)

GroupStep ==
    \/ \E g \in Groups, n \in Names, a \in Allowances :
          (\E o \in Orgs : InsertGroup(g, o, n, a)) \/ UpdateGroupByID(g, n, a)
    \/ \E g \in Groups : DeleteGroupByID(g) \/ \E u \in Users : InsertGroupMember(u, g)
    \/ \E u \in Users : DeleteGroupMember(u)

GroupNext == OrgStep \/ GroupStep


(***************************************************************************)
(* What Postgres does for the statements of queries.sql.go on files,       *)
(* templates and their versions, parameter schemas and values, provisioner *)
(* daemons and agent statistics.                                           *)
(***************************************************************************)

NoTemplate == 0      \* a version that belongs to no template yet (NULL)

\* ---- files ----

GetFileByID(id) == ByID("files", id)

GetFileByHashAndCreator(hash, by) == One({f \in db.files : f.hash = hash /\ f.by = by})

InsertFile(id, hash, by) ==
    /\ ~HasID("files", id)
    /\ Insert("InsertFile", "files", [id |-> id, hash |-> hash, by |-> by],
              GetFileByHashAndCreator(hash, by) # {NoRows}, TRUE)

\* ---- templates ----

TemplateBefore(a, b) == \/ RankOf[a.name] < RankOf[b.name]
                        \/ a.name = b.name /\ a.id < b.id

GetTemplateByID(id) == ByID("templates", id)

GetTemplates == db.templates

\* An empty filter lets every row pass; 0 is uuid.Nil.
GetTemplatesWithFilter(q) ==
    {t \in db.templates : /\ t.deleted = q.deleted
                          /\ q.org # 0 => t.org = q.org
                          /\ q.name # "" => LowerOf[t.name] = LowerOf[q.name]
                          /\ q.ids # {} => t.id \in q.ids}

GetTemplateByOrganizationAndName(org, name, deleted) ==
    One({t \in db.templates : t.org = org /\ t.deleted = deleted
                              /\ LowerOf[t.name] = LowerOf[name]})

\* templates_organization_id_name_idx, among templates not deleted.
TemplatesUnique(table) ==
    \A t, w \in table : (t.id # w.id /\ t.org = w.org /\ ~t.deleted /\ ~w.deleted)
                           => LowerOf[t.name] # LowerOf[w.name]

InsertTemplate(id, org, name, version, cancel) ==
    LET row == [id |-> id, org |-> org, name |-> name, active |-> version, acl |-> 0,
                meta |-> 0, cancel |-> cancel, deleted |-> FALSE]
    IN  /\ ~HasID("templates", id)
        /\ Insert("InsertTemplate", "templates", row, ~TemplatesUnique(db.templates \cup {row}), TRUE)

UpdateTemplateMetaByID(id, name, cancel) ==
    UpdateOne("UpdateTemplateMetaByID", "templates", LAMBDA t : t.id = id,
              LAMBDA t : [t EXCEPT !.name = name, !.meta = 1, !.cancel = cancel], TemplatesUnique)

UpdateTemplateACLByID(id) ==
    UpdateOne("UpdateTemplateACLByID", "templates", LAMBDA t : t.id = id,
              LAMBDA t : [t EXCEPT !.acl = 1], TemplatesUnique)

UpdateTemplateActiveVersionByID(id, version) ==
    UpdateExec("UpdateTemplateActiveVersionByID", "templates", LAMBDA t : t.id = id,
               LAMBDA t : [t EXCEPT !.active = version], TemplatesUnique)

UpdateTemplateDeletedByID(id, deleted) ==
    UpdateExec("UpdateTemplateDeletedByID", "templates", LAMBDA t : t.id = id,
               LAMBDA t : [t EXCEPT !.deleted = deleted], TemplatesUnique)

\* ---- template_versions ----

VersionBefore(a, b) == \/ a.created_at < b.created_at
                       \/ a.created_at = b.created_at /\ a.id < b.id

GetTemplateVersionByID(id) == ByID("template_versions", id)

GetTemplateVersionsByIDs(ids) == {v \in db.template_versions : v.id \in ids}

GetTemplateVersionByJobID(job) == One({v \in db.template_versions : v.job = job})

GetTemplateVersionsCreatedAfter(t) == {v \in db.template_versions : v.created_at > t}

GetTemplateVersionByTemplateIDAndName(template, name) ==
    One({v \in db.template_versions : v.template = template /\ v.name = name})

GetTemplateVersionByOrganizationAndName(org, name) ==
    One({v \in db.template_versions : v.org = org /\ v.name = name})

\* The rows behind the cursor's row, which may be of any template.
GetTemplateVersionsByTemplateID(template, after) ==
    {v \in db.template_versions :
        /\ v.template = template
        /\ after # 0 => \E c \in db.template_versions : c.id = after /\ VersionBefore(c, v)}

\* template_versions_template_id_name_key: NULLs never collide.
VersionsUnique(table) ==
    \A v, w \in table : (v.id # w.id /\ v.template = w.template /\ v.template # NoTemplate)
                           => v.name # w.name

TemplateKnown(t) == t = NoTemplate \/ HasID("templates", t)

InsertTemplateVersion(id, template, org, name, job, at) ==
    LET row == [id |-> id, template |-> template, org |-> org, name |-> name, job |-> job,
                created_at |-> at, readme |-> 0]
    IN  /\ ~HasID("template_versions", id)
        /\ Insert("InsertTemplateVersion", "template_versions", row,
                  ~VersionsUnique(db.template_versions \cup {row}), TemplateKnown(template))

UpdateTemplateVersionByID(id, template) ==
    IF HasID("template_versions", id) /\ ~TemplateKnown(template)
    THEN Fails("UpdateTemplateVersionByID", ForeignKey)
    ELSE UpdateExec("UpdateTemplateVersionByID", "template_versions", LAMBDA v : v.id = id,
                    LAMBDA v : [v EXCEPT !.template = template], VersionsUnique)

UpdateTemplateVersionDescriptionByJobID(job) ==
    UpdateExec("UpdateTemplateVersionDescriptionByJobID", "template_versions",
               LAMBDA v : v.job = job, LAMBDA v : [v EXCEPT !.readme = 1], VersionsUnique)

\* ---- parameter_schemas and parameter_values ----

GetParameterSchemasByJobID(job) == {s \in db.parameter_schemas : s.job = job}

SchemaBefore(a, b) == a.index < b.index

GetParameterSchemasCreatedAfter(t) == {s \in db.parameter_schemas : s.created_at > t}

InsertParameterSchema(id, job, name, index, at) ==
    /\ ~HasID("parameter_schemas", id)
    /\ Insert("InsertParameterSchema", "parameter_schemas",
              [id |-> id, job |-> job, name |-> name, index |-> index, created_at |-> at],
              \E s \in db.parameter_schemas : s.job = job /\ s.name = name, TRUE)

ParameterValue(id) == ByID("parameter_values", id)

ParameterValues(q) ==
    {v \in db.parameter_values : /\ q.scopes # {} => v.scope \in q.scopes
                                 /\ q.scope_ids # {} => v.scope_id \in q.scope_ids
                                 /\ q.ids # {} => v.id \in q.ids
                                 /\ q.names # {} => v.name \in q.names}

GetParameterValueByScopeAndName(scope, scopeID, name) ==
    One({v \in db.parameter_values : v.scope = scope /\ v.scope_id = scopeID /\ v.name = name})

\* parameter_values_scope_id_name_key leaves the scope out.
InsertParameterValue(id, scope, scopeID, name) ==
    /\ ~HasID("parameter_values", id)
    /\ Insert("InsertParameterValue", "parameter_values",
              [id |-> id, scope |-> scope, scope_id |-> scopeID, name |-> name],
              \E v \in db.parameter_values : v.scope_id = scopeID /\ v.name = name, TRUE)

DeleteParameterValueByID(id) ==
    DeleteExec("DeleteParameterValueByID", "parameter_values", LAMBDA v : v.id = id)

\* ---- provisioner_daemons and agent_stats ----

GetProvisionerDaemonByID(id) == ByID("provisioner_daemons", id)

GetProvisionerDaemons == db.provisioner_daemons

InsertProvisionerDaemon(id, name) ==
    /\ ~HasID("provisioner_daemons", id)
    /\ Insert("InsertProvisionerDaemon", "provisioner_daemons",
              [id |-> id, name |-> name, provisioners |-> 0],
              \E d \in db.provisioner_daemons : d.name = name, TRUE)

UpdateProvisionerDaemonByID(id) ==
    UpdateExec("UpdateProvisionerDaemonByID", "provisioner_daemons", LAMBDA d : d.id = id,
               LAMBDA d : [d EXCEPT !.provisioners = 1], NoIndex)

\* Any of the rows nobody is later than.
GetLatestAgentStat(agent) ==
    LET of == {s \in db.agent_stats : s.agent = agent}
    IN  One({s \in of : \A r \in of : r.created_at <= s.created_at})

\* Two instants of the model are a day; a date has one row for each user.
DateOf(t) == t \div 2

GetTemplateDAUs(template) ==
    {[date |-> DateOf(s.created_at), user |-> s.user] :
        s \in {x \in db.agent_stats : x.template = template}}

InsertAgentStat(id, agent, user, template, at) ==
    /\ ~HasID("agent_stats", id)
    /\ Insert("InsertAgentStat", "agent_stats",
              [id |-> id, agent |-> agent, user |-> user, template |-> template, created_at |-> at],
              FALSE, TRUE)

DeleteOldAgentStats ==
    DeleteExec("DeleteOldAgentStats", "agent_stats", LAMBDA s : s.created_at < MonthAgo)

TemplateInit == /\ db = [t \in {"files", "templates", "template_versions", "parameter_schemas",
                                "parameter_values", "provisioner_daemons", "agent_stats"} |-> {}]
                /\ answer = [op |-> "none", res |-> Done]

TemplateStep ==
    \E id \in IDs :
       \/ \E n \in Names, c \in BOOLEAN :
             (\E o \in Orgs : InsertTemplate(id, o, n, 1, c)) \/ UpdateTemplateMetaByID(id, n, c)
       \/ UpdateTemplateACLByID(id)
       \/ UpdateTemplateActiveVersionByID(id, 2)
       \/ \E d \in BOOLEAN : UpdateTemplateDeletedByID(id, d)

VersionStep ==
    \E id \in IDs :
       \/ \E t \in IDs \cup {NoTemplate}, o \in Orgs, n \in Names, j \in Jobs, at \in Days :
             InsertTemplateVersion(id, t, o, n, j, at)
       \/ \E t \in IDs : UpdateTemplateVersionByID(id, t)
       \/ \E j \in Jobs : UpdateTemplateVersionDescriptionByJobID(j)

ParameterStep ==
    \E id \in IDs, n \in Names :
       \/ \E j \in Jobs, i \in {0, 1}, at \in Days : InsertParameterSchema(id, j, n, i, at)
       \/ \E s \in Scopes, sid \in IDs : InsertParameterValue(id, s, sid, n)
       \/ DeleteParameterValueByID(id)

OtherStep ==
    \E id \in IDs :
       \/ \E h \in Names, by \in Creators : InsertFile(id, h, by)
       \/ \E n \in Names : InsertProvisionerDaemon(id, n)
       \/ UpdateProvisionerDaemonByID(id)
       \/ \E a \in IDs, u \in Creators, t \in IDs, at \in Days : InsertAgentStat(id, a, u, t, at)
       \/ DeleteOldAgentStats

TemplateNext == TemplateStep \/ VersionStep \/ ParameterStep \/ OtherStep


(***************************************************************************)
(* What Postgres does for the statements of queries.sql.go on provisioner  *)
(* jobs and their logs, workspaces and workspace builds.  A time is a      *)
(* small number and 0 is NULL; no filter is "", 0 or {}.                   *)
(***************************************************************************)

Transitions == {"start", "stop", "delete"}

\* ---- provisioner_jobs ----

GetProvisionerJobByID(id) == ByID("provisioner_jobs", id)

GetProvisionerJobsByIDs(ids) == {j \in db.provisioner_jobs : j.id \in ids}

GetProvisionerJobsCreatedAfter(t) == {j \in db.provisioner_jobs : j.created_at > t}

InsertProvisionerJob(id, at, type, tags) ==
    /\ ~HasID("provisioner_jobs", id)
    /\ Insert("InsertProvisionerJob", "provisioner_jobs",
              [id |-> id, created_at |-> at, updated_at |-> at, started |-> 0, canceled |-> 0,
               completed |-> 0, error |-> FALSE, type |-> type, tags |-> tags, worker |-> 0],
              FALSE, TRUE)

Waiting(types, tags) ==
    {j \in db.provisioner_jobs : /\ j.started = 0 /\ j.canceled = 0 /\ j.completed = 0
                                 /\ j.type \in types
                                 /\ j.tags \subseteq tags}

\* The oldest job that waits; which one, among jobs of one instant, is open.
AcquireProvisionerJob(worker, types, tags, at) ==
    LET waiting == Waiting(types, tags)
        Acquired(j) == [j EXCEPT !.started = at, !.updated_at = at, !.worker = worker]
    IN  \/ waiting = {} /\ Fails("AcquireProvisionerJob", NoRows)
        \/ \E j \in waiting :
              /\ \A k \in waiting : j.created_at <= k.created_at
              /\ db' = [db EXCEPT !.provisioner_jobs = (@ \ {j}) \cup {Acquired(j)}]
              /\ Reply("AcquireProvisionerJob", Acquired(j))

UpdateProvisionerJobByID(id, at) ==
    UpdateExec("UpdateProvisionerJobByID", "provisioner_jobs", LAMBDA j : j.id = id,
               LAMBDA j : [j EXCEPT !.updated_at = at], NoIndex)

UpdateProvisionerJobWithCancelByID(id, canceled, completed) ==
    UpdateExec("UpdateProvisionerJobWithCancelByID", "provisioner_jobs", LAMBDA j : j.id = id,
               LAMBDA j : [j EXCEPT !.canceled = canceled, !.completed = completed], NoIndex)

UpdateProvisionerJobWithCompleteByID(id, at, error) ==
    UpdateExec("UpdateProvisionerJobWithCompleteByID", "provisioner_jobs", LAMBDA j : j.id = id,
               LAMBDA j : [j EXCEPT !.updated_at = at, !.completed = at, !.error = error], NoIndex)

\* ---- provisioner_job_logs ----

\* "OR", so that a bound of 0 still lets every line pass.
GetProvisionerLogsByIDBetween(job, after, before) ==
    {l \in db.provisioner_job_logs : l.job = job /\ (l.id > after \/ l.id < before)}

LogBefore(a, b) == a.id < b.id

\* The ids come from a sequence that only moves forward.
InsertProvisionerJobLogs(job, n) ==
    \E first \in 1..MaxLogID :
       LET logs == [i \in 1..n |-> [id |-> first + i - 1, job |-> job]]
       IN  /\ \A l \in db.provisioner_job_logs : l.id < first
           /\ HasID("provisioner_jobs", job)
           /\ db' = [db EXCEPT !.provisioner_job_logs = @ \cup ToSet(logs)]
           /\ Reply("InsertProvisionerJobLogs", logs)

\* ---- workspaces ----

GetWorkspaceByID(id) == ByID("workspaces", id)

GetWorkspaceByOwnerIDAndName(owner, name, deleted) ==
    LET rows == {w \in db.workspaces : w.owner = owner /\ w.deleted = deleted
                                       /\ LowerOf[w.name] = LowerOf[name]}
    IN  One({w \in rows : \A r \in rows : r.created_at <= w.created_at})

GetWorkspaceCountByUserID(owner) ==
    Cardinality({w \in db.workspaces : w.owner = owner /\ ~w.deleted})

\* Templates without a workspace are not among the groups.
GetWorkspaceOwnerCountsByTemplateIDs(ids) ==
    LET live == {w \in db.workspaces : ~w.deleted /\ w.template \in ids}
        OwnersOf(t) == {w.owner : w \in {x \in live : x.template = t}}
    IN  {[template |-> t, count |-> Cardinality(OwnersOf(t))] : t \in {w.template : w \in live}}

\* workspaces_owner_id_lower_idx
WorkspacesUnique(table) ==
    \A v, w \in table : (v.id # w.id /\ v.owner = w.owner /\ ~v.deleted /\ ~w.deleted)
                           => LowerOf[v.name] # LowerOf[w.name]

InsertWorkspace(id, owner, template, name, at) ==
    LET row == [id |-> id, owner |-> owner, template |-> template, name |-> name,
                created_at |-> at, deleted |-> FALSE, autostart |-> 0, ttl |-> 0, used |-> 0]
    IN  /\ ~HasID("workspaces", id)
        /\ Insert("InsertWorkspace", "workspaces", row,
                  ~WorkspacesUnique(db.workspaces \cup {row}), TRUE)

UpdateWorkspace(id, name) ==
    UpdateOne("UpdateWorkspace", "workspaces", LAMBDA w : w.id = id /\ ~w.deleted,
              LAMBDA w : [w EXCEPT !.name = name], WorkspacesUnique)

UpdateWorkspaceAutostart(id) ==
    UpdateExec("UpdateWorkspaceAutostart", "workspaces", LAMBDA w : w.id = id,
               LAMBDA w : [w EXCEPT !.autostart = 1], WorkspacesUnique)

UpdateWorkspaceTTL(id) ==
    UpdateExec("UpdateWorkspaceTTL", "workspaces", LAMBDA w : w.id = id,
               LAMBDA w : [w EXCEPT !.ttl = 1], WorkspacesUnique)

UpdateWorkspaceLastUsedAt(id, at) ==
    UpdateExec("UpdateWorkspaceLastUsedAt", "workspaces", LAMBDA w : w.id = id,
               LAMBDA w : [w EXCEPT !.used = at], WorkspacesUnique)

UpdateWorkspaceDeletedByID(id, deleted) ==
    UpdateExec("UpdateWorkspaceDeletedByID", "workspaces", LAMBDA w : w.id = id,
               LAMBDA w : [w EXCEPT !.deleted = deleted], WorkspacesUnique)

\* ---- workspace_builds ----

GetWorkspaceBuildByID(id) == ByID("workspace_builds", id)

GetWorkspaceBuildByJobID(job) == One({b \in db.workspace_builds : b.job = job})

GetWorkspaceBuildByWorkspaceIDAndBuildNumber(w, n) ==
    One({b \in db.workspace_builds : b.workspace = w /\ b.number = n})

GetWorkspaceBuildsCreatedAfter(t) == {b \in db.workspace_builds : b.created_at > t}

BuildsOf(w) == {b \in db.workspace_builds : b.workspace = w}

IsLatest(b) == \A c \in BuildsOf(b.workspace) : c.number <= b.number

GetLatestWorkspaceBuildByWorkspaceID(w) == One({b \in BuildsOf(w) : IsLatest(b)})

GetLatestWorkspaceBuilds == {b \in db.workspace_builds : IsLatest(b)}

GetLatestWorkspaceBuildsByWorkspaceIDs(ids) ==
    {b \in GetLatestWorkspaceBuilds : b.workspace \in ids}

BuildBefore(a, b) == a.number > b.number

\* The builds of a page: those with a number above the cursor's.
GetWorkspaceBuildsByWorkspaceID(w, since, after) ==
    {b \in BuildsOf(w) :
        /\ b.created_at > since
        /\ after # 0 => \E c \in db.workspace_builds : c.id = after /\ b.number > c.number}

\* workspace_builds_job_id_key, workspace_builds_workspace_id_build_number_key
BuildsUnique(table) ==
    \A b, c \in table : b.id # c.id => /\ b.job # c.job
                                       /\ <<b.workspace, b.number>> # <<c.workspace, c.number>>

InsertWorkspaceBuild(id, w, version, n, transition, job, at) ==
    LET row == [id |-> id, workspace |-> w, version |-> version, number |-> n,
                transition |-> transition, job |-> job, created_at |-> at, state |-> 0, cost |-> 0]
    IN  /\ ~HasID("workspace_builds", id)
        /\ Insert("InsertWorkspaceBuild", "workspace_builds", row,
                  ~BuildsUnique(db.workspace_builds \cup {row}),
                  HasID("workspaces", w) /\ HasID("provisioner_jobs", job))

UpdateWorkspaceBuildByID(id) ==
    UpdateOne("UpdateWorkspaceBuildByID", "workspace_builds", LAMBDA b : b.id = id,
              LAMBDA b : [b EXCEPT !.state = 1], BuildsUnique)

UpdateWorkspaceBuildCostByID(id, cost) ==
    UpdateOne("UpdateWorkspaceBuildCostByID", "workspace_builds", LAMBDA b : b.id = id,
              LAMBDA b : [b EXCEPT !.cost = cost], BuildsUnique)

\* ---- joins ----

\* The sums the user's workspaces may cost: the last build of each counts, any
\* of those created last.
GetQuotaConsumedForUser(owner) ==
    LET live == {w \in db.workspaces : w.owner = owner /\ ~w.deleted /\ BuildsOf(w.id) # {}}
        Newest(w) == {b \in BuildsOf(w.id) : \A c \in BuildsOf(w.id) : c.created_at <= b.created_at}
        picks == {p \in [live -> db.workspace_builds] : \A w \in live : p[w] \in Newest(w)}
    IN  {MapThenSumSet(LAMBDA w : p[w].cost, live) : p \in picks}

\* PERCENTILE_DISC: the first value with a share of p percent at or below it;
\* -1 where there is none.
Percentile(times, p) ==
    IF times = <<>> THEN -1
    ELSE SortSeq(times, <)[(Len(times) * p + 99) \div 100]

\* The seconds the successful builds of a template took.
BuildTimes(template, transition, since) ==
    {b \in db.workspace_builds :
        /\ TemplateOf[b.version] = template /\ b.transition = transition
        /\ \E j \in db.provisioner_jobs :
              /\ j.id = b.job /\ j.completed # 0 /\ j.started > since /\ j.canceled = 0 /\ ~j.error}

Took(b) == LET j == CHOOSE x \in db.provisioner_jobs : x.id = b.job IN j.completed - j.started

GetTemplateAverageBuildTime(template, transition, since, p) ==
    LET builds == SetToSeq(BuildTimes(template, transition, since))
    IN  Percentile([i \in DOMAIN builds |-> Took(builds[i])], p)

Statuses == {"pending", "starting", "running", "stopping", "stopped", "failed", "canceling",
             "canceled", "deleted", "deleting"}

\* latest_build in the state a filter asks for; a workspace without a build has
\* NULL in every column of it.
HasStatus(w, status) ==
    LET latest == {b \in BuildsOf(w.id) : IsLatest(b)}
        OfJob(P(_, _)) == \E b \in latest, j \in db.provisioner_jobs : j.id = b.job /\ P(b, j)
        Moving(t) == OfJob(LAMBDA b, j : j.started # 0 /\ j.canceled = 0 /\ j.completed = 0
                                         /\ b.transition = t)
        Ended(t) == OfJob(LAMBDA b, j : j.completed # 0 /\ j.canceled = 0 /\ ~j.error
                                        /\ b.transition = t)
    IN  CASE status = "pending"   -> ~OfJob(LAMBDA b, j : j.started # 0)
          [] status = "starting"  -> Moving("start")
          [] status = "running"   -> Ended("start")
          [] status = "stopping"  -> Moving("stop")
          [] status = "stopped"   -> Ended("stop")
          [] status = "failed"    -> OfJob(LAMBDA b, j : j.error /\ (j.canceled # 0 \/ j.completed # 0))
          [] status = "canceling" -> OfJob(LAMBDA b, j : j.canceled # 0 /\ j.completed = 0)
          [] status = "canceled"  -> OfJob(LAMBDA b, j : j.canceled # 0 /\ j.completed # 0)
          [] status = "deleted"   -> OfJob(LAMBDA b, j : j.started # 0 /\ j.canceled = 0
                                               /\ j.completed # 0 /\ b.transition = "delete")
          [] status = "deleting"  -> Ended("delete")

GetWorkspaces(q) ==
    {w \in db.workspaces : /\ w.deleted = q.deleted
                           /\ q.status # "" => HasStatus(w, q.status)
                           /\ q.owner # 0 => w.owner = q.owner
                           /\ q.owner_name # "" => LowerOf[NameOf[w.owner]] = LowerOf[q.owner_name]
                           /\ q.title # "" => LowerOf[TitleOf[w.template]] = LowerOf[q.title]
                           /\ q.templates # {} => w.template \in q.templates
                           /\ q.part # "" => w.name \in HeldBy[q.part]}

WorkspaceBefore(v, w) == v.used > w.used

\* Mutant of ConvertProvisionerJobStatus: completion is looked at before
\* cancelation.
ConvertCompletedFirst(j) ==
    IF j.completed # 0 THEN IF j.error THEN "failed" ELSE "succeeded"
    ELSE IF j.canceled # 0 THEN "canceling"
    ELSE IF j.started = 0 THEN "pending"
    ELSE IF j.updated_at \in OldTimes THEN "failed" ELSE "running"

\* What the API calls the state of a build, which the filter is to find.
ConvertProvisionerJobStatus(j) ==
    IF j.canceled # 0
    THEN IF j.completed = 0 THEN "canceling" ELSE IF j.error THEN "failed" ELSE "canceled"
    ELSE IF j.started = 0 THEN "pending"
    ELSE IF j.completed # 0 THEN IF j.error THEN "failed" ELSE "succeeded"
    ELSE IF j.updated_at \in OldTimes THEN "failed" ELSE "running"

ConvertWorkspaceStatus(status, transition) ==
    CASE status = "running" -> [start |-> "starting", stop |-> "stopping", delete |-> "deleting"][transition]
      [] status = "succeeded" -> [start |-> "running", stop |-> "stopped", delete |-> "deleted"][transition]
      [] OTHER -> status

BuildInit == /\ \/ db = [provisioner_jobs |-> {}, provisioner_job_logs |-> {}, workspaces |-> {},
                         workspace_builds |-> {}]
                \/ db = [provisioner_jobs |-> ToSet(SeededJobs), provisioner_job_logs |-> {},
                         workspaces |-> ToSet(SeededWorkspaces), workspace_builds |-> {}]
             /\ answer = [op |-> "none", res |-> Done]

JobQueued ==
    \/ \E id \in IDs, at \in Times, type \in Types, tags \in SUBSET Tags :
          InsertProvisionerJob(id, at, type, tags)
    \/ \E job \in IDs, n \in {1, 2} : InsertProvisionerJobLogs(job, n)

JobProgress ==
    \/ \E worker \in {1, 2}, types \in SUBSET Types, tags \in SUBSET Tags, at \in Times :
          AcquireProvisionerJob(worker, types, tags, at)
    \/ \E id \in IDs, at \in Times :
          \/ UpdateProvisionerJobByID(id, at)
          \/ \E completed \in {0, at} : UpdateProvisionerJobWithCancelByID(id, at, completed)
          \/ \E error \in BOOLEAN : UpdateProvisionerJobWithCompleteByID(id, at, error)

WorkspaceStep ==
    \E id \in IDs :
       \/ \E owner \in Owners, t \in Templates, n \in Names, at \in Times :
             InsertWorkspace(id, owner, t, n, at)
       \/ \E n \in Names : UpdateWorkspace(id, n)
       \/ UpdateWorkspaceAutostart(id)
       \/ UpdateWorkspaceTTL(id)
       \/ \E at \in Times : UpdateWorkspaceLastUsedAt(id, at)
       \/ \E d \in BOOLEAN : UpdateWorkspaceDeletedByID(id, d)

BuildStep ==
    \E id \in IDs :
       \/ \E w \in IDs, v \in DOMAIN TemplateOf, n \in {1, 2}, t \in Transitions, job \in IDs,
             at \in Times : InsertWorkspaceBuild(id, w, v, n, t, job, at)
       \/ UpdateWorkspaceBuildByID(id)
       \/ \E cost \in Costs : UpdateWorkspaceBuildCostByID(id, cost)

BuildNext == JobQueued \/ JobProgress \/ WorkspaceStep \/ BuildStep

Shown(w) == {ConvertWorkspaceStatus(ConvertProvisionerJobStatus(j), b.transition) :
                <<b, j>> \in {<<b, j>> \in GetLatestWorkspaceBuilds \X db.provisioner_jobs :
                                 b.workspace = w.id /\ b.job = j.id}}

\* A job whose worker fell silent; the filters do not know it has failed.
Silent(w) == \E b \in GetLatestWorkspaceBuilds, j \in db.provisioner_jobs :
                b.workspace = w.id /\ b.job = j.id /\ j.completed = 0 /\ j.updated_at \in OldTimes

\* A workspace is in the list filtered by the status that it is shown with,
\* unless its worker fell silent.  "deleting" is left out: DeletingFound.
StatusFilterFinds ==
    \A w \in db.workspaces : \A status \in Shown(w) \ {"deleting"} :
       ~Silent(w) => HasStatus(w, status)

\* The same for a workspace that is being deleted: the filters "deleted" and
\* "deleting" of getWorkspaces are not what the API shows under these names.
DeletingFound ==
    \A w \in db.workspaces : "deleting" \in Shown(w) /\ ~Silent(w) => HasStatus(w, "deleting")

(***************************************************************************)
(* What Postgres does for the statements of queries.sql.go on the          *)
(* resources a job provisioned, their metadata, the agents in them and the *)
(* agents' apps.  The workspaces and builds they belong to stay as they    *)
(* are (the statements on builds change those).  0 is a NULL time.        *)
(***************************************************************************)

\* ---- workspace_resources and workspace_resource_metadata ----

GetWorkspaceResourceByID(id) == ByID("workspace_resources", id)

GetWorkspaceResourcesByJobIDs(jobs) == {r \in db.workspace_resources : r.job \in jobs}

GetWorkspaceResourcesByJobID(job) == GetWorkspaceResourcesByJobIDs({job})

GetWorkspaceResourcesCreatedAfter(t) == {r \in db.workspace_resources : r.created_at > t}

InsertWorkspaceResource(id, job, at, typed) ==
    /\ ~HasID("workspace_resources", id)
    /\ Insert("InsertWorkspaceResource", "workspace_resources",
              [id |-> id, job |-> job, created_at |-> at, instance_type |-> typed], FALSE, TRUE)

GetWorkspaceResourceMetadataByResourceIDs(ids) ==
    {m \in db.workspace_resource_metadata : m.resource \in ids}

GetWorkspaceResourceMetadataByResourceID(id) == GetWorkspaceResourceMetadataByResourceIDs({id})

GetWorkspaceResourceMetadataCreatedAfter(t) ==
    GetWorkspaceResourceMetadataByResourceIDs({r.id : r \in GetWorkspaceResourcesCreatedAfter(t)})

InsertWorkspaceResourceMetadata(resource, key) ==
    LET row == [resource |-> resource, key |-> key]
    IN  Insert("InsertWorkspaceResourceMetadata", "workspace_resource_metadata", row,
               row \in db.workspace_resource_metadata, HasID("workspace_resources", resource))

\* ---- workspace_agents ----

\* ORDER BY created_at DESC: any of the newest.
Newest(agents) == One({a \in agents : \A b \in agents : b.created_at <= a.created_at})

GetWorkspaceAgentByID(id) == ByID("workspace_agents", id)

GetWorkspaceAgentByAuthToken(token) == Newest({a \in db.workspace_agents : a.token = token})

GetWorkspaceAgentByInstanceID(instance) ==
    Newest({a \in db.workspace_agents : a.instance = instance})

GetWorkspaceAgentsByResourceIDs(ids) == {a \in db.workspace_agents : a.resource \in ids}

GetWorkspaceAgentsCreatedAfter(t) == {a \in db.workspace_agents : a.created_at > t}

InsertWorkspaceAgent(id, resource, token, instance, at, timeout) ==
    /\ ~HasID("workspace_agents", id)
    /\ Insert("InsertWorkspaceAgent", "workspace_agents",
              [id |-> id, resource |-> resource, token |-> token, instance |-> instance,
               created_at |-> at, timeout |-> timeout, first |-> 0, last |-> 0, disconnected |-> 0,
               version |-> 0],
              FALSE, HasID("workspace_resources", resource))

UpdateWorkspaceAgentConnectionByID(id, first, last, disconnected) ==
    UpdateExec("UpdateWorkspaceAgentConnectionByID", "workspace_agents", LAMBDA a : a.id = id,
               LAMBDA a : [a EXCEPT !.first = first, !.last = last, !.disconnected = disconnected],
               NoIndex)

UpdateWorkspaceAgentVersionByID(id) ==
    UpdateExec("UpdateWorkspaceAgentVersionByID", "workspace_agents", LAMBDA a : a.id = id,
               LAMBDA a : [a EXCEPT !.version = 1], NoIndex)

\* ---- workspace_apps ----

AppBefore(a, b) == a.slug < b.slug

GetWorkspaceAppsByAgentIDs(agents) == {a \in db.workspace_apps : a.agent \in agents}

GetWorkspaceAppsByAgentID(agent) == GetWorkspaceAppsByAgentIDs({agent})

GetWorkspaceAppsCreatedAfter(t) == {a \in db.workspace_apps : a.created_at > t}

GetWorkspaceAppByAgentIDAndSlug(agent, slug) ==
    One({a \in db.workspace_apps : a.agent = agent /\ a.slug = slug})

InsertWorkspaceApp(id, agent, slug, at) ==
    /\ ~HasID("workspace_apps", id)
    /\ Insert("InsertWorkspaceApp", "workspace_apps",
              [id |-> id, agent |-> agent, slug |-> slug, created_at |-> at, health |-> 0],
              GetWorkspaceAppByAgentIDAndSlug(agent, slug) # {NoRows},
              HasID("workspace_agents", agent))

UpdateWorkspaceAppHealthByID(id) ==
    UpdateExec("UpdateWorkspaceAppHealthByID", "workspace_apps", LAMBDA a : a.id = id,
               LAMBDA a : [a EXCEPT !.health = 1], NoIndex)

\* ---- joins ----

GetWorkspaceByAgentID(agent) ==
    One({w \in db.workspaces :
            \E a \in db.workspace_agents, r \in db.workspace_resources, b \in db.workspace_builds :
               a.id = agent /\ r.id = a.resource /\ b.job = r.job /\ w.id = b.workspace})

\* The status of an agent, as the filter has_agent reads it.
AgentStatus(a) ==
    IF a.first = 0
    THEN IF a.timeout > 0 /\ Now - a.created_at > a.timeout THEN "timeout" ELSE "connecting"
    ELSE IF a.disconnected > a.last THEN "disconnected"
    ELSE IF Now - a.last > Inactive THEN "disconnected" ELSE "connected"

\* Workspaces whose last build starts them and has an agent of that status.
HasAgent(status) ==
    {w \in db.workspaces :
        \E b \in db.workspace_builds, r \in db.workspace_resources, a \in db.workspace_agents :
           /\ b.workspace = w.id
           /\ \A c \in db.workspace_builds : c.workspace = w.id => c.number <= b.number
           /\ b.transition = "start" /\ r.job = b.job /\ a.resource = r.id
           /\ AgentStatus(a) = status}

ResourceInit == /\ db = [workspace_resources |-> {}, workspace_resource_metadata |-> {},
                         workspace_agents |-> {}, workspace_apps |-> {},
                         workspace_builds |-> ToSet(SeededBuilds), workspaces |-> ToSet(BuiltWorkspaces)]
                /\ answer = [op |-> "none", res |-> Done]

\* Connection times an agent's session writes: none, or a first, a last and
\* possibly a disconnect since.
Connections == {<<0, 0, 0>>} \cup {c \in Times \X Times \X ({0} \cup Times) : c[1] <= c[2]}

ResourceNext == \E id \in IDs :
           \/ \E job \in Jobs, at \in Times : \E typed \in {0, 1} : InsertWorkspaceResource(id, job, at, typed)
           \/ \E key \in Slugs : InsertWorkspaceResourceMetadata(id, key)
           \/ \E r \in IDs, token \in Tokens, inst \in Tokens, at \in Times, timeout \in {0, 1} :
                 InsertWorkspaceAgent(id, r, token, inst, at, timeout)
           \/ \E c \in Connections : UpdateWorkspaceAgentConnectionByID(id, c[1], c[2], c[3])
           \/ UpdateWorkspaceAgentVersionByID(id)
           \/ \E agent \in IDs, slug \in Slugs, at \in Times : InsertWorkspaceApp(id, agent, slug, at)
           \/ UpdateWorkspaceAppHealthByID(id)


(***************************************************************************)
(* What Postgres does for the statements of queries.sql.go on the          *)
(* deployment as a whole: site configuration, licenses, replicas and the   *)
(* audit log.                                                              *)
(***************************************************************************)

\* ---- site_configs ----

GetConfig(key) == One({c.value : c \in {x \in db.site_configs : x.key = key}})

GetDeploymentID == GetConfig("deployment_id")

GetDERPMeshKey == GetConfig("derp_mesh_key")

GetLastUpdateCheck == GetConfig("last_update_check")

\* The second INSERT of a key fails, so that the first value stays.
InsertConfig(op, key, value) ==
    IF \E c \in db.site_configs : c.key = key THEN Fails(op, DuplicateKey)
    ELSE db' = [db EXCEPT !.site_configs = @ \cup {[key |-> key, value |-> value]}] /\ Reply(op, Done)

InsertDeploymentID(value) == InsertConfig("InsertDeploymentID", "deployment_id", value)

InsertDERPMeshKey(value) == InsertConfig("InsertDERPMeshKey", "derp_mesh_key", value)

InsertOrUpdateLastUpdateCheck(value) ==
    /\ db' = [db EXCEPT !.site_configs = {c \in @ : c.key # "last_update_check"}
                                         \cup {[key |-> "last_update_check", value |-> value]}]
    /\ Reply("InsertOrUpdateLastUpdateCheck", Done)

\* ---- licenses ----

LicenseBefore(a, b) == a.id < b.id

GetLicenses == db.licenses

GetUnexpiredLicenses == {l \in db.licenses : l.exp > Now}

\* The id comes from a sequence, so that no id is given twice.
InsertLicense(jwt, exp) ==
    \E last \in db.licenses_id_seq :
       LET row == [id |-> last + 1, jwt |-> jwt, exp |-> exp]
       IN  IF \E l \in db.licenses : l.jwt = jwt THEN Fails("InsertLicense", DuplicateKey)
           ELSE /\ db' = [db EXCEPT !.licenses = @ \cup {row}, !.licenses_id_seq = {last + 1}]
                /\ Reply("InsertLicense", row)

DeleteLicense(id) ==
    IF HasID("licenses", id)
    THEN /\ db' = [db EXCEPT !.licenses = {l \in @ : l.id # id}]
         /\ Reply("DeleteLicense", id)
    ELSE Fails("DeleteLicense", NoRows)

\* ---- replicas ----

GetReplicasUpdatedAfter(t) == {r \in db.replicas : r.updated_at > t /\ ~r.stopped}

InsertReplica(id, at) ==
    /\ ~HasID("replicas", id)
    /\ Insert("InsertReplica", "replicas", [id |-> id, updated_at |-> at, stopped |-> FALSE],
              FALSE, TRUE)

UpdateReplica(id, at, stopped) ==
    UpdateOne("UpdateReplica", "replicas", LAMBDA r : r.id = id,
              LAMBDA r : [r EXCEPT !.updated_at = at, !.stopped = stopped], NoIndex)

DeleteReplicasUpdatedBefore(t) ==
    DeleteExec("DeleteReplicasUpdatedBefore", "replicas", LAMBDA r : r.updated_at < t)

\* ---- audit_logs ----

AuditLogBefore(a, b) == a.time > b.time

\* The filters, an empty one letting every row pass; kind stands for the three
\* on resource_type, resource_id and action, username for the one on email too.
GetAuditLogsOffset(q) ==
    {l \in db.audit_logs : /\ q.kind # "" => l.kind = q.kind
                           /\ q.target # "" => l.target = q.target
                           /\ q.username # "" => NameOf[l.user] = q.username
                           /\ q.from # 0 => l.time >= q.from
                           /\ q.to # 0 => l.time <= q.to}

InsertAuditLog(id, time, user, kind, target) ==
    /\ ~HasID("audit_logs", id)
    /\ Insert("InsertAuditLog", "audit_logs",
              [id |-> id, time |-> time, user |-> user, kind |-> kind, target |-> target],
              FALSE, TRUE)

SiteInit == /\ db = [site_configs |-> {}, licenses |-> {}, licenses_id_seq |-> {0}, replicas |-> {},
                     audit_logs |-> {}]
            /\ answer = [op |-> "none", res |-> Done]

ConfigStep == \E v \in Values : \/ InsertDeploymentID(v) \/ InsertDERPMeshKey(v)
                                \/ InsertOrUpdateLastUpdateCheck(v)

LicenseStep == \/ \E v \in Values, exp \in Expiries : InsertLicense(v, exp)
               \/ \E id \in IDs : DeleteLicense(id)

ReplicaStep ==
    \/ \E id \in IDs, t \in Times : InsertReplica(id, t) \/ \E s \in BOOLEAN : UpdateReplica(id, t, s)
    \/ \E t \in Times : DeleteReplicasUpdatedBefore(t)

AuditStep == \E id \in IDs, t \in Times, u \in Users, k \in Kinds, target \in Values :
                InsertAuditLog(id, t, u, k, target)

SiteNext == ConfigStep \/ LicenseStep \/ ReplicaStep \/ AuditStep


=============================================================================
