---------------------------- MODULE FakeStore ----------------------------
(***************************************************************************)
(* How databasefake stores rows: a slice per table, an append for every    *)
(* insert, a walk from the front for everything else.  It checks few of    *)
(* the constraints of the schema.  Divergences names the differences from  *)
(* Postgres that calls may run into; a call that would run into another    *)
(* one is left out, so that what remains must agree.                       *)
(***************************************************************************)
EXTENDS DBRows, Integers, FiniteSetsExt, Folds, TLC

CONSTANTS MaxCalls,      \* calls of a behaviour
          Divergences

VARIABLES slices, answer, calls,
          focus   \* the tables a behaviour is about: no statement reads two groups

\* The rows the slices hold, as Postgres would hold them.
Tables == [t \in DOMAIN slices |-> ToSet(slices[t])]

SQL == INSTANCE SQLStore WITH db <- Tables

Reply(op, res) == answer' = [op |-> op, res |-> res]

Refuse(op, err) == UNCHANGED slices /\ Reply(op, err)

Differs(name) == name \in Divergences

\* Appended without a look at the constraints the row may break.
Add(op, t, row, fits) ==
    /\ fits \/ Differs("constraints")
    /\ slices' = [slices EXCEPT ![t] = Append(@, row)]
    /\ Reply(op, row)

First(t, Matches(_)) == FirstOf(slices[t], Matches)

\* The first match is rewritten and returned.
ChangeOne(op, t, Matches(_), New(_), Unique(_)) ==
    LET changed == FirstChanged(slices[t], Matches, New)
        row == First(t, Matches)
    IN  /\ Unique(ToSet(changed)) \/ Differs("constraints")
        /\ slices' = [slices EXCEPT ![t] = changed]
        /\ Reply(op, IF row = NoRows THEN NoRows ELSE New(row))

\* The first match is rewritten; a missing row is reported, which Postgres
\* does not do.
ChangeExec(op, t, Matches(_), New(_), Unique(_)) ==
    LET changed == FirstChanged(slices[t], Matches, New)
        row == First(t, Matches)
    IN  /\ Unique(ToSet(changed)) \/ Differs("constraints")
        /\ row # NoRows \/ Differs("no rows")
        /\ slices' = [slices EXCEPT ![t] = changed]
        /\ Reply(op, IF row = NoRows THEN NoRows ELSE Done)

RemoveExec(op, t, Matches(_)) ==
    LET row == First(t, Matches)
    IN  /\ row # NoRows \/ Differs("no rows")
        /\ slices' = [slices EXCEPT ![t] = SwapRemoved(@, Matches)]
        /\ Reply(op, IF row = NoRows THEN NoRows ELSE Done)

\* One round of "for i, row := range slice" that removes in place: the range
\* keeps the old length and reads the shifted array, the slice behind it gets
\* shorter, and slicing behind the new length panics.
RemoveRound(i, st, Matches(_)) ==
    IF st.panic \/ ~Matches(st.array[i]) THEN st
    ELSE IF i > st.len THEN [st EXCEPT !.panic = TRUE]
    ELSE [array |-> [j \in DOMAIN st.array |->
                        IF j >= i /\ j < st.len THEN st.array[j + 1] ELSE st.array[j]],
          len |-> st.len - 1, panic |-> FALSE]

RemovedInPlace(slice, Matches(_)) ==
    FoldLeft(LAMBDA st, i : RemoveRound(i, st, Matches),
             [array |-> slice, len |-> Len(slice), panic |-> FALSE],
             [i \in 1..Len(slice) |-> i])

\* A list that an empty slice turns into sql.ErrNoRows; Postgres returns an
\* empty list.
OrNoRows(slice) == IF slice = <<>> THEN NoRows ELSE slice

\* Such a list has the rows of the query, where there are any.
SameOrNoRows(answered, rows) ==
    IF rows = {} THEN answered = NoRows ELSE SameRows(answered, rows)

Called == calls < MaxCalls /\ calls' = calls + 1

ID(t, id) == First(t, LAMBDA r : r.id = id)

(***************************************************************************)
(* databasefake on users, their login links, API keys and git credentials: *)
(* the in-memory database.Store every unit test of coderd runs against.    *)
(* It has to answer as Postgres does (SQLStore), or the tests show         *)
(* nothing.  It differs from Postgres in the ways Divergences names; a     *)
(* call that meets one of them is made only where the constant lists it.   *)
(***************************************************************************)

Known(u) == First("users", LAMBDA r : r.id = u) # NoRows

\* ---- users ----

GetUserByID(id) == First("users", LAMBDA u : u.id = id)

GetUsersByIDs(ids) == SelectSeq(slices.users, LAMBDA u : u.id \in ids)

\* Mutant of GetUserByEmailOrUsername: the case of the user name counts.
GetUserByExactName(email, username, deleted) ==
    First("users", LAMBDA u : /\ LowerOf[u.email] = LowerOf[email] \/ u.username = username
                              /\ u.deleted = deleted)

GetUserByEmailOrUsername(email, username, deleted) ==
    First("users", LAMBDA u : /\ \/ LowerOf[u.email] = LowerOf[email]
                                 \/ LowerOf[u.username] = LowerOf[username]
                              /\ u.deleted = deleted)

GetUserCount == Len(SelectSeq(slices.users, LAMBDA u : ~u.deleted))

GetActiveUserCount ==
    Len(SelectSeq(slices.users, LAMBDA u : u.status = "active" /\ ~u.deleted))

\* The filters after the cursor; deleted rows are only dropped when deleted
\* ones are asked for, and a filter with "member" in it is not applied.
UserPasses(u, q) ==
    /\ q.deleted => u.deleted
    /\ q.search # "" => \/ q.search \in PartsOf[LowerOf[u.email]]
                        \/ q.search \in PartsOf[LowerOf[u.username]]
    /\ q.status # {} => u.status \in q.status
    /\ (q.roles # {} /\ "member" \notin q.roles) => u.roles \cap q.roles # {}

GetAuthorizedUserCount(q) == Len(SelectSeq(slices.users, LAMBDA u : UserPasses(u, q)))

\* Sorted by creation, cut behind the cursor, filtered; the count is taken
\* before the page is.
GetUsers(q, offset, limit) ==
    LET sorted == SortSeq(slices.users, SQL!UserBefore)
        listed == IF q.deleted THEN SelectSeq(sorted, LAMBDA u : u.deleted) ELSE sorted
        after  == IF q.after_id = 0 THEN listed
                  ELSE IF \E i \in DOMAIN listed : listed[i].id = q.after_id
                  THEN SelectSeq(listed, LAMBDA u : \E i, j \in DOMAIN listed :
                           i < j /\ listed[i].id = q.after_id /\ listed[j] = u)
                  ELSE <<>>
        kept   == SelectSeq(after, LAMBDA u : UserPasses(u, q))
        page   == Paged(kept, offset, limit)
    IN  [rows |-> page, count |-> IF page = <<>> THEN 0 ELSE Len(kept)]

\* Only the user name is looked at, and its case counts.
InsertUser(id, email, username, roles, at) ==
    LET row == [id |-> id, email |-> email, username |-> username, password |-> 0,
                created_at |-> at, status |-> "active", roles |-> roles,
                avatar |-> 0, deleted |-> FALSE, last_seen_at |-> 0]
    IN  /\ ~Known(id)
        /\ IF First("users", LAMBDA u : u.username = username /\ ~u.deleted) # NoRows
           THEN Refuse("InsertUser", DuplicateKey)
           ELSE Add("InsertUser", "users", row, SQL!UsersUnique(Tables.users \cup {row}))

\* No uniqueness is checked on an update.
UpdateUser(op, id, New(_)) == ChangeOne(op, "users", LAMBDA u : u.id = id, New, SQL!UsersUnique)

ExecUser(op, id, New(_)) == ChangeExec(op, "users", LAMBDA u : u.id = id, New, SQL!UsersUnique)

UpdateUserProfile(id, email, username) ==
    UpdateUser("UpdateUserProfile", id,
               LAMBDA u : [u EXCEPT !.email = email, !.username = username, !.avatar = 1])

UpdateUserRoles(id, roles) ==
    UpdateUser("UpdateUserRoles", id, LAMBDA u : [u EXCEPT !.roles = roles])

UpdateUserStatus(id, status) ==
    UpdateUser("UpdateUserStatus", id, LAMBDA u : [u EXCEPT !.status = status])

UpdateUserLastSeenAt(id, at) ==
    UpdateUser("UpdateUserLastSeenAt", id, LAMBDA u : [u EXCEPT !.last_seen_at = at])

UpdateUserHashedPassword(id) ==
    ExecUser("UpdateUserHashedPassword", id, LAMBDA u : [u EXCEPT !.password = 1])

UpdateUserDeletedByID(id, deleted) ==
    ExecUser("UpdateUserDeletedByID", id, LAMBDA u : [u EXCEPT !.deleted = deleted])

\* ---- user links: neither key nor foreign key is checked ----

GetUserLinkByLinkedID(linked) ==
    First("user_links", LAMBDA l : l.linked_id = linked)

GetUserLinkByUserIDLoginType(user, type) ==
    First("user_links", LAMBDA l : l.user = user /\ l.type = type)

InsertUserLink(user, type, linked) ==
    Add("InsertUserLink", "user_links",
        [user |-> user, type |-> type, linked_id |-> linked, tokens |-> 0],
        Known(user) /\ GetUserLinkByUserIDLoginType(user, type) = NoRows)

UpdateLink(op, user, type, New(_)) ==
    ChangeOne(op, "user_links", LAMBDA l : l.user = user /\ l.type = type, New, SQL!NoIndex)

UpdateUserLinkedID(user, type, linked) ==
    UpdateLink("UpdateUserLinkedID", user, type, LAMBDA l : [l EXCEPT !.linked_id = linked])

UpdateUserLink(user, type) ==
    UpdateLink("UpdateUserLink", user, type, LAMBDA l : [l EXCEPT !.tokens = 1])

\* ---- API keys ----

GetAPIKeyByID(id) == First("api_keys", LAMBDA k : k.id = id)

GetAPIKeysLastUsedAfter(t) == SelectSeq(slices.api_keys, LAMBDA k : k.last_used > t)

GetAPIKeysByLoginType(type) == SelectSeq(slices.api_keys, LAMBDA k : k.type = type)

InsertAPIKey(id, user, type, lifetime, at) ==
    LET row == [id |-> id, user |-> user, type |-> type, last_used |-> at,
                lifetime |-> IF lifetime = 0 THEN 86400 ELSE lifetime, address |-> 0]
    IN  Add("InsertAPIKey", "api_keys", row, Known(user) /\ GetAPIKeyByID(id) = NoRows)

UpdateAPIKeyByID(id, at) ==
    ChangeExec("UpdateAPIKeyByID", "api_keys", LAMBDA k : k.id = id,
               LAMBDA k : [k EXCEPT !.last_used = at, !.address = 1], SQL!NoIndex)

DeleteAPIKeyByID(id) == RemoveExec("DeleteAPIKeyByID", "api_keys", LAMBDA k : k.id = id)

\* From the back to the front, so that a removal moves no key still to be seen.
DeleteAPIKeysByUserID(user) ==
    /\ slices' = [slices EXCEPT !.api_keys = Without(@, LAMBDA k : k.user = user)]
    /\ Reply("DeleteAPIKeysByUserID", Done)

\* ---- git SSH keys and git provider links ----

GetGitSSHKey(user) == First("gitsshkeys", LAMBDA k : k.user = user)

InsertGitSSHKey(user) ==
    Add("InsertGitSSHKey", "gitsshkeys", [user |-> user, keys |-> 0],
        Known(user) /\ GetGitSSHKey(user) = NoRows)

UpdateGitSSHKey(user) ==
    ChangeOne("UpdateGitSSHKey", "gitsshkeys", LAMBDA k : k.user = user,
              LAMBDA k : [k EXCEPT !.keys = 1], SQL!NoIndex)

DeleteGitSSHKey(user) == RemoveExec("DeleteGitSSHKey", "gitsshkeys", LAMBDA k : k.user = user)

GetGitAuthLink(provider, user) ==
    First("git_auth_links", LAMBDA l : l.user = user /\ l.provider = provider)

InsertGitAuthLink(provider, user) ==
    Add("InsertGitAuthLink", "git_auth_links",
        [provider |-> provider, user |-> user, tokens |-> 0],
        GetGitAuthLink(provider, user) = NoRows)

\* The loop goes on behind a match: every one is rewritten.
UpdateGitAuthLink(provider, user) ==
    /\ slices' = [slices EXCEPT !.git_auth_links =
           [i \in DOMAIN @ |-> IF @[i].provider = provider /\ @[i].user = user
                               THEN [@[i] EXCEPT !.tokens = 1] ELSE @[i]]]
    /\ Reply("UpdateGitAuthLink", Done)

AccountInit == /\ slices = [t \in {"users", "user_links", "api_keys", "gitsshkeys", "git_auth_links"} |-> <<>>]
               /\ calls = 0
               /\ answer = [op |-> "none", res |-> Done]

UserStep ==
    \E u \in Users :
       \/ \E e \in Emails, n \in Usernames :
             \/ \E rs \in SUBSET Roles, at \in Times : InsertUser(u, e, n, rs, at)
             \/ UpdateUserProfile(u, e, n)
       \/ \E rs \in SUBSET Roles : UpdateUserRoles(u, rs)
       \/ \E s \in {"active", "suspended"} : UpdateUserStatus(u, s)
       \/ \E at \in Times : UpdateUserLastSeenAt(u, at)
       \/ UpdateUserHashedPassword(u)
       \/ \E d \in BOOLEAN : UpdateUserDeletedByID(u, d)

CredentialStep ==
    \E u \in Users :
       \/ \E t \in LoginTypes :
             \/ \E l \in LinkedIDs : InsertUserLink(u, t, l) \/ UpdateUserLinkedID(u, t, l)
             \/ UpdateUserLink(u, t)
             \/ InsertGitAuthLink(t, u) \/ UpdateGitAuthLink(t, u)
       \/ \E k \in Keys, t \in LoginTypes, life \in {0, 1}, at \in Times :
             InsertAPIKey(k, u, t, life, at)
       \/ DeleteAPIKeysByUserID(u)
       \/ InsertGitSSHKey(u) \/ UpdateGitSSHKey(u) \/ DeleteGitSSHKey(u)

KeyStep == \E k \in Keys : DeleteAPIKeyByID(k) \/ \E at \in Times : UpdateAPIKeyByID(k, at)

AccountNext == Called /\ (UserStep \/ CredentialStep \/ KeyStep)

\* What coderd asks of the user list: whether it wants deleted users, a cursor,
\* and one of a search, a state and roles.
Anything == [search |-> "", status |-> {}, roles |-> {}]

Filters ==
    {Anything, [Anything EXCEPT !.status = {"active"}]}
      \cup {[Anything EXCEPT !.search = s] :
                s \in UNION {PartsOf[LowerOf[n]] : n \in Emails \cup Usernames}}
      \cup {[Anything EXCEPT !.roles = rs] : rs \in SUBSET (Roles \cup {"member"})}

Questions == {f @@ [deleted |-> d, after_id |-> a] :
                 f \in Filters, d \in BOOLEAN, a \in {0} \cup Users}

\* A question the two answer alike: the fake lists deleted users to whoever
\* does not ask for them, and takes a role filter with "member" in it to be
\* none at all.
Alike(q) ==
    /\ (~q.deleted /\ \E u \in Tables.users : u.deleted) => Differs("deleted users")
    /\ (q.deleted /\ q.after_id # 0 /\ \E u \in Tables.users : u.id = q.after_id /\ ~u.deleted)
         => Differs("deleted users")
    /\ ("member" \in q.roles /\ q.roles # {"member"}) => Differs("member filter")

\* Lists, counts and single rows of users: in every state the fake gives an
\* answer Postgres could give.
UserQueriesAgree ==
    /\ \A id \in Users : GetUserByID(id) \in SQL!GetUserByID(id)
    /\ \A ids \in SUBSET Users : SameRows(GetUsersByIDs(ids), SQL!GetUsersByIDs(ids))
    /\ \A e \in Emails, n \in Usernames, d \in BOOLEAN :
          GetUserByEmailOrUsername(e, n, d) \in SQL!GetUserByEmailOrUsername(e, n, d)
    /\ GetUserCount = SQL!GetUserCount
    /\ GetActiveUserCount = SQL!GetActiveUserCount
    /\ \A q \in Questions : Alike(q) =>
          /\ q.after_id = 0 => GetAuthorizedUserCount(q) = SQL!GetFilteredUserCount(q)
          /\ LET all == GetUsers(q, 0, 0)
             IN  /\ SortedRows(all.rows, SQL!GetUsers(q), SQL!UserBefore)
                 /\ all.count = Cardinality(SQL!GetUsers(q))
                 /\ \A o, l \in 0..2 : q.status = {"active"} => GetUsers(q, o, l).rows
                        = IF l = 0 THEN SubSeq(all.rows, o + 1, Len(all.rows))
                          ELSE SubSeq(all.rows, o + 1, IF o + l < Len(all.rows) THEN o + l
                                                       ELSE Len(all.rows))

\* The same for links, keys and git credentials.
CredentialQueriesAgree ==
    /\ \A l \in LinkedIDs : GetUserLinkByLinkedID(l) \in SQL!GetUserLinkByLinkedID(l)
    /\ \A u \in Users, t \in LoginTypes :
          /\ GetUserLinkByUserIDLoginType(u, t) \in SQL!GetUserLinkByUserIDLoginType(u, t)
          /\ GetGitAuthLink(t, u) \in SQL!GetGitAuthLink(t, u)
    /\ \A k \in Keys : GetAPIKeyByID(k) \in SQL!GetAPIKeyByID(k)
    /\ \A t \in Times : SameRows(GetAPIKeysLastUsedAfter(t), SQL!GetAPIKeysLastUsedAfter(t))
    /\ \A t \in LoginTypes : SameRows(GetAPIKeysByLoginType(t), SQL!GetAPIKeysByLoginType(t))
    /\ \A u \in Users : GetGitSSHKey(u) \in SQL!GetGitSSHKey(u)

(***************************************************************************)
(* databasefake on organizations, groups and their members, against what   *)
(* Postgres does (SQLStore).  Differs names the calls on which the two     *)
(* are known to part; they are made only where Divergences lists them.     *)
(***************************************************************************)

\* ---- organizations and their members ----

GetOrganizations == OrNoRows(slices.organizations)

GetOrganizationByID(id) == First("organizations", LAMBDA o : o.id = id)

\* The case of the name counts.
GetOrganizationByName(name) == First("organizations", LAMBDA o : o.name = name)

GetOrganizationsByUserID(user) ==
    LET mine == SelectSeq(slices.organization_members, LAMBDA m : m.user = user)
        orgs == FlattenSeq([i \in DOMAIN mine |->
                    SelectSeq(slices.organizations, LAMBDA o : o.id = mine[i].org)])
    IN  OrNoRows(orgs)

InsertOrganization(id, name) ==
    /\ GetOrganizationByID(id) = NoRows
    /\ Add("InsertOrganization", "organizations", [id |-> id, name |-> name],
           SQL!GetOrganizationByName(name) = {NoRows})

GetOrganizationMemberByUserID(org, user) ==
    First("organization_members", LAMBDA m : m.org = org /\ m.user = user)

GetOrganizationMembershipsByUserID(user) ==
    SelectSeq(slices.organization_members, LAMBDA m : m.user = user)

\* A row for every id asked for, whether it has a membership or not.
GetOrganizationIDsByMemberIDs(ids) ==
    IF ids = <<>> THEN NoRows
    ELSE [i \in DOMAIN ids |->
            [user |-> ids[i],
             orgs |-> {m.org : m \in ToSet(GetOrganizationMembershipsByUserID(ids[i]))}]]

InsertOrganizationMember(org, user, roles) ==
    Add("InsertOrganizationMember", "organization_members",
        [org |-> org, user |-> user, roles |-> roles],
        GetOrganizationByID(org) # NoRows /\ GetOrganizationMemberByUserID(org, user) = NoRows)

UpdateMemberRoles(org, user, roles) ==
    ChangeOne("UpdateMemberRoles", "organization_members",
              LAMBDA m : m.org = org /\ m.user = user,
              LAMBDA m : [m EXCEPT !.roles = roles], SQL!NoIndex)

\* For every membership the users with its id.
GetAllOrganizationMembers(org) ==
    LET ms == SelectSeq(slices.organization_members, LAMBDA m : m.org = org)
    IN  FlattenSeq([i \in DOMAIN ms |-> SelectSeq(slices.users, LAMBDA u : u.id = ms[i].user)])

\* ---- groups and their members ----

GetGroupByID(id) == First("groups", LAMBDA g : g.id = id)

GetGroupByOrgAndName(org, name) ==
    First("groups", LAMBDA g : g.org = org /\ g.name = name)

GetGroupsByOrganizationID(org) ==
    SelectSeq(slices.groups, LAMBDA g : g.org = org /\ g.id # org)

GetGroupMembers(group) ==
    LET ms == SelectSeq(slices.group_members, LAMBDA m : m.group = group)
        Shown(i) == SelectSeq(slices.users, LAMBDA u : /\ u.id = ms[i].user
                                                       /\ u.status = "active" /\ ~u.deleted)
    IN  FlattenSeq([i \in DOMAIN ms |-> IF Shown(i) = <<>> THEN <<>> ELSE <<Shown(i)[1]>>])

\* panic("not implemented")
GetUserGroups(user) == Panic

\* The name is checked here, but not when a group is renamed.
AppendGroup(op, row) ==
    IF GetGroupByOrgAndName(row.org, row.name) # NoRows THEN Refuse(op, DuplicateKey)
    ELSE Add(op, "groups", row, GetOrganizationByID(row.org) # NoRows /\ GetGroupByID(row.id) = NoRows)

InsertGroup(id, org, name, allowance) ==
    /\ GetGroupByID(id) = NoRows
    /\ AppendGroup("InsertGroup", [id |-> id, org |-> org, name |-> name, allowance |-> allowance])

InsertAllUsersGroup(org) ==
    AppendGroup("InsertAllUsersGroup",
                [id |-> org, org |-> org, name |-> "Everyone", allowance |-> 0])

UpdateGroupByID(id, name, allowance) ==
    ChangeOne("UpdateGroupByID", "groups", LAMBDA g : g.id = id,
              LAMBDA g : [g EXCEPT !.name = name, !.allowance = allowance], SQL!GroupsUnique)

\* The memberships stay.
DeleteGroupByID(id) ==
    /\ GetGroupByID(id) # NoRows \/ Differs("no rows")
    /\ (\E m \in Tables.group_members : m.group = id) => Differs("cascade")
    /\ slices' = [slices EXCEPT !.groups = Without(@, LAMBDA g : g.id = id)]
    /\ Reply("DeleteGroupByID", IF GetGroupByID(id) = NoRows THEN NoRows ELSE Done)

InsertGroupMember(user, group) ==
    LET row == [user |-> user, group |-> group]
    IN  /\ GetGroupByID(group) # NoRows \/ Differs("constraints")
        /\ IF row \in Tables.group_members THEN Refuse("InsertGroupMember", DuplicateKey)
           ELSE /\ slices' = [slices EXCEPT !.group_members = Append(@, row)]
                /\ Reply("InsertGroupMember", Done)

DeleteGroupMember(user) ==
    LET st == RemovedInPlace(slices.group_members, LAMBDA m : m.user = user)
        memberships == {m \in Tables.group_members : m.user = user}
    IN  /\ Cardinality(memberships) < 2 \/ Differs("two memberships")
        /\ slices' = [slices EXCEPT !.group_members = SubSeq(st.array, 1, st.len)]
        /\ Reply("DeleteGroupMember", IF st.panic THEN Panic ELSE Done)

\* ---- what authorization and quota read ----

GetAuthorizationUserRoles(user) ==
    LET u == First("users", LAMBDA x : x.id = user)
        ms == GetOrganizationMembershipsByUserID(user)
    IN  IF u = NoRows THEN NoRows
        ELSE [username |-> u.username, status |-> u.status,
              roles |-> {<<r>> : r \in u.roles} \cup {<<"member">>}
                          \cup UNION {{<<r>> : r \in m.roles} \cup {<<"organization-member", m.org>>} :
                                         m \in ToSet(ms)},
              groups |-> {m.group : m \in {x \in Tables.group_members : x.user = user}}]

\* The allowance of every group with the id of a membership, one after the other.
GetQuotaAllowanceForUser(user) ==
    FoldLeft(LAMBDA sum, m :
                IF m.user = user
                THEN FoldLeft(LAMBDA s, g : IF g.id = m.group THEN s + g.allowance ELSE s,
                              sum, slices.groups)
                ELSE sum,
             0, slices.group_members)

GroupInit == /\ slices = [users |-> SetToSeq(SQL!SomeUsers), organizations |-> <<>>,
                          organization_members |-> <<>>, groups |-> <<>>, group_members |-> <<>>]
             /\ calls = 0
             /\ answer = [op |-> "none", res |-> Done]

OrgStep ==
    \E o \in Orgs :
       \/ \E n \in Names : InsertOrganization(o, n)
       \/ \E u \in Users, rs \in SUBSET Roles :
             InsertOrganizationMember(o, u, rs) \/ UpdateMemberRoles(o, u, rs)
       \/ InsertAllUsersGroup(o)

GroupStep ==
    \/ \E g \in Groups, n \in Names, a \in Allowances :
          (\E o \in Orgs : InsertGroup(g, o, n, a)) \/ UpdateGroupByID(g, n, a)
    \/ \E g \in Groups : DeleteGroupByID(g) \/ \E u \in Users : InsertGroupMember(u, g)
    \/ \E u \in Users : DeleteGroupMember(u)

GroupNext == Called /\ (OrgStep \/ GroupStep)

\* In every state the fake's answers about organizations and groups, and the
\* roles, groups and allowance it reports for a user, are ones Postgres gives.
GroupQueriesAgree ==
    /\ SameOrNoRows(GetOrganizations, SQL!GetOrganizations)
    /\ \A o \in Orgs :
          /\ GetOrganizationByID(o) \in SQL!GetOrganizationByID(o)
          /\ SameRows(GetAllOrganizationMembers(o), SQL!GetAllOrganizationMembers(o))
          /\ SameRows(GetGroupsByOrganizationID(o), SQL!GetGroupsByOrganizationID(o))
          /\ \A n \in Names : GetGroupByOrgAndName(o, n) \in SQL!GetGroupByOrgAndName(o, n)
          /\ \A u \in Users : GetOrganizationMemberByUserID(o, u)
                                \in SQL!GetOrganizationMemberByUserID(o, u)
    /\ \A n \in Names : \/ GetOrganizationByName(n) \in SQL!GetOrganizationByName(n)
                        \/ n \notin {o.name : o \in Tables.organizations}
    /\ \A g \in Groups \cup Orgs :
          /\ GetGroupByID(g) \in SQL!GetGroupByID(g)
          /\ SameRows(GetGroupMembers(g), SQL!GetGroupMembers(g))
    /\ \A u \in Users \cup {0} :
          /\ SameRows(GetOrganizationMembershipsByUserID(u),
                      SQL!GetOrganizationMembershipsByUserID(u))
          /\ GetAuthorizationUserRoles(u) \in SQL!GetAuthorizationUserRoles(u)
          /\ GetQuotaAllowanceForUser(u) = SQL!GetQuotaAllowanceForUser(u)
          /\ Cardinality(SQL!OrgsOf(u)) = 1 =>
                /\ SameRows(GetOrganizationsByUserID(u), SQL!GetOrganizationsByUserID(u))
                /\ SameRows(GetOrganizationIDsByMemberIDs(<<u>>),
                            SQL!GetOrganizationIDsByMemberIDs({u}))

(***************************************************************************)
(* databasefake on files, templates, versions, parameters, provisioner     *)
(* daemons and agent statistics, against what Postgres does                *)
(* (SQLStore).                                                             *)
(***************************************************************************)

NoTemplate == 0

\* ---- files ----

GetFileByID(id) == ID("files", id)

GetFileByHashAndCreator(hash, by) == First("files", LAMBDA f : f.hash = hash /\ f.by = by)

InsertFile(id, hash, by) ==
    /\ GetFileByID(id) = NoRows
    /\ Add("InsertFile", "files", [id |-> id, hash |-> hash, by |-> by],
           GetFileByHashAndCreator(hash, by) = NoRows)

\* ---- templates ----

GetTemplateByID(id) == ID("templates", id)

GetTemplates == SortSeq(slices.templates, SQL!TemplateBefore)

GetAuthorizedTemplates(q) ==
    OrNoRows(SortSeq(SelectSeq(slices.templates,
        LAMBDA t : /\ t.deleted = q.deleted
                   /\ q.org # 0 => t.org = q.org
                   /\ q.name # "" => LowerOf[t.name] = LowerOf[q.name]
                   /\ q.ids # {} => t.id \in q.ids), SQL!TemplateBefore))

GetTemplateByOrganizationAndName(org, name, deleted) ==
    First("templates", LAMBDA t : t.org = org /\ LowerOf[t.name] = LowerOf[name]
                                  /\ t.deleted = deleted)

\* AllowUserCancelWorkspaceJobs is not taken over.
InsertTemplate(id, org, name, version, cancel) ==
    LET row == [id |-> id, org |-> org, name |-> name, active |-> version, acl |-> 0,
                meta |-> 0, cancel |-> FALSE, deleted |-> FALSE]
    IN  /\ GetTemplateByID(id) = NoRows
        /\ cancel => Differs("cancel flag")
        /\ Add("InsertTemplate", "templates", row, SQL!TemplatesUnique(Tables.templates \cup {row}))

UpdateTemplateMetaByID(id, name, cancel) ==
    /\ cancel => Differs("cancel flag")
    /\ ChangeOne("UpdateTemplateMetaByID", "templates", LAMBDA t : t.id = id,
                 LAMBDA t : [t EXCEPT !.name = name, !.meta = 1], SQL!TemplatesUnique)

UpdateTemplateACLByID(id) ==
    ChangeOne("UpdateTemplateACLByID", "templates", LAMBDA t : t.id = id,
              LAMBDA t : [t EXCEPT !.acl = 1], SQL!TemplatesUnique)

UpdateTemplateActiveVersionByID(id, version) ==
    ChangeExec("UpdateTemplateActiveVersionByID", "templates", LAMBDA t : t.id = id,
               LAMBDA t : [t EXCEPT !.active = version], SQL!TemplatesUnique)

UpdateTemplateDeletedByID(id, deleted) ==
    ChangeExec("UpdateTemplateDeletedByID", "templates", LAMBDA t : t.id = id,
               LAMBDA t : [t EXCEPT !.deleted = deleted], SQL!TemplatesUnique)

\* ---- template versions ----

GetTemplateVersionByID(id) == ID("template_versions", id)

GetTemplateVersionsByIDs(ids) ==
    OrNoRows(SelectSeq(slices.template_versions, LAMBDA v : v.id \in ids))

GetTemplateVersionByJobID(job) == First("template_versions", LAMBDA v : v.job = job)

GetTemplateVersionsCreatedAfter(t) ==
    SelectSeq(slices.template_versions, LAMBDA v : v.created_at > t)

\* The case of the name does not count here; in Postgres it does.
GetTemplateVersionByTemplateIDAndName(template, name) ==
    First("template_versions", LAMBDA v : v.template = template /\ LowerOf[v.name] = LowerOf[name])

GetTemplateVersionByOrganizationAndName(org, name) ==
    First("template_versions", LAMBDA v : v.org = org /\ LowerOf[v.name] = LowerOf[name])

\* The cursor has to be a version of the template.
GetTemplateVersionsByTemplateID(template, after, offset, limit) ==
    LET sorted == SortSeq(SelectSeq(slices.template_versions, LAMBDA v : v.template = template),
                          SQL!VersionBefore)
        at == {i \in DOMAIN sorted : sorted[i].id = after}
        rest == IF after = 0 THEN sorted
                ELSE IF at = {} THEN <<>>
                ELSE SelectSeq(sorted, LAMBDA v :
                         \E i \in at, j \in DOMAIN sorted : i < j /\ sorted[j] = v)
    IN  OrNoRows(Paged(rest, offset, limit))

TemplateKnown(t) == t = NoTemplate \/ GetTemplateByID(t) # NoRows

InsertTemplateVersion(id, template, org, name, job, at) ==
    LET row == [id |-> id, template |-> template, org |-> org, name |-> name, job |-> job,
                created_at |-> at, readme |-> 0]
    IN  /\ GetTemplateVersionByID(id) = NoRows
        /\ Add("InsertTemplateVersion", "template_versions", row,
               /\ SQL!VersionsUnique(Tables.template_versions \cup {row})
               /\ TemplateKnown(template))

UpdateTemplateVersionByID(id, template) ==
    /\ TemplateKnown(template) \/ Differs("constraints")
    /\ ChangeExec("UpdateTemplateVersionByID", "template_versions", LAMBDA v : v.id = id,
                  LAMBDA v : [v EXCEPT !.template = template], SQL!VersionsUnique)

\* Only the first version of a job is described; a job has one.
UpdateTemplateVersionDescriptionByJobID(job) ==
    /\ Cardinality({v \in Tables.template_versions : v.job = job}) < 2 \/ Differs("constraints")
    /\ ChangeExec("UpdateTemplateVersionDescriptionByJobID", "template_versions",
                  LAMBDA v : v.job = job, LAMBDA v : [v EXCEPT !.readme = 1], SQL!NoIndex)

\* ---- parameter schemas and values ----

GetParameterSchemasByJobID(job) ==
    OrNoRows(SortSeq(SelectSeq(slices.parameter_schemas, LAMBDA s : s.job = job), SQL!SchemaBefore))

GetParameterSchemasCreatedAfter(t) ==
    SelectSeq(slices.parameter_schemas, LAMBDA s : s.created_at > t)

InsertParameterSchema(id, job, name, index, at) ==
    /\ ID("parameter_schemas", id) = NoRows
    /\ Add("InsertParameterSchema", "parameter_schemas",
           [id |-> id, job |-> job, name |-> name, index |-> index, created_at |-> at],
           First("parameter_schemas", LAMBDA s : s.job = job /\ s.name = name) = NoRows)

ParameterValue(id) == ID("parameter_values", id)

\* The names are not looked at.
ParameterValues(q) ==
    OrNoRows(SelectSeq(slices.parameter_values,
        LAMBDA v : /\ q.scopes # {} => v.scope \in q.scopes
                   /\ q.scope_ids # {} => v.scope_id \in q.scope_ids
                   /\ q.ids # {} => v.id \in q.ids))

GetParameterValueByScopeAndName(scope, scopeID, name) ==
    First("parameter_values",
          LAMBDA v : v.scope = scope /\ v.scope_id = scopeID /\ v.name = name)

InsertParameterValue(id, scope, scopeID, name) ==
    /\ ParameterValue(id) = NoRows
    /\ Add("InsertParameterValue", "parameter_values",
           [id |-> id, scope |-> scope, scope_id |-> scopeID, name |-> name],
           First("parameter_values", LAMBDA v : v.scope_id = scopeID /\ v.name = name) = NoRows)

DeleteParameterValueByID(id) ==
    RemoveExec("DeleteParameterValueByID", "parameter_values", LAMBDA v : v.id = id)

\* ---- provisioner daemons and agent statistics ----

GetProvisionerDaemonByID(id) == ID("provisioner_daemons", id)

GetProvisionerDaemons == OrNoRows(slices.provisioner_daemons)

InsertProvisionerDaemon(id, name) ==
    /\ GetProvisionerDaemonByID(id) = NoRows
    /\ Add("InsertProvisionerDaemon", "provisioner_daemons",
           [id |-> id, name |-> name, provisioners |-> 0],
           First("provisioner_daemons", LAMBDA d : d.name = name) = NoRows)

UpdateProvisionerDaemonByID(id) ==
    ChangeExec("UpdateProvisionerDaemonByID", "provisioner_daemons", LAMBDA d : d.id = id,
               LAMBDA d : [d EXCEPT !.provisioners = 1], SQL!NoIndex)

\* Mutant of GetLatestAgentStat: the first one of the agent, without the sort.
GetFirstAgentStat(agent) == First("agent_stats", LAMBDA s : s.agent = agent)

\* The first of the latest ones.
GetLatestAgentStat(agent) ==
    LET of == SelectSeq(slices.agent_stats, LAMBDA s : s.agent = agent)
    IN  FirstOf(of, LAMBDA s : \A i \in DOMAIN of : of[i].created_at <= s.created_at)

\* A map from date to a set of users, walked by date.
GetTemplateDAUs(template) ==
    {[date |-> SQL!DateOf(s.created_at), user |-> s.user] :
        s \in {x \in ToSet(slices.agent_stats) : x.template = template}}

InsertAgentStat(id, agent, user, template, at) ==
    /\ ID("agent_stats", id) = NoRows
    /\ Add("InsertAgentStat", "agent_stats",
           [id |-> id, agent |-> agent, user |-> user, template |-> template, created_at |-> at],
           TRUE)

\* Nothing is deleted.
DeleteOldAgentStats ==
    /\ (\A s \in Tables.agent_stats : s.created_at >= MonthAgo) \/ Differs("old stats")
    /\ Refuse("DeleteOldAgentStats", Done)

TemplateInit == /\ slices = [t \in {"files", "templates", "template_versions", "parameter_schemas",
                                    "parameter_values", "provisioner_daemons", "agent_stats"} |-> <<>>]
                /\ focus \in {"template", "parameter", "other"}
                /\ calls = 0
                /\ answer = [op |-> "none", res |-> Done]

TemplateStep ==
    \E id \in IDs :
       \/ \E n \in Names, c \in BOOLEAN :
             (\E o \in Orgs : InsertTemplate(id, o, n, 1, c)) \/ UpdateTemplateMetaByID(id, n, c)
       \/ UpdateTemplateACLByID(id)
       \/ UpdateTemplateActiveVersionByID(id, 2)
       \/ \E d \in BOOLEAN : UpdateTemplateDeletedByID(id, d)

VersionStep ==
    \E id \in IDs :
       \/ \E t \in IDs \cup {NoTemplate}, o \in Orgs, n \in Names, j \in Jobs, at \in Days :
             InsertTemplateVersion(id, t, o, n, j, at)
       \/ \E t \in IDs : UpdateTemplateVersionByID(id, t)
       \/ \E j \in Jobs : UpdateTemplateVersionDescriptionByJobID(j)

ParameterStep ==
    \E id \in IDs, n \in Names :
       \/ \E j \in Jobs, i \in {0, 1}, at \in Days : InsertParameterSchema(id, j, n, i, at)
       \/ \E s \in Scopes, sid \in IDs : InsertParameterValue(id, s, sid, n)
       \/ DeleteParameterValueByID(id)

OtherStep ==
    \E id \in IDs :
       \/ \E h \in Names, by \in Creators : InsertFile(id, h, by)
       \/ \E n \in Names : InsertProvisionerDaemon(id, n)
       \/ UpdateProvisionerDaemonByID(id)
       \/ \E a \in IDs, u \in Creators, t \in IDs, at \in Days : InsertAgentStat(id, a, u, t, at)
       \/ DeleteOldAgentStats

TemplateNext == /\ Called
                /\ UNCHANGED focus
                /\ \/ focus = "template" /\ (TemplateStep \/ VersionStep)
                   \/ focus = "parameter" /\ ParameterStep
                   \/ focus = "other" /\ OtherStep

TemplateQuestions == [deleted : BOOLEAN, org : {0} \cup Orgs, name : {""} \cup Names,
                      ids : {{}} \cup {{i} : i \in IDs}]

\* A name no other version's name differs from only by case.
CaseClear(n) == \A v \in Tables.template_versions : LowerOf[v.name] = LowerOf[n] => v.name = n

\* In every state the fake's answers about files, templates and versions are
\* ones Postgres could give.
TemplateQueriesAgree ==
    /\ \A id \in IDs :
          /\ GetFileByID(id) \in SQL!GetFileByID(id)
          /\ GetTemplateByID(id) \in SQL!GetTemplateByID(id)
          /\ GetTemplateVersionByID(id) \in SQL!GetTemplateVersionByID(id)
    /\ \A h \in Names, by \in Creators :
          GetFileByHashAndCreator(h, by) \in SQL!GetFileByHashAndCreator(h, by)
    /\ SortedRows(GetTemplates, SQL!GetTemplates, SQL!TemplateBefore)
    /\ \A q \in TemplateQuestions :
          LET rows == SQL!GetTemplatesWithFilter(q)
              got == GetAuthorizedTemplates(q)
          IN  IF rows = {} THEN got = NoRows ELSE SortedRows(got, rows, SQL!TemplateBefore)
    /\ \A o \in Orgs, n \in Names, d \in BOOLEAN :
          /\ GetTemplateByOrganizationAndName(o, n, d)
                \in SQL!GetTemplateByOrganizationAndName(o, n, d)
          /\ CaseClear(n) => GetTemplateVersionByOrganizationAndName(o, n)
                                \in SQL!GetTemplateVersionByOrganizationAndName(o, n)
    /\ \A ids \in SUBSET IDs :
          SameOrNoRows(GetTemplateVersionsByIDs(ids), SQL!GetTemplateVersionsByIDs(ids))
    /\ \A j \in Jobs : GetTemplateVersionByJobID(j) \in SQL!GetTemplateVersionByJobID(j)
    /\ \A t \in Days : SameRows(GetTemplateVersionsCreatedAfter(t),
                                SQL!GetTemplateVersionsCreatedAfter(t))
    /\ \A t \in IDs, n \in Names : CaseClear(n) =>
          GetTemplateVersionByTemplateIDAndName(t, n)
             \in SQL!GetTemplateVersionByTemplateIDAndName(t, n)
    /\ \A t \in IDs, a \in {0} \cup IDs :
          (\A v \in Tables.template_versions : v.id = a => v.template = t) =>
             LET rows == SQL!GetTemplateVersionsByTemplateID(t, a)
                 got == GetTemplateVersionsByTemplateID(t, a, 0, 0)
             IN  IF rows = {} THEN got = NoRows ELSE SortedRows(got, rows, SQL!VersionBefore)

\* The same for parameters, daemons and statistics.
ParameterQueriesAgree ==
    /\ \A j \in Jobs :
          LET rows == SQL!GetParameterSchemasByJobID(j)
              got == GetParameterSchemasByJobID(j)
          IN  IF rows = {} THEN got = NoRows ELSE SortedRows(got, rows, SQL!SchemaBefore)
    /\ \A t \in Days : SameRows(GetParameterSchemasCreatedAfter(t),
                                SQL!GetParameterSchemasCreatedAfter(t))
    /\ \A id \in IDs : /\ ParameterValue(id) \in SQL!ParameterValue(id)
                       /\ GetProvisionerDaemonByID(id) \in SQL!GetProvisionerDaemonByID(id)
                       /\ GetLatestAgentStat(id) \in SQL!GetLatestAgentStat(id)
                       /\ GetTemplateDAUs(id) = SQL!GetTemplateDAUs(id)
    /\ \A scopes \in SUBSET Scopes, sids, ids \in SUBSET IDs, names \in SUBSET Names :
          (names # {} => Differs("parameter names")) =>
             LET q == [scopes |-> scopes, scope_ids |-> sids, ids |-> ids, names |-> names]
             IN  SameOrNoRows(ParameterValues(q), SQL!ParameterValues(q))
    /\ \A s \in Scopes, sid \in IDs, n \in Names :
          GetParameterValueByScopeAndName(s, sid, n) \in SQL!GetParameterValueByScopeAndName(s, sid, n)
    /\ SameOrNoRows(GetProvisionerDaemons, SQL!GetProvisionerDaemons)

(***************************************************************************)
(* databasefake on provisioner jobs and their logs, workspaces and builds, *)
(* against what Postgres does (SQLStore).                                  *)
(***************************************************************************)

\* ---- provisioner jobs and their logs ----

GetProvisionerJobByID(id) == ID("provisioner_jobs", id)

GetProvisionerJobsByIDs(ids) ==
    OrNoRows(SelectSeq(slices.provisioner_jobs, LAMBDA j : j.id \in ids))

GetProvisionerJobsCreatedAfter(t) ==
    SelectSeq(slices.provisioner_jobs, LAMBDA j : j.created_at > t)

InsertProvisionerJob(id, at, type, tags) ==
    /\ GetProvisionerJobByID(id) = NoRows
    /\ Add("InsertProvisionerJob", "provisioner_jobs",
           [id |-> id, created_at |-> at, updated_at |-> at, started |-> 0, canceled |-> 0,
            completed |-> 0, error |-> FALSE, type |-> type, tags |-> tags, worker |-> 0], TRUE)

\* The first job inserted that has not started, canceled or not.
AcquireProvisionerJob(worker, types, tags, at) ==
    LET Free(j) == j.started = 0 /\ j.type \in types /\ j.tags \subseteq tags
        job == First("provisioner_jobs", Free)
        waiting == SQL!Waiting(types, tags)
    IN  /\ \/ job = NoRows
           \/ job \in waiting /\ \A k \in waiting : job.created_at <= k.created_at
           \/ Differs("acquire")
        /\ ChangeOne("AcquireProvisionerJob", "provisioner_jobs", Free,
                     LAMBDA j : [j EXCEPT !.started = at, !.updated_at = at, !.worker = worker],
                     SQL!NoIndex)

UpdateProvisionerJobByID(id, at) ==
    ChangeExec("UpdateProvisionerJobByID", "provisioner_jobs", LAMBDA j : j.id = id,
               LAMBDA j : [j EXCEPT !.updated_at = at], SQL!NoIndex)

\* Mutant of UpdateProvisionerJobWithCancelByID: a job that no worker has is
\* not completed with its cancelation.
CanceledOnly(id, canceled, completed) ==
    ChangeExec("UpdateProvisionerJobWithCancelByID", "provisioner_jobs", LAMBDA j : j.id = id,
               LAMBDA j : [j EXCEPT !.canceled = canceled], SQL!NoIndex)

UpdateProvisionerJobWithCancelByID(id, canceled, completed) ==
    ChangeExec("UpdateProvisionerJobWithCancelByID", "provisioner_jobs", LAMBDA j : j.id = id,
               LAMBDA j : [j EXCEPT !.canceled = canceled, !.completed = completed], SQL!NoIndex)

UpdateProvisionerJobWithCompleteByID(id, at, error) ==
    ChangeExec("UpdateProvisionerJobWithCompleteByID", "provisioner_jobs", LAMBDA j : j.id = id,
               LAMBDA j : [j EXCEPT !.updated_at = at, !.completed = at, !.error = error],
               SQL!NoIndex)

\* Both bounds are inclusive, and 0 is none.
GetProvisionerLogsByIDBetween(job, after, before) ==
    SelectSeq(slices.provisioner_job_logs,
              LAMBDA l : /\ l.job = job
                         /\ before # 0 => l.id <= before
                         /\ after # 0 => l.id >= after)

\* The ids go on from the last row's, and from 1 where there is none.
InsertProvisionerJobLogs(job, n) ==
    LET rows == slices.provisioner_job_logs
        id == IF rows = <<>> THEN 1 ELSE rows[Len(rows)].id
        logs == [i \in 1..n |-> [id |-> id + i, job |-> job]]
    IN  /\ GetProvisionerJobByID(job) # NoRows \/ Differs("constraints")
        /\ id + n <= MaxLogID
        /\ slices' = [slices EXCEPT !.provisioner_job_logs = @ \o logs]
        /\ Reply("InsertProvisionerJobLogs", logs)

\* ---- workspaces ----

GetWorkspaceByID(id) == ID("workspaces", id)

\* The first of the latest ones.
GetWorkspaceByOwnerIDAndName(owner, name, deleted) ==
    LET rows == SelectSeq(slices.workspaces,
                    LAMBDA w : w.owner = owner /\ LowerOf[w.name] = LowerOf[name]
                               /\ w.deleted = deleted)
    IN  FirstOf(rows, LAMBDA w : \A i \in DOMAIN rows : rows[i].created_at <= w.created_at)

GetWorkspaceCountByUserID(owner) ==
    Len(SelectSeq(slices.workspaces, LAMBDA w : w.owner = owner /\ ~w.deleted))

\* Every template asked for has a row, and there is no list without one.
GetWorkspaceOwnerCountsByTemplateIDs(ids) ==
    LET OwnersOf(t) == {w.owner : w \in {x \in ToSet(slices.workspaces) : x.template = t /\ ~x.deleted}}
    IN  IF ids = {} THEN NoRows
        ELSE {[template |-> t, count |-> Cardinality(OwnersOf(t))] : t \in ids}

InsertWorkspace(id, owner, template, name, at) ==
    LET row == [id |-> id, owner |-> owner, template |-> template, name |-> name,
                created_at |-> at, deleted |-> FALSE, autostart |-> 0, ttl |-> 0, used |-> 0]
    IN  /\ GetWorkspaceByID(id) = NoRows
        /\ Add("InsertWorkspace", "workspaces", row,
               SQL!WorkspacesUnique(Tables.workspaces \cup {row}))

\* Names that differ by case only are not taken for duplicates.
UpdateWorkspace(id, name) ==
    LET Live(w) == w.id = id /\ ~w.deleted
        old == First("workspaces", Live)
    IN  IF old # NoRows /\ \E v \in Tables.workspaces :
              ~v.deleted /\ v.id # id /\ v.owner = old.owner /\ v.name = name
        THEN Refuse("UpdateWorkspace", DuplicateKey)
        ELSE ChangeOne("UpdateWorkspace", "workspaces", Live,
                       LAMBDA w : [w EXCEPT !.name = name], SQL!WorkspacesUnique)

UpdateWorkspaceAutostart(id) ==
    ChangeExec("UpdateWorkspaceAutostart", "workspaces", LAMBDA w : w.id = id,
               LAMBDA w : [w EXCEPT !.autostart = 1], SQL!WorkspacesUnique)

UpdateWorkspaceTTL(id) ==
    ChangeExec("UpdateWorkspaceTTL", "workspaces", LAMBDA w : w.id = id,
               LAMBDA w : [w EXCEPT !.ttl = 1], SQL!WorkspacesUnique)

UpdateWorkspaceLastUsedAt(id, at) ==
    ChangeExec("UpdateWorkspaceLastUsedAt", "workspaces", LAMBDA w : w.id = id,
               LAMBDA w : [w EXCEPT !.used = at], SQL!WorkspacesUnique)

UpdateWorkspaceDeletedByID(id, deleted) ==
    ChangeExec("UpdateWorkspaceDeletedByID", "workspaces", LAMBDA w : w.id = id,
               LAMBDA w : [w EXCEPT !.deleted = deleted], SQL!WorkspacesUnique)

\* ---- builds ----

GetWorkspaceBuildByID(id) == ID("workspace_builds", id)

GetWorkspaceBuildByJobID(job) == First("workspace_builds", LAMBDA b : b.job = job)

GetWorkspaceBuildByWorkspaceIDAndBuildNumber(w, n) ==
    First("workspace_builds", LAMBDA b : b.workspace = w /\ b.number = n)

GetWorkspaceBuildsCreatedAfter(t) ==
    SelectSeq(slices.workspace_builds, LAMBDA b : b.created_at > t)

BuildsOf(w) == SelectSeq(slices.workspace_builds, LAMBDA b : b.workspace = w)

\* The first build of the greatest number above the floor.
Highest(builds, floor) ==
    FirstOf(builds, LAMBDA b : /\ b.number > floor
                               /\ \A i \in DOMAIN builds : builds[i].number <= b.number)

GetLatestWorkspaceBuildByWorkspaceID(w) == Highest(BuildsOf(w), -1)

\* A map from workspace to build, walked in an order of its own.
GetLatestWorkspaceBuildsByWorkspaceIDs(ids) ==
    LET latest == {Highest(BuildsOf(w), 0) : w \in ids} \ {NoRows}
    IN  IF latest = {} THEN NoRows ELSE latest

GetLatestWorkspaceBuilds ==
    GetLatestWorkspaceBuildsByWorkspaceIDs({b.workspace : b \in Tables.workspace_builds})

\* The rows behind the cursor in descending order, which have lower numbers.
GetWorkspaceBuildsByWorkspaceID(w, since, after, offset, limit) ==
    LET history == SortSeq(SelectSeq(BuildsOf(w), LAMBDA b : b.created_at >= since),
                           SQL!BuildBefore)
        at == {i \in DOMAIN history : history[i].id = after}
        rest == IF after = 0 THEN history
                ELSE SelectSeq(history, LAMBDA b :
                         \E i \in at, j \in DOMAIN history : i < j /\ history[j] = b)
    IN  OrNoRows(Paged(rest, offset, limit))

InsertWorkspaceBuild(id, w, version, n, transition, job, at) ==
    LET row == [id |-> id, workspace |-> w, version |-> version, number |-> n,
                transition |-> transition, job |-> job, created_at |-> at, state |-> 0, cost |-> 0]
    IN  /\ GetWorkspaceBuildByID(id) = NoRows
        /\ Add("InsertWorkspaceBuild", "workspace_builds", row,
               /\ SQL!BuildsUnique(Tables.workspace_builds \cup {row})
               /\ GetWorkspaceByID(w) # NoRows /\ GetProvisionerJobByID(job) # NoRows)

UpdateWorkspaceBuildByID(id) ==
    ChangeOne("UpdateWorkspaceBuildByID", "workspace_builds", LAMBDA b : b.id = id,
              LAMBDA b : [b EXCEPT !.state = 1], SQL!NoIndex)

UpdateWorkspaceBuildCostByID(id, cost) ==
    ChangeOne("UpdateWorkspaceBuildCostByID", "workspace_builds", LAMBDA b : b.id = id,
              LAMBDA b : [b EXCEPT !.cost = cost], SQL!NoIndex)

\* ---- joins ----

\* Mutant of GetQuotaConsumedForUser: every build of a workspace counts.
SumOfAllBuilds(owner) ==
    LET live == {w.id : w \in {x \in Tables.workspaces : x.owner = owner /\ ~x.deleted}}
    IN  MapThenSumSet(LAMBDA b : b.cost, {b \in Tables.workspace_builds : b.workspace \in live})

\* The first of the builds created last counts for each workspace.
GetQuotaConsumedForUser(owner) ==
    LET live == {w \in Tables.workspaces : w.owner = owner /\ ~w.deleted}
        LastCost(w) == LET of == BuildsOf(w.id)
                           last == FirstOf(of, LAMBDA b :
                                       \A i \in DOMAIN of : of[i].created_at <= b.created_at)
                       IN  IF last = NoRows THEN 0 ELSE last.cost
    IN  MapThenSumSet(LastCost, live)

\* fs[int(len * p / 100)] of every completed build, whatever became of it.
TryPercentile(times, p) ==
    IF times = <<>> THEN -1 ELSE SortSeq(times, <)[(Len(times) * p) \div 100 + 1]

Completed(template, transition) ==
    SelectSeq(slices.workspace_builds,
              LAMBDA b : /\ TemplateOf[b.version] = template /\ b.transition = transition
                         /\ GetProvisionerJobByID(b.job).completed # 0)

GetTemplateAverageBuildTime(template, transition, p) ==
    LET builds == Completed(template, transition)
        Took(b) == LET j == GetProvisionerJobByID(b.job) IN j.completed - j.started
    IN  TryPercentile([i \in DOMAIN builds |-> Took(builds[i])], p)

\* The rows a status filter leaves out; most of its conditions are not those
\* of the statement.
Skipped(w, status) ==
    LET b == GetLatestWorkspaceBuildByWorkspaceID(w.id)
        j == GetProvisionerJobByID(b.job)
        started == j.started # 0
        canceled == j.canceled # 0
        completed == j.completed # 0
        old == j.updated_at \in OldTimes
        Moving(t) == (~started /\ ~canceled /\ completed /\ old) \/ b.transition # t
        Ended(t) == (~completed /\ canceled /\ j.error) \/ b.transition # t
    IN  CASE status = "pending"   -> ~started
          [] status = "starting"  -> Moving("start")
          [] status = "running"   -> Ended("start")
          [] status = "stopping"  -> Moving("stop")
          [] status = "stopped"   -> Ended("stop")
          [] status = "failed"    -> ~j.error /\ (~canceled \/ ~completed)
          [] status = "canceling" -> ~canceled /\ completed
          [] status = "canceled"  -> ~canceled /\ ~completed
          [] status = "deleted"   -> (~started /\ canceled /\ ~completed /\ old)
                                        \/ b.transition # "delete"
          [] status = "deleting"  -> ~completed /\ canceled /\ j.error /\ b.transition # "delete"

\* No order; deleted workspaces come beside the others, not instead of them;
\* a status of a workspace without a build fails the whole query.
GetWorkspaces(q, offset, limit) ==
    LET Passes(w) == /\ q.owner # 0 => w.owner = q.owner
                     /\ q.owner_name # "" => LowerOf[NameOf[w.owner]] = LowerOf[q.owner_name]
                     /\ q.title # "" => LowerOf[TitleOf[w.template]] = LowerOf[q.title]
                     /\ w.deleted => q.deleted
                     /\ q.part # "" => w.name \in HeldBy[q.part]
        NoBuild(w) == GetLatestWorkspaceBuildByWorkspaceID(w.id) = NoRows
        rows == SelectSeq(slices.workspaces,
                    LAMBDA w : /\ Passes(w)
                               /\ q.status # "" => ~Skipped(w, q.status)
                               /\ q.templates # {} => w.template \in q.templates)
    IN  IF q.status # "" /\ \E w \in Tables.workspaces : Passes(w) /\ NoBuild(w)
        THEN NoRows ELSE Paged(rows, offset, limit)

Empty == [provisioner_jobs |-> <<>>, provisioner_job_logs |-> <<>>, workspaces |-> <<>>,
          workspace_builds |-> <<>>]

BuildInit == /\ focus \in {"job", "workspace", "build"}
             /\ slices = IF focus = "build" THEN [Empty EXCEPT !.provisioner_jobs = SeededJobs,
                                                               !.workspaces = SeededWorkspaces]
                         ELSE Empty
             /\ calls = 0
             /\ answer = [op |-> "none", res |-> Done]

JobQueued ==
    \/ \E id \in IDs, at \in Times, type \in Types, tags \in SUBSET Tags :
          InsertProvisionerJob(id, at, type, tags)
    \/ \E job \in IDs, n \in {1, 2} : InsertProvisionerJobLogs(job, n)

JobProgress(instants) ==
    \/ \E types \in SUBSET Types, tags \in SUBSET Tags, at \in instants :
          AcquireProvisionerJob(1, types, tags, at)
    \/ \E id \in IDs, at \in instants :
          \/ UpdateProvisionerJobByID(id, at)
          \/ \E completed \in {0, at} : UpdateProvisionerJobWithCancelByID(id, at, completed)
          \/ \E error \in BOOLEAN : UpdateProvisionerJobWithCompleteByID(id, at, error)

WorkspaceStep ==
    \E id \in IDs :
       \/ \E owner \in Owners, t \in Templates, n \in Names, at \in Times :
             InsertWorkspace(id, owner, t, n, at)
       \/ \E n \in Names : UpdateWorkspace(id, n)
       \/ UpdateWorkspaceAutostart(id)
       \/ UpdateWorkspaceTTL(id)
       \/ \E at \in Times : UpdateWorkspaceLastUsedAt(id, at)
       \/ \E d \in BOOLEAN : UpdateWorkspaceDeletedByID(id, d)

BuildStep ==
    \E id \in IDs :
       \/ \E w \in IDs, v \in DOMAIN TemplateOf, n \in {1, 2}, t \in SQL!Transitions, at \in Times :
             InsertWorkspaceBuild(id, w, v, n, t, id, at)
       \/ UpdateWorkspaceBuildByID(id)
       \/ \E cost \in Costs : UpdateWorkspaceBuildCostByID(id, cost)

BuildNext == /\ Called
             /\ UNCHANGED focus
             /\ \/ focus = "job" /\ (JobQueued \/ JobProgress(Times))
                \/ focus = "workspace" /\ WorkspaceStep
                \/ focus = "build" /\ (BuildStep \/ JobProgress({2}))

\* In every state the fake's answers about jobs and logs are ones Postgres
\* could give.
JobQueriesAgree ==
    /\ \A id \in IDs : GetProvisionerJobByID(id) \in SQL!GetProvisionerJobByID(id)
    /\ \A ids \in SUBSET IDs :
          SameOrNoRows(GetProvisionerJobsByIDs(ids), SQL!GetProvisionerJobsByIDs(ids))
    /\ \A t \in Times : SameRows(GetProvisionerJobsCreatedAfter(t),
                                 SQL!GetProvisionerJobsCreatedAfter(t))
    /\ \A job \in IDs, after \in 0..MaxLogID :
          (\A l \in Tables.provisioner_job_logs : l.id # after) =>
             SortedRows(GetProvisionerLogsByIDBetween(job, after, 0),
                        SQL!GetProvisionerLogsByIDBetween(job, after, 0), SQL!LogBefore)

\* Filters that both read alike: by owner, template and name, not by status,
\* among workspaces that are not deleted.
NoFilter == [deleted |-> FALSE, status |-> "", owner |-> 0, owner_name |-> "", title |-> "",
             templates |-> {}, part |-> ""]

WorkspaceQuestions ==
    {[NoFilter EXCEPT !.owner = o, !.templates = ts] : o \in {0} \cup Owners, ts \in SUBSET Templates}
    \cup {[NoFilter EXCEPT !.owner_name = NameOf[o], !.title = TitleOf[t]] : o \in Owners, t \in Templates}
    \cup {[NoFilter EXCEPT !.part = p] : p \in DOMAIN HeldBy}

\* The same for workspaces and builds, cursors and status filters left out.
BuildQueriesAgree ==
    /\ \A id \in IDs :
          /\ GetWorkspaceByID(id) \in SQL!GetWorkspaceByID(id)
          /\ GetWorkspaceBuildByID(id) \in SQL!GetWorkspaceBuildByID(id)
          /\ GetWorkspaceBuildByJobID(id) \in SQL!GetWorkspaceBuildByJobID(id)
          /\ GetLatestWorkspaceBuildByWorkspaceID(id) \in SQL!GetLatestWorkspaceBuildByWorkspaceID(id)
          /\ \A n \in {1, 2} : GetWorkspaceBuildByWorkspaceIDAndBuildNumber(id, n)
                                  \in SQL!GetWorkspaceBuildByWorkspaceIDAndBuildNumber(id, n)
          /\ LET rows == SQL!GetWorkspaceBuildsByWorkspaceID(id, 0, 0)
                 got == GetWorkspaceBuildsByWorkspaceID(id, 0, 0, 0, 0)
             IN  IF rows = {} THEN got = NoRows ELSE SortedRows(got, rows, SQL!BuildBefore)
    /\ \A o \in Owners :
          /\ GetWorkspaceCountByUserID(o) = SQL!GetWorkspaceCountByUserID(o)
          /\ GetQuotaConsumedForUser(o) \in SQL!GetQuotaConsumedForUser(o)
          /\ \A n \in Names, d \in BOOLEAN :
                GetWorkspaceByOwnerIDAndName(o, n, d) \in SQL!GetWorkspaceByOwnerIDAndName(o, n, d)
    /\ \A t \in Times : SameRows(GetWorkspaceBuildsCreatedAfter(t), SQL!GetWorkspaceBuildsCreatedAfter(t))
    /\ \A ids \in SUBSET IDs :
          LET rows == SQL!GetLatestWorkspaceBuildsByWorkspaceIDs(ids)
          IN  GetLatestWorkspaceBuildsByWorkspaceIDs(ids) = IF rows = {} THEN NoRows ELSE rows
    /\ GetLatestWorkspaceBuilds = IF SQL!GetLatestWorkspaceBuilds = {} THEN NoRows
                                  ELSE SQL!GetLatestWorkspaceBuilds
    /\ \A ids \in SUBSET Templates : ids # {} =>
          {r \in GetWorkspaceOwnerCountsByTemplateIDs(ids) : r.count > 0}
             = SQL!GetWorkspaceOwnerCountsByTemplateIDs(ids)
    /\ \A q \in WorkspaceQuestions : SameRows(GetWorkspaces(q, 0, 0), SQL!GetWorkspaces(q))
    /\ \A t \in Templates, tr \in SQL!Transitions, p \in {50, 95} :
          LET builds == SQL!BuildTimes(t, tr, 0)
          IN  /\ Cardinality(builds) = Len(Completed(t, tr))
              /\ Cardinality(builds) % 2 = 1
              => GetTemplateAverageBuildTime(t, tr, p) = SQL!GetTemplateAverageBuildTime(t, tr, 0, p)

(***************************************************************************)
(* databasefake on resources, metadata, agents and apps, against what      *)
(* Postgres does (SQLStore).                                               *)
(***************************************************************************)

\* A loop from the end of the slice.
LastOf(t, Matches(_)) == FirstOf(Reverse(slices[t]), Matches)

\* ---- resources and metadata ----

GetWorkspaceResourceByID(id) == ID("workspace_resources", id)

GetWorkspaceResourcesByJobIDs(jobs) ==
    SelectSeq(slices.workspace_resources, LAMBDA r : r.job \in jobs)

GetWorkspaceResourcesByJobID(job) ==
    SelectSeq(slices.workspace_resources, LAMBDA r : r.job = job)

GetWorkspaceResourcesCreatedAfter(t) ==
    SelectSeq(slices.workspace_resources, LAMBDA r : r.created_at > t)

\* The instance type is not taken over.
InsertWorkspaceResource(id, job, at, typed) ==
    /\ GetWorkspaceResourceByID(id) = NoRows
    /\ typed = 0 \/ Differs("instance type")
    /\ Add("InsertWorkspaceResource", "workspace_resources",
           [id |-> id, job |-> job, created_at |-> at, instance_type |-> 0], TRUE)

GetWorkspaceResourceMetadataByResourceIDs(ids) ==
    SelectSeq(slices.workspace_resource_metadata, LAMBDA m : m.resource \in ids)

GetWorkspaceResourceMetadataByResourceID(id) ==
    SelectSeq(slices.workspace_resource_metadata, LAMBDA m : m.resource = id)

GetWorkspaceResourceMetadataCreatedAfter(t) ==
    LET ids == {r.id : r \in ToSet(GetWorkspaceResourcesCreatedAfter(t))}
    IN  SelectSeq(slices.workspace_resource_metadata, LAMBDA m : m.resource \in ids)

InsertWorkspaceResourceMetadata(resource, key) ==
    LET row == [resource |-> resource, key |-> key]
    IN  Add("InsertWorkspaceResourceMetadata", "workspace_resource_metadata", row,
            /\ row \notin Tables.workspace_resource_metadata
            /\ GetWorkspaceResourceByID(resource) # NoRows)

\* ---- agents ----

GetWorkspaceAgentByID(id) == LastOf("workspace_agents", LAMBDA a : a.id = id)

\* Mutant of GetWorkspaceAgentByAuthToken: the loop runs from the front.
GetOldestAgentByAuthToken(token) == First("workspace_agents", LAMBDA a : a.token = token)

\* "The schema sorts this by created at, so we iterate the array backwards."
GetWorkspaceAgentByAuthToken(token) == LastOf("workspace_agents", LAMBDA a : a.token = token)

GetWorkspaceAgentByInstanceID(instance) ==
    LastOf("workspace_agents", LAMBDA a : a.instance = instance)

GetWorkspaceAgentsByResourceIDs(ids) ==
    SelectSeq(slices.workspace_agents, LAMBDA a : a.resource \in ids)

GetWorkspaceAgentsCreatedAfter(t) ==
    SelectSeq(slices.workspace_agents, LAMBDA a : a.created_at > t)

\* An agent inserted out of the order of its time would be taken for newest.
InsertWorkspaceAgent(id, resource, token, instance, at, timeout) ==
    /\ GetWorkspaceAgentByID(id) = NoRows
    /\ \A a \in Tables.workspace_agents : a.created_at <= at \/ Differs("agent order")
    /\ Add("InsertWorkspaceAgent", "workspace_agents",
           [id |-> id, resource |-> resource, token |-> token, instance |-> instance,
            created_at |-> at, timeout |-> timeout, first |-> 0, last |-> 0, disconnected |-> 0,
            version |-> 0],
           GetWorkspaceResourceByID(resource) # NoRows)

UpdateWorkspaceAgentConnectionByID(id, first, last, disconnected) ==
    ChangeExec("UpdateWorkspaceAgentConnectionByID", "workspace_agents", LAMBDA a : a.id = id,
               LAMBDA a : [a EXCEPT !.first = first, !.last = last, !.disconnected = disconnected],
               SQL!NoIndex)

UpdateWorkspaceAgentVersionByID(id) ==
    ChangeExec("UpdateWorkspaceAgentVersionByID", "workspace_agents", LAMBDA a : a.id = id,
               LAMBDA a : [a EXCEPT !.version = 1], SQL!NoIndex)

\* ---- apps ----

GetWorkspaceAppsByAgentIDs(agents) ==
    SelectSeq(slices.workspace_apps, LAMBDA a : a.agent \in agents)

\* Not sorted by slug.
GetWorkspaceAppsByAgentID(agent) ==
    OrNoRows(SelectSeq(slices.workspace_apps, LAMBDA a : a.agent = agent))

GetWorkspaceAppsCreatedAfter(t) ==
    SelectSeq(slices.workspace_apps, LAMBDA a : a.created_at > t)

GetWorkspaceAppByAgentIDAndSlug(agent, slug) ==
    First("workspace_apps", LAMBDA a : a.agent = agent /\ a.slug = slug)

InsertWorkspaceApp(id, agent, slug, at) ==
    /\ ID("workspace_apps", id) = NoRows
    /\ Add("InsertWorkspaceApp", "workspace_apps",
           [id |-> id, agent |-> agent, slug |-> slug, created_at |-> at, health |-> 0],
           /\ GetWorkspaceAppByAgentIDAndSlug(agent, slug) = NoRows
           /\ GetWorkspaceAgentByID(agent) # NoRows)

UpdateWorkspaceAppHealthByID(id) ==
    ChangeExec("UpdateWorkspaceAppHealthByID", "workspace_apps", LAMBDA a : a.id = id,
               LAMBDA a : [a EXCEPT !.health = 1], SQL!NoIndex)

\* ---- joins ----

\* Agent, resource, build and workspace, each the first that fits.
GetWorkspaceByAgentID(agent) ==
    LET a == ID("workspace_agents", agent)
        r == ID("workspace_resources", a.resource)
        b == First("workspace_builds", LAMBDA x : x.job = r.job)
    IN  IF a = NoRows THEN NoRows
        ELSE IF r = NoRows THEN NoRows
        ELSE IF b = NoRows THEN NoRows
        ELSE ID("workspaces", b.workspace)

mapAgentStatus(a) ==
    IF a.first = 0
    THEN IF a.timeout > 0 /\ Now - a.created_at > a.timeout THEN "timeout" ELSE "connecting"
    ELSE IF a.disconnected > a.last THEN "disconnected"
    ELSE IF Now - a.last > Inactive THEN "disconnected" ELSE "connected"

\* The transition of the build does not count, and a workspace without a build
\* fails the query.
HasAgent(status) ==
    LET Latest(w) == First("workspace_builds", LAMBDA b :
                         /\ b.workspace = w.id
                         /\ \A c \in Tables.workspace_builds : c.workspace = w.id => c.number <= b.number)
        ResourcesOf(w) == {r.id : r \in ToSet(GetWorkspaceResourcesByJobID(Latest(w).job))}
    IN  IF \E w \in Tables.workspaces : Latest(w) = NoRows THEN NoRows
        ELSE SelectSeq(slices.workspaces, LAMBDA w :
                \E a \in ToSet(GetWorkspaceAgentsByResourceIDs(ResourcesOf(w))) :
                   mapAgentStatus(a) = status)

ResourceInit == /\ slices = [workspace_resources |-> <<>>, workspace_resource_metadata |-> <<>>,
                             workspace_agents |-> <<>>, workspace_apps |-> <<>>,
                             workspace_builds |-> SeededBuilds, workspaces |-> BuiltWorkspaces]
                /\ calls = 0
                /\ answer = [op |-> "none", res |-> Done]

\* An agent's token and its instance id share a name here.
ResourceNext ==
   /\ Called
   /\ \E id \in IDs :
         \/ \E job \in Jobs, at \in Times : \E typed \in {0, 1} :
               InsertWorkspaceResource(id, job, at, typed)
         \/ \E key \in Slugs : InsertWorkspaceResourceMetadata(id, key)
         \/ \E r \in IDs, token \in Tokens, at \in Times, timeout \in {0, 1} :
               InsertWorkspaceAgent(id, r, token, token, at, timeout)
         \/ \E c \in SQL!Connections : UpdateWorkspaceAgentConnectionByID(id, c[1], c[2], c[3])
         \/ UpdateWorkspaceAgentVersionByID(id)
         \/ \E agent \in IDs, slug \in Slugs, at \in Times : InsertWorkspaceApp(id, agent, slug, at)
         \/ UpdateWorkspaceAppHealthByID(id)

\* In every state the fake's answers about resources, agents and apps are ones
\* Postgres could give, the order of a list of apps left aside.
ResourceQueriesAgree ==
    /\ \A id \in IDs :
          /\ GetWorkspaceResourceByID(id) \in SQL!GetWorkspaceResourceByID(id)
          /\ GetWorkspaceAgentByID(id) \in SQL!GetWorkspaceAgentByID(id)
          /\ GetWorkspaceByAgentID(id) \in SQL!GetWorkspaceByAgentID(id)
          /\ SameRows(GetWorkspaceResourceMetadataByResourceID(id),
                      SQL!GetWorkspaceResourceMetadataByResourceID(id))
          /\ SameOrNoRows(GetWorkspaceAppsByAgentID(id), SQL!GetWorkspaceAppsByAgentID(id))
          /\ \A slug \in Slugs : GetWorkspaceAppByAgentIDAndSlug(id, slug)
                                    \in SQL!GetWorkspaceAppByAgentIDAndSlug(id, slug)
    /\ \A ids \in SUBSET IDs :
          /\ SameRows(GetWorkspaceResourceMetadataByResourceIDs(ids),
                      SQL!GetWorkspaceResourceMetadataByResourceIDs(ids))
          /\ SameRows(GetWorkspaceAgentsByResourceIDs(ids), SQL!GetWorkspaceAgentsByResourceIDs(ids))
          /\ SameRows(GetWorkspaceAppsByAgentIDs(ids), SQL!GetWorkspaceAppsByAgentIDs(ids))
    /\ \A token \in Tokens :
          /\ GetWorkspaceAgentByAuthToken(token) \in SQL!GetWorkspaceAgentByAuthToken(token)
          /\ GetWorkspaceAgentByInstanceID(token) \in SQL!GetWorkspaceAgentByInstanceID(token)
    /\ \A t \in Times :
          /\ SameRows(GetWorkspaceResourcesCreatedAfter(t), SQL!GetWorkspaceResourcesCreatedAfter(t))
          /\ SameRows(GetWorkspaceResourceMetadataCreatedAfter(t),
                      SQL!GetWorkspaceResourceMetadataCreatedAfter(t))
          /\ SameRows(GetWorkspaceAgentsCreatedAfter(t), SQL!GetWorkspaceAgentsCreatedAfter(t))
          /\ SameRows(GetWorkspaceAppsCreatedAfter(t), SQL!GetWorkspaceAppsCreatedAfter(t))
    /\ \A jobs \in SUBSET Jobs :
          SameRows(GetWorkspaceResourcesByJobIDs(jobs), SQL!GetWorkspaceResourcesByJobIDs(jobs))
    /\ \A job \in Jobs :
          SameRows(GetWorkspaceResourcesByJobID(job), SQL!GetWorkspaceResourcesByJobID(job))
    /\ \A status \in {"timeout", "connecting", "disconnected", "connected"} :
          SameRows(HasAgent(status), SQL!HasAgent(status))

(***************************************************************************)
(* databasefake on site configuration, licenses, replicas and the audit    *)
(* log, against what Postgres does (SQLStore).  The fields deploymentID,   *)
(* derpMeshKey and lastUpdateCheck are rows of one slice here, and         *)
(* lastLicenseID the one row of licenses_id_seq.                           *)
(***************************************************************************)

\* ---- site configuration ----

GetConfig(key) == LET row == First("site_configs", LAMBDA c : c.key = key)
                  IN  IF row = NoRows THEN NoRows ELSE row.value

\* The empty string where nothing was stored.
GetDeploymentID == IF GetConfig("deployment_id") = NoRows THEN "" ELSE GetConfig("deployment_id")

GetDERPMeshKey == IF GetConfig("derp_mesh_key") = NoRows THEN "" ELSE GetConfig("derp_mesh_key")

GetLastUpdateCheck == GetConfig("last_update_check")

\* The field is assigned, whatever it held.
Assign(op, key, value) ==
    LET Key(c) == c.key = key
    IN  /\ slices' = [slices EXCEPT !.site_configs =
                         Append(Without(@, Key), [key |-> key, value |-> value])]
        /\ Reply(op, Done)

InsertDeploymentID(value) ==
    /\ GetConfig("deployment_id") = NoRows \/ Differs("constraints")
    /\ Assign("InsertDeploymentID", "deployment_id", value)

InsertDERPMeshKey(value) ==
    /\ GetConfig("derp_mesh_key") = NoRows \/ Differs("constraints")
    /\ Assign("InsertDERPMeshKey", "derp_mesh_key", value)

InsertOrUpdateLastUpdateCheck(value) ==
    Assign("InsertOrUpdateLastUpdateCheck", "last_update_check", value)

\* ---- licenses ----

GetLicenses == SortSeq(slices.licenses, SQL!LicenseBefore)

GetUnexpiredLicenses == SelectSeq(GetLicenses, LAMBDA l : l.exp > Now)

InsertLicense(jwt, exp) ==
    LET row == [id |-> slices.licenses_id_seq[1] + 1, jwt |-> jwt, exp |-> exp]
    IN  /\ First("licenses", LAMBDA l : l.jwt = jwt) = NoRows \/ Differs("constraints")
        /\ slices' = [slices EXCEPT !.licenses = Append(@, row), !.licenses_id_seq = <<row.id>>]
        /\ Reply("InsertLicense", row)

DeleteLicense(id) ==
    LET Has(l) == l.id = id
    IN  IF First("licenses", Has) = NoRows THEN Refuse("DeleteLicense", NoRows)
        ELSE /\ slices' = [slices EXCEPT !.licenses = SwapRemoved(@, Has)]
             /\ Reply("DeleteLicense", id)

\* ---- replicas ----

GetReplicasUpdatedAfter(t) ==
    SelectSeq(slices.replicas, LAMBDA r : r.updated_at > t /\ ~r.stopped)

InsertReplica(id, at) ==
    /\ First("replicas", LAMBDA r : r.id = id) = NoRows
    /\ Add("InsertReplica", "replicas", [id |-> id, updated_at |-> at, stopped |-> FALSE], TRUE)

UpdateReplica(id, at, stopped) ==
    ChangeOne("UpdateReplica", "replicas", LAMBDA r : r.id = id,
              LAMBDA r : [r EXCEPT !.updated_at = at, !.stopped = stopped], SQL!NoIndex)

DeleteReplicasUpdatedBefore(t) ==
    LET Old(r) == r.updated_at < t
        st == RemovedInPlace(slices.replicas, Old)
    IN  /\ Len(SelectSeq(slices.replicas, Old)) < 2 \/ Differs("two old replicas")
        /\ slices' = [slices EXCEPT !.replicas = SubSeq(st.array, 1, st.len)]
        /\ Reply("DeleteReplicasUpdatedBefore", IF st.panic THEN Panic ELSE Done)

\* ---- the audit log ----

\* The offset skips rows before they are filtered, the case of a username does
\* not count and the target is not looked at.
GetAuditLogsOffset(q, offset, limit) ==
    LET rest == SubSeq(slices.audit_logs, offset + 1, Len(slices.audit_logs))
        logs == SelectSeq(rest, LAMBDA l :
                    /\ q.kind # "" => l.kind = q.kind
                    /\ q.username # "" => LowerOf[NameOf[l.user]] = LowerOf[q.username]
                    /\ q.from # 0 => l.time >= q.from
                    /\ q.to # 0 => l.time <= q.to)
    IN  SubSeq(logs, 1, IF limit < Len(logs) THEN limit ELSE Len(logs))

\* Kept with the oldest first.
InsertAuditLog(id, time, user, kind, target) ==
    LET row == [id |-> id, time |-> time, user |-> user, kind |-> kind, target |-> target]
    IN  /\ First("audit_logs", LAMBDA l : l.id = id) = NoRows
        /\ slices' = [slices EXCEPT !.audit_logs =
                         SortSeq(Append(@, row), LAMBDA a, b : a.time < b.time)]
        /\ Reply("InsertAuditLog", row)

SiteInit == /\ slices = [site_configs |-> <<>>, licenses |-> <<>>, licenses_id_seq |-> <<0>>,
                         replicas |-> <<>>, audit_logs |-> <<>>]
            /\ focus \in {"config", "license", "replica", "audit"}
            /\ calls = 0
            /\ answer = [op |-> "none", res |-> Done]

ConfigStep == \E v \in Values : \/ InsertDeploymentID(v) \/ InsertDERPMeshKey(v)
                                \/ InsertOrUpdateLastUpdateCheck(v)

LicenseStep == \/ \E v \in Values, exp \in Expiries : InsertLicense(v, exp)
               \/ \E id \in IDs : DeleteLicense(id)

ReplicaStep ==
    \/ \E id \in IDs, t \in Times : InsertReplica(id, t) \/ \E s \in BOOLEAN : UpdateReplica(id, t, s)
    \/ \E t \in Times : DeleteReplicasUpdatedBefore(t)

AuditStep == \E id \in IDs, t \in Times, u \in Users, k \in Kinds, target \in Values :
                InsertAuditLog(id, t, u, k, target)

SiteNext == /\ Called
            /\ UNCHANGED focus
            /\ \/ focus = "config" /\ ConfigStep
               \/ focus = "license" /\ LicenseStep
               \/ focus = "replica" /\ ReplicaStep
               \/ focus = "audit" /\ AuditStep

\* In every state the fake's answers about the site are ones Postgres could
\* give; the audit log's order and its filter by target are left aside.
SiteQueriesAgree ==
    /\ GetDeploymentID # "" => GetDeploymentID \in SQL!GetDeploymentID
    /\ GetDERPMeshKey # "" => GetDERPMeshKey \in SQL!GetDERPMeshKey
    /\ GetLastUpdateCheck \in SQL!GetLastUpdateCheck
    /\ SortedRows(GetLicenses, SQL!GetLicenses, SQL!LicenseBefore)
    /\ SortedRows(GetUnexpiredLicenses, SQL!GetUnexpiredLicenses, SQL!LicenseBefore)
    /\ \A t \in Times : SameRows(GetReplicasUpdatedAfter(t), SQL!GetReplicasUpdatedAfter(t))
    /\ \A q \in [kind : {""} \cup Kinds, target : {""},
                 username : {""} \cup {NameOf[u] : u \in Users},
                 from : {0} \cup Times, to : {0} \cup Times] :
          SameRows(GetAuditLogsOffset(q, 0, MaxCalls), SQL!GetAuditLogsOffset(q))

=============================================================================
