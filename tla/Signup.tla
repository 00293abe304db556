------------------------------- MODULE Signup -------------------------------
(***************************************************************************)
(* How accounts come to be: the first user, a user made by an              *)
(* administrator or by SCIM, and an OAuth login that finds its account by  *)
(* the linked identity or by e-mail, or signs up (coderd/users.go,         *)
(* coderd/userauth.go, enterprise/coderd/scim.go).                         *)
(*                                                                         *)
(* Handlers look at the database first and write later, so every one has a *)
(* step that looks and a step that writes; in between, others run.  A      *)
(* transaction without options is read committed: what it read may be      *)
(* stale when it writes, and only the unique indexes of the tables stand   *)
(* between two writers.                                                    *)
(***************************************************************************)
EXTENDS Naturals, FiniteSets

CONSTANTS
    Names,        \* usernames, which also name organizations
    Emails,
    Identities,   \* accounts at the OpenID provider (the linked_id)
    Requests,
    MaxUsers,     \* bounds the users ever made
    MaxMoves      \* bounds the changes of an e-mail at the provider

UserIDs == 1 .. MaxUsers
NoUser == 0

VARIABLES
    users,     \* users; an id is "none" until it is inserted
    orgs,      \* names of the organizations
    links,     \* user_links: <<identity, user>>, all of login type oidc
    mail,      \* e-mail of each identity at the provider
    moves,
    req

vars == <<users, orgs, links, mail, moves, req>>

Idle == [at |-> "idle", name |-> "none", email |-> "none", id |-> "none", user |-> NoUser, linked |-> FALSE]

TypeOK ==
    /\ \A u \in UserIDs : users[u].state \in {"none", "live", "deleted"}
    /\ orgs \subseteq Names
    /\ links \subseteq Identities \X {u \in UserIDs : users[u].state # "none"}
    /\ mail \in [Identities -> Emails]
    /\ \A r \in Requests : req[r].at # "idle" => req[r].user \in UserIDs \cup {NoUser}

Init ==
    /\ users = [u \in UserIDs |-> [state |-> "none", name |-> "none", email |-> "none", login |-> "none", owner |-> FALSE]]
    /\ orgs = {}
    /\ links = {}
    /\ mail = [i \in Identities |-> CHOOSE e \in Emails : TRUE]
    /\ moves = 0
    /\ req = [r \in Requests |-> Idle]

----------------------------------------------------------------------------
Live == {u \in UserIDs : users[u].state = "live"}

\* GetUserByEmailOrUsername leaves out deleted users.
ByName(n) == {u \in Live : users[u].name = n}
ByEmail(e) == {u \in Live : users[u].email = e}

NextID == CHOOSE u \in UserIDs : users[u].state = "none" /\ \A v \in UserIDs : users[v].state = "none" => u <= v

\* Mutant of Insertable: the check before is all that keeps the names apart.
InsertableAnyway(n, e) == TRUE

\* The indexes users_username_lower_idx and users_email_lower_idx.
Insertable(n, e) == ByName(n) = {} /\ ByEmail(e) = {}

\* The row CreateUser inserts; no role is granted.
Inserted(n, e, login) == [users EXCEPT ![NextID] = [state |-> "live", name |-> n, email |-> e, login |-> login, owner |-> FALSE]]

\* Without an organization it makes one named after the user, which fails if there is
\* one of that name (idx_organization_name_lower).
Creatable(n, e, inOrg) == Insertable(n, e) /\ (inOrg \/ n \notin orgs)

\* CreateUser: one transaction.
CreateUser(n, e, login, inOrg) ==
    /\ \E u \in UserIDs : users[u].state = "none"
    /\ Creatable(n, e, inOrg)
    /\ orgs' = IF inOrg THEN orgs ELSE orgs \cup {n}
    /\ users' = Inserted(n, e, login)

Enter(r, q) == req' = [req EXCEPT ![r] = q]
Fail(r) == Enter(r, Idle) /\ UNCHANGED <<users, orgs, links>>

----------------------------------------------------------------------------
\* postFirstUser: only while there is no user.
CountUsers(r, n, e) ==
    /\ req[r].at = "idle"
    /\ Live = {}
    /\ Enter(r, [Idle EXCEPT !.at = "first", !.name = n, !.email = e])
    /\ UNCHANGED <<users, orgs, links, mail, moves>>

postFirstUser(r) ==
    /\ req[r].at = "first"
    /\ \/ /\ CreateUser(req[r].name, req[r].email, "password", FALSE)
          /\ Enter(r, [req[r] EXCEPT !.at = "grant", !.user = NextID])
          /\ UNCHANGED links
       \/ ~Creatable(req[r].name, req[r].email, FALSE) /\ Fail(r)
    /\ UNCHANGED <<mail, moves>>

\* UpdateUserRoles follows outside of the transaction.
GrantOwner(r) ==
    /\ req[r].at = "grant"
    /\ users' = [users EXCEPT ![req[r].user].owner = TRUE]
    /\ Enter(r, Idle)
    /\ UNCHANGED <<orgs, links, mail, moves>>

\* postUser: neither name nor e-mail is taken, and the organization exists.
CheckUser(r, n, e) ==
    /\ req[r].at = "idle"
    /\ ByName(n) \cup ByEmail(e) = {}
    /\ orgs # {}
    /\ Enter(r, [Idle EXCEPT !.at = "post", !.name = n, !.email = e])
    /\ UNCHANGED <<users, orgs, links, mail, moves>>

postUser(r) ==
    /\ req[r].at = "post"
    /\ \/ CreateUser(req[r].name, req[r].email, "password", TRUE) /\ Enter(r, Idle) /\ UNCHANGED links
       \/ ~Insertable(req[r].name, req[r].email) /\ Fail(r)
    /\ UNCHANGED <<mail, moves>>

\* scimPostUser: no look before; every user gets an organization of their own.
scimPostUser(n, e) ==
    /\ CreateUser(n, e, "oidc", FALSE)
    /\ UNCHANGED <<links, mail, moves, req>>

\* deleteUser: name and e-mail are free again; the links stay.
deleteUser(u) ==
    /\ u \in Live
    /\ users' = [users EXCEPT ![u].state = "deleted"]
    /\ UNCHANGED <<orgs, links, mail, moves, req>>

\* putUserProfile: the name is free or the user's own ...
CheckProfile(r, u, n) ==
    /\ req[r].at = "idle"
    /\ users[u].state # "none"
    /\ ByName(n) \subseteq {u}
    /\ Enter(r, [Idle EXCEPT !.at = "profile", !.user = u, !.name = n, !.email = users[u].email])
    /\ UNCHANGED <<users, orgs, links, mail, moves>>

\* The indexes, for a row that is there already.
Renamable(u, n, e) == users[u].state = "live" => (ByName(n) \cup ByEmail(e)) \subseteq {u}

\* ... and is written together with the e-mail the middleware read.
putUserProfile(r) ==
    /\ req[r].at = "profile"
    /\ LET q == req[r]
       IN  IF Renamable(q.user, q.name, q.email)
           THEN /\ users' = [users EXCEPT ![q.user].name = q.name, ![q.user].email = q.email]
                /\ Enter(r, Idle)
                /\ UNCHANGED <<orgs, links>>
           ELSE Fail(r)
    /\ UNCHANGED <<mail, moves>>

\* The handler of postOrganizations: the look and the transaction, which the index guards.
postOrganizations(n) ==
    /\ Live # {}
    /\ n \notin orgs
    /\ orgs' = orgs \cup {n}
    /\ UNCHANGED <<users, links, mail, moves, req>>

----------------------------------------------------------------------------
(* OAuth.                                                                  *)

\* findLinkedUser: by linked id, any of them if there are several; a deleted user's
\* link counts as none, and the e-mail decides.
findLinkedUser(i) ==
    LET byLink == {u \in UserIDs : <<i, u>> \in links}
        linkOf(u) == \E j \in Identities : <<j, u>> \in links
        byEmail == {[user |-> u, linked |-> linkOf(u)] : u \in ByEmail(mail[i])}
        fallback == IF byEmail = {} THEN {[user |-> NoUser, linked |-> FALSE]} ELSE byEmail
    IN  IF byLink = {} THEN fallback
        ELSE UNION {IF users[u].state = "live" THEN {[user |-> u, linked |-> TRUE]} ELSE fallback : u \in byLink}

\* Mutant of WrongLoginType: an account is an account.
WrongLoginTypeNever(u) == FALSE

\* "Incorrect login type": an account of another login type is not taken over.
WrongLoginType(u) == u # NoUser /\ users[u].login # "oidc"

\* The reads of oauthLogin's transaction; a taken username is replaced by a free one.
FindUser(r, i, n) ==
    /\ req[r].at = "idle"
    /\ \E f \in findLinkedUser(i) :
        /\ ~WrongLoginType(f.user)
        /\ f.user = NoUser => ByName(n) = {}
        /\ Enter(r, [at |-> "oauth", name |-> n, email |-> mail[i], id |-> i, user |-> f.user, linked |-> f.linked])
    /\ UNCHANGED <<users, orgs, links, mail, moves>>

\* Its writes: a new user and their link, ...
SignUp(r) ==
    /\ req[r].at = "oauth" /\ req[r].user = NoUser
    /\ \/ /\ CreateUser(req[r].name, req[r].email, "oidc", orgs # {})
          /\ links' = links \cup {<<req[r].id, NextID>>}
          /\ Enter(r, Idle)
       \/ ~Insertable(req[r].name, req[r].email) /\ Fail(r)
    /\ UNCHANGED <<mail, moves>>

\* ... or the missing link, and the e-mail if it changed.
oauthLogin(r) ==
    /\ req[r].at = "oauth" /\ req[r].user # NoUser
    /\ LET q == req[r]
       IN  IF Renamable(q.user, users[q.user].name, q.email)
           THEN /\ links' = IF q.linked THEN links ELSE links \cup {<<q.id, q.user>>}
                /\ users' = [users EXCEPT ![q.user].email = q.email]
                /\ Enter(r, Idle)
                /\ UNCHANGED orgs
           ELSE Fail(r)
    /\ UNCHANGED <<mail, moves>>

\* External: an identity gets another e-mail at the provider.
MoveMail(i, e) ==
    /\ moves < MaxMoves /\ mail[i] # e
    /\ mail' = [mail EXCEPT ![i] = e]
    /\ moves' = moves + 1
    /\ UNCHANGED <<users, orgs, links, req>>

Next ==
    \/ \E r \in Requests :
        \/ \E n \in Names, e \in Emails : CountUsers(r, n, e) \/ CheckUser(r, n, e)
        \/ \E u \in UserIDs, n \in Names : CheckProfile(r, u, n)
        \/ \E i \in Identities, n \in Names : FindUser(r, i, n)
        \/ postFirstUser(r) \/ GrantOwner(r) \/ postUser(r) \/ putUserProfile(r) \/ SignUp(r) \/ oauthLogin(r)
    \/ \E n \in Names, e \in Emails : scimPostUser(n, e)
    \/ \E n \in Names : postOrganizations(n)
    \/ \E u \in UserIDs : deleteUser(u)
    \/ \E i \in Identities, e \in Emails : MoveMail(i, e)

Spec == Init /\ [][Next]_vars

----------------------------------------------------------------------------
(* No two users that are not deleted share a name or an e-mail, though     *)
(* every handler looks before it writes and not while it does.             *)
NamesUnique ==
    \A u, v \in Live : u # v => users[u].name # users[v].name /\ users[u].email # users[v].email

(* Only an account that signed up through the provider is ever linked to   *)
(* an identity: an OAuth login does not take over an account with a        *)
(* password because it has the same e-mail.                                *)
LinksMatchLoginType == \A l \in links : users[l[2]].login = "oidc"

(* "findLinkedUser tries to find a user by their unique OAuth-linked ID":  *)
(* an identity has one account.  It can get a second one: the link of a    *)
(* deleted user is found before that of the new one, so that the e-mail    *)
(* decides, and it may have changed.                                       *)
OneAccountPerIdentity == \A i \in Identities : Cardinality({u \in Live : <<i, u>> \in links}) <= 1

(* "This should only function for the first user.": two requests that      *)
(* counted no user both make one, and an owner of it.                      *)
OneFirstUser == Cardinality({u \in UserIDs : users[u].owner}) <= 1
=============================================================================
