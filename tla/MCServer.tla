---------------------------- MODULE MCServer ----------------------------
(***************************************************************************)
(* What the server handles at the same time, for each of its components: a *)
(* behaviour is of one of them.  WorkspaceBuilds stays as it begins in the *)
(* behaviours of the others, whose variables are unused in its own.        *)
(***************************************************************************)
EXTENDS WorkspaceBuilds, TLC

VARIABLES
    part,   \* which component the behaviour is of
    user, key_sessions, link_sessions, now_sessions, req_sessions, users, orgs, links, mail, moves,
    req_signup, site, admin, inGroup, userACL, groupACL, granted, changes, req_roles, template,
    version, job_templates, dryRun, values, workspace, req_templates, calls, conf, key_apps, session,
    appCookie, page, now_apps, cost, deleted_quota, budget, job_quota, lost, peers, call, active,
    loops, closed, entry, pty, conn, config, link_gitauths, issued, expired, revoked, refreshed, ask,
    login, dropped, faults

CONSTANTS
    PasswordUsers, OIDCUsers, Populations, SessionRequests, MaxKeys, SessionTime, MaxPassword,
    Day, Week, Century, TokenLife,
    Names, Emails, Identities, SignupRequests, MaxUsers, MaxMoves,
    RoleUsers, Orgs, Member, FirstOwner, FirstAdmin, TemplateOrg, Group, RoleRequests, MaxChanges,
    TemplateNames, TemplateRequests, MaxTemplates, MaxVersions, MaxDryRuns, MaxWorkspaces, MaxCalls,
    AppUsers, Owner, MaxAppKeys, AppTime, Minute, AppDay,
    QuotaWorkspaces, Costs, Allowances, MaxQuotaBuilds, MaxLost,
    Addresses, Calls,
    Conns, MaxPTYs, MaxOutput, BufferSize,
    Asks, Logins, Casts, MaxTokens, MaxFaults

\* For TLC: whatever there are two of, requests, names, replicas, executors or connections,
\* and the organizations of the users, the member in both.
CONSTANTS one, other
Symmetry == Permutations({one, other})
InOrgs == [u \in {"own", "adm", "mem"} |-> IF u = "mem" THEN {"o1", "o2"} ELSE {"o1"}]

\* Requests with the keys of users with a password, or of users of an OpenID provider.
S == INSTANCE Sessions WITH
        Requests <- SessionRequests, MaxTime <- SessionTime,
        key <- key_sessions, link <- link_sessions, now <- now_sessions, req <- req_sessions

\* Requests that make or rename accounts.
U == INSTANCE Signup WITH Requests <- SignupRequests, req <- req_signup

\* Requests that change the roles of an owner, a user admin and members.
R == INSTANCE Roles WITH Users <- RoleUsers, Requests <- RoleRequests, req <- req_roles

\* Requests on templates and their versions.
T == INSTANCE Templates WITH
        Names <- TemplateNames, Requests <- TemplateRequests, job <- job_templates, req <- req_templates

\* A browser that users take turns at.
A == INSTANCE WorkspaceApps WITH
        Users <- AppUsers, MaxKeys <- MaxAppKeys, MaxTime <- AppTime, Day <- AppDay,
        key <- key_apps, now <- now_apps

\* The builds of a user's workspaces.
Q == INSTANCE Quota WITH
        Workspaces <- QuotaWorkspaces, MaxBuilds <- MaxQuotaBuilds, deleted <- deleted_quota, job <- job_quota

\* Calls of SetAddresses, and connections to one reconnecting PTY.
M == INSTANCE DerpMesh
P == INSTANCE ReconnectingPTY

\* Git commands and logins.
G == INSTANCE GitAuth WITH link <- link_gitauths

\* The variables of each component, and all.
varsS == <<user, key_sessions, link_sessions, now_sessions, req_sessions>>
varsU == <<users, orgs, links, mail, moves, req_signup>>
varsR == <<site, admin, inGroup, userACL, groupACL, granted, changes, req_roles>>
varsT == <<template, version, job_templates, dryRun, values, workspace, req_templates, calls>>
varsA == <<conf, key_apps, session, appCookie, page, now_apps>>
varsQ == <<cost, deleted_quota, budget, job_quota, lost>>
varsM == <<peers, call, active, loops, closed>>
varsP == <<entry, pty, conn>>
varsG == <<config, link_gitauths, issued, expired, revoked, refreshed, ask, login, dropped, faults>>
serverVars == <<part, vars, varsS, varsU, varsR, varsT, varsA, varsQ, varsM, varsP, varsG>>

\* The variables of a component in the behaviours of the others.
Unused == "unused"
UnusedS == /\ user = Unused /\ key_sessions = Unused /\ link_sessions = Unused
           /\ now_sessions = Unused /\ req_sessions = Unused
UnusedU == /\ users = Unused /\ orgs = Unused /\ links = Unused /\ mail = Unused /\ moves = Unused
           /\ req_signup = Unused
UnusedR == /\ site = Unused /\ admin = Unused /\ inGroup = Unused /\ userACL = Unused
           /\ groupACL = Unused /\ granted = Unused /\ changes = Unused /\ req_roles = Unused
UnusedT == /\ template = Unused /\ version = Unused /\ job_templates = Unused /\ dryRun = Unused
           /\ values = Unused /\ workspace = Unused /\ req_templates = Unused /\ calls = Unused
UnusedA == /\ conf = Unused /\ key_apps = Unused /\ session = Unused /\ appCookie = Unused
           /\ page = Unused /\ now_apps = Unused
UnusedQ == /\ cost = Unused /\ deleted_quota = Unused /\ budget = Unused /\ job_quota = Unused
           /\ lost = Unused
UnusedM == /\ peers = Unused /\ call = Unused /\ active = Unused /\ loops = Unused
           /\ closed = Unused
UnusedP == /\ entry = Unused /\ pty = Unused /\ conn = Unused
UnusedG == /\ config = Unused /\ link_gitauths = Unused /\ issued = Unused /\ expired = Unused
           /\ revoked = Unused /\ refreshed = Unused /\ ask = Unused /\ login = Unused
           /\ dropped = Unused /\ faults = Unused

ServerInit ==
    /\ Init
    /\ \/ /\ part = "builds"
          /\ UnusedS /\ UnusedU /\ UnusedR /\ UnusedT /\ UnusedA /\ UnusedQ /\ UnusedM /\ UnusedP
          /\ UnusedG
       \/ /\ part = "sessions" /\ S!Init
          /\ UnusedU /\ UnusedR /\ UnusedT /\ UnusedA /\ UnusedQ /\ UnusedM /\ UnusedP /\ UnusedG
       \/ /\ part = "signup" /\ U!Init
          /\ UnusedS /\ UnusedR /\ UnusedT /\ UnusedA /\ UnusedQ /\ UnusedM /\ UnusedP /\ UnusedG
       \/ /\ part = "roles" /\ R!Init
          /\ UnusedS /\ UnusedU /\ UnusedT /\ UnusedA /\ UnusedQ /\ UnusedM /\ UnusedP /\ UnusedG
       \/ /\ part = "templates" /\ T!Init
          /\ UnusedS /\ UnusedU /\ UnusedR /\ UnusedA /\ UnusedQ /\ UnusedM /\ UnusedP /\ UnusedG
       \/ /\ part = "apps" /\ A!Init
          /\ UnusedS /\ UnusedU /\ UnusedR /\ UnusedT /\ UnusedQ /\ UnusedM /\ UnusedP /\ UnusedG
       \/ /\ part = "quota" /\ Q!Init
          /\ UnusedS /\ UnusedU /\ UnusedR /\ UnusedT /\ UnusedA /\ UnusedM /\ UnusedP /\ UnusedG
       \/ /\ part = "mesh" /\ M!Init
          /\ UnusedS /\ UnusedU /\ UnusedR /\ UnusedT /\ UnusedA /\ UnusedQ /\ UnusedP /\ UnusedG
       \/ /\ part = "ptys" /\ P!Init
          /\ UnusedS /\ UnusedU /\ UnusedR /\ UnusedT /\ UnusedA /\ UnusedQ /\ UnusedM /\ UnusedG
       \/ /\ part = "gitauths" /\ G!Init
          /\ UnusedS /\ UnusedU /\ UnusedR /\ UnusedT /\ UnusedA /\ UnusedQ /\ UnusedM /\ UnusedP

ServerNext ==
    \/ part = "builds" /\ Next /\ UNCHANGED <<part, varsS, varsU, varsR, varsT, varsA, varsQ, varsM, varsP, varsG>>
    \/ part = "sessions" /\ S!Next /\ UNCHANGED <<part, vars, varsU, varsR, varsT, varsA, varsQ, varsM, varsP, varsG>>
    \/ part = "signup" /\ U!Next /\ UNCHANGED <<part, vars, varsS, varsR, varsT, varsA, varsQ, varsM, varsP, varsG>>
    \/ part = "roles" /\ R!Next /\ UNCHANGED <<part, vars, varsS, varsU, varsT, varsA, varsQ, varsM, varsP, varsG>>
    \/ part = "templates" /\ T!Next /\ UNCHANGED <<part, vars, varsS, varsU, varsR, varsA, varsQ, varsM, varsP, varsG>>
    \/ part = "apps" /\ A!Next /\ UNCHANGED <<part, vars, varsS, varsU, varsR, varsT, varsQ, varsM, varsP, varsG>>
    \/ part = "quota" /\ Q!Next /\ UNCHANGED <<part, vars, varsS, varsU, varsR, varsT, varsA, varsM, varsP, varsG>>
    \/ part = "mesh" /\ M!Next /\ UNCHANGED <<part, vars, varsS, varsU, varsR, varsT, varsA, varsQ, varsP, varsG>>
    \/ part = "ptys" /\ P!Next /\ UNCHANGED <<part, vars, varsS, varsU, varsR, varsT, varsA, varsQ, varsM, varsG>>
    \/ part = "gitauths" /\ G!Next /\ UNCHANGED <<part, vars, varsS, varsU, varsR, varsT, varsA, varsQ, varsM, varsP>>

ServerSpec == ServerInit /\ [][ServerNext]_serverVars

-----------------------------------------------------------------------------

\* Who may do what and how much of it, however requests, suspensions and changes of roles interleave.
AccessSafe ==
    \* A request that began while its user was suspended is not served, whatever its key went
    \* through; no key is older than its user's password; the key of a password login lives
    \* for a day, however often it is used.
    /\ part = "sessions" => /\ S!TypeOK
                            /\ S!SuspendedNotServed /\ S!KeysYoungerThanPassword /\ S!LoginsLastADay
    \* No two users that are not deleted share a name or an e-mail, and only an account that
    \* signed up through the provider is ever linked to an identity.
    /\ part = "signup" => U!TypeOK /\ U!NamesUnique /\ U!LinksMatchLoginType
    \* A role comes from someone who may assign it, and a list has what Authorize allows its
    \* members one by one.
    /\ part = "roles" => R!TypeOK /\ R!RolesWereGranted /\ R!FilterAgrees
    \* An application is shown to those it is shared with; its keys are made with a full
    \* session only; the hosts do not send the browser back and forth.
    /\ part = "apps" => /\ A!TypeOK
                        /\ A!SharedAsConfigured /\ A!AppKeysFromSessions /\ A!RedirectsEnd
    /\ part = "quota" => Q!TypeOK

\* What several requests or goroutines keep together stays consistent.
ServerSafe ==
    \* Templates that are not deleted have different names, an active version belongs to its
    \* template, and nothing is built from a version whose import is still to come.
    /\ part = "templates" => /\ T!TypeOK
                             /\ T!TemplateNamesUnique /\ T!ActiveVersionBelongs /\ T!BuiltOnImported
    \* An address has one connection loop at most, one that active knows of, and none once
    \* the mesh is closed.
    /\ part = "mesh" => M!TypeOK /\ M!OneLoopEach /\ M!ClosedIsQuiet
    \* The map never holds a PTY that was cleaned up; who starts a PTY sees all of its output
    \* and is closed with it.
    /\ part = "ptys" => P!TypeOK /\ P!NoDeadEntry /\ P!CreatorMissesNothing /\ P!CreatorIsClosed
    \* The stored token can be refreshed, or the request that used it will store the new one,
    \* or ended without doing so.
    /\ part = "gitauths" => G!TypeOK /\ G!LinkRefreshable

\* A key that was deleted stays deleted, though a request that read it before writes it back
\* afterwards.  Two builds of one user that commit at the same time cannot both take the
\* last credits.
ServerSteps ==
    [][/\ part = "sessions" => S!StaysRevoked
       /\ part = "quota" => Q!WithinBudget]_serverVars
=============================================================================
