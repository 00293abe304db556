--------------------------- MODULE WorkspaceApps ---------------------------
(***************************************************************************)
(* Opening a workspace application in a browser (coderd/workspaceapps.go). *)
(*                                                                         *)
(* An application has a host name of its own, to which the browser does    *)
(* not send the dashboard's session cookie.  The application's host sends  *)
(* the browser to the dashboard, which makes a key that is good for        *)
(* applications only, and sends it back with that key in the query; there  *)
(* the key becomes a cookie.  The actions are requests of one browser.     *)
(***************************************************************************)
EXTENDS Naturals, FiniteSets

CONSTANTS
    Users, Owner,    \* the workspace is Owner's
    MaxKeys,
    MaxTime,
    Minute,          \* life of a key in a query
    Day              \* life of a session

KeyIDs == 1 .. MaxKeys
None == 0
Nobody == "nobody"

VARIABLES
    conf,       \* the application: sharing level, URL, whether the hosts share a domain
    key,        \* api_keys
    session,    \* the session cookie: a key
    appCookie,  \* the cookie for application hosts: a key
    page,       \* where the browser is, with the key and its limit in the query
    now

vars == <<conf, key, session, appCookie, page, now>>

NoKey == [state |-> "none", user |-> Nobody, scope |-> "all", expires |-> 0, from |-> None]
Levels == {"owner", "authenticated", "public"}
Final == {"blank", "app shown", "not found", "bad request", "bad gateway", "login"}
Places == Final \cup {"subdomain", "path", "auth redirect", "proxy"}
At(p) == [at |-> p, param |-> None, until |-> 0, as |-> Nobody, slash |-> TRUE, hops |-> 0]

TypeOK ==
    /\ conf \in [level : Levels, url : {"none", "reserved port", "set"}, sameDomain : BOOLEAN]
    /\ \A k \in KeyIDs : key[k].state \in {"none", "live", "deleted"} /\ key[k].scope \in {"all", "application_connect"}
    /\ session \in KeyIDs \cup {None} /\ appCookie \in KeyIDs \cup {None}
    /\ page.at \in Places
    /\ now \in 0 .. MaxTime

Init ==
    /\ conf \in [level : Levels, url : {"none", "reserved port", "set"}, sameDomain : BOOLEAN]
    /\ key = [k \in KeyIDs |-> NoKey]
    /\ session = None /\ appCookie = None
    /\ page = At("blank")
    /\ now = 0

----------------------------------------------------------------------------
(* Keys.                                                                   *)

NewKey == LET free == {k \in KeyIDs : key[k].state = "none"}
          IN  IF free = {} THEN {} ELSE {CHOOSE k \in free : \A l \in free : k <= l}

\* ExtractAPIKey, optional: a key that is gone or expired is as good as none.
Valid(k) == k # None /\ key[k].state = "live" /\ key[k].expires >= now
UserOf(k) == IF Valid(k) THEN key[k].user ELSE Nobody

\* apiTokenFromRequest, by the host that is asked: the first cookie there is, valid or
\* not.
TokenAt(host) ==
    CASE host = "app" -> appCookie
      [] host = "dashboard" -> IF session # None THEN session ELSE IF conf.sameDomain THEN appCookie ELSE None

postLogin(u) ==
    /\ session = None /\ page.at \in {"blank", "login"}
    /\ \E k \in NewKey :
        /\ key' = [key EXCEPT ![k] = [state |-> "live", user |-> u, scope |-> "all", expires |-> now + Day, from |-> None]]
        /\ session' = k
    /\ UNCHANGED <<conf, appCookie, page, now>>

\* postLogout: the key, and the application's if the browser sends that one, too.
postLogout ==
    /\ Valid(session)
    /\ session' = None
    /\ appCookie' = IF conf.sameDomain THEN None ELSE appCookie
    /\ key' = [k \in KeyIDs |-> IF k = session \/ (conf.sameDomain /\ k = appCookie)
                                THEN [key[k] EXCEPT !.state = IF @ = "live" THEN "deleted" ELSE @] ELSE key[k]]
    /\ UNCHANGED <<conf, page, now>>

Tick ==
    /\ now < MaxTime
    /\ now' = now + 1
    /\ UNCHANGED <<conf, key, session, appCookie, page>>

----------------------------------------------------------------------------
(* Requests.                                                               *)

\* The browser is sent to p; hops counts the pages since the user's own request.
Sent(p) == page' = [p EXCEPT !.hops = IF p.at \in Final THEN 0 ELSE page.hops + 1]
Goto(p) == Sent(p) /\ UNCHANGED <<conf, key, session, appCookie, now>>

\* Mutant of authorizeWorkspaceApp: sharing with everybody who is signed in is taken
\* for sharing with everybody.
AuthorizeAnybody(k) ==
    \/ conf.level \in {"authenticated", "public"}
    \/ UserOf(k) = Owner

\* authorizeWorkspaceApp: the owner's role covers the owner's applications, whatever
\* the scope of the key; both scopes may connect to one's own.
authorizeWorkspaceApp(k) ==
    \/ conf.level = "public"
    \/ UserOf(k) = Owner
    \/ conf.level = "authenticated" /\ UserOf(k) # Nobody

\* The user types in the application's address, or one found in the history.
Visit(p) ==
    /\ page.at \in Final
    /\ \E slash \in BOOLEAN : Goto([At(p) EXCEPT !.slash = slash \/ p # "path"])

\* workspaceAppsProxyPath, on the dashboard's host.
workspaceAppsProxyPath ==
    LET k == TokenAt("dashboard") IN
    /\ page.at = "path"
    /\ Goto(IF authorizeWorkspaceApp(k) THEN [page EXCEPT !.at = "proxy", !.as = UserOf(k)]
            ELSE IF Valid(k) THEN At("not found") ELSE At("login"))

\* handleSubdomainApplications with verifyWorkspaceApplicationSubdomainAuth
Subdomain ==
    LET k == TokenAt("app") IN
    /\ page.at = "subdomain"
    /\ authorizeWorkspaceApp(k) \/ Valid(k) \/ page.param = None
    /\ Goto(IF authorizeWorkspaceApp(k) THEN [page EXCEPT !.at = "proxy", !.as = UserOf(k)]
            ELSE IF Valid(k) THEN At("not found") ELSE At("auth redirect"))

\* decryptAPIKey: the key is looked up, and what it encrypts must not have expired.
Decrypts(k, until) == key[k].state = "live" /\ until >= now

\* Mutant of TakeParameter: the cookie is not set.
StripParameter ==
    LET k == page.param IN
    /\ page.at = "subdomain" /\ k # None
    /\ ~authorizeWorkspaceApp(TokenAt("app")) /\ ~Valid(TokenAt("app"))
    /\ Sent(IF Decrypts(k, page.until) THEN At("subdomain") ELSE At("bad request"))
    /\ UNCHANGED <<conf, key, session, appCookie, now>>

\* The key in the query becomes the cookie, and the query is stripped.
TakeParameter ==
    LET k == page.param IN
    /\ page.at = "subdomain" /\ k # None
    /\ ~authorizeWorkspaceApp(TokenAt("app")) /\ ~Valid(TokenAt("app"))
    /\ IF Decrypts(k, page.until)
       THEN appCookie' = k /\ Sent(At("subdomain"))
       ELSE UNCHANGED appCookie /\ Sent(At("bad request"))
    /\ UNCHANGED <<conf, key, session, now>>

\* Mutant of MayMakeKey: whoever is signed in.
MayMakeKeyAnyway(k) == Valid(k)

\* "Create" on API keys is not in the scope of keys for applications.
MayMakeKey(k) == Valid(k) /\ key[k].scope = "all"

\* workspaceApplicationAuth: a key that lasts as long as the session as it is now.
workspaceApplicationAuth ==
    LET k == TokenAt("dashboard") IN
    /\ page.at = "auth redirect"
    /\ IF MayMakeKey(k)
       THEN \E n \in NewKey :
            /\ key' = [key EXCEPT ![n] = [state |-> "live", user |-> key[k].user, scope |-> "application_connect",
                                          expires |-> key[k].expires, from |-> k]]
            /\ Sent([At("subdomain") EXCEPT !.param = n, !.until = now + Minute])
       ELSE /\ Sent(IF Valid(k) THEN At("not found") ELSE At("login"))
            /\ UNCHANGED key
    /\ UNCHANGED <<conf, session, appCookie, now>>

\* proxyWorkspaceApplication: authorized once more, for the same key; then the URL, the
\* port and the path are looked at, and the agent is dialed.
proxyWorkspaceApplication ==
    /\ page.at = "proxy"
    /\ \/ conf.url # "set" /\ Goto(At("bad request"))
       \/ conf.url = "set" /\ ~page.slash /\ Goto([At("path") EXCEPT !.slash = TRUE])
       \/ conf.url = "set" /\ page.slash /\ Goto([page EXCEPT !.at = "app shown"])
       \/ conf.url = "set" /\ page.slash /\ Goto(At("bad gateway"))

Follow ==
    \/ workspaceAppsProxyPath \/ Subdomain \/ TakeParameter
    \/ workspaceApplicationAuth \/ proxyWorkspaceApplication

Next ==
    \/ \E u \in Users : postLogin(u)
    \/ postLogout
    \/ \E p \in {"subdomain", "path", "auth redirect"} : Visit(p)
    \/ Follow
    \/ Tick

Spec == Init /\ [][Next]_vars

----------------------------------------------------------------------------
(* An application is shown to those it is shared with: to its owner, to    *)
(* whoever is signed in, or to everybody; the identity is the one that the *)
(* key brought along through the redirects has.                            *)
SharedAsConfigured ==
    page.at = "app shown" =>
        \/ conf.level = "public"
        \/ page.as = Owner
        \/ conf.level = "authenticated" /\ page.as \in Users

(* A key for applications is made with a full session only, for the user   *)
(* of that session, and lasts no longer: it does not beget others, even on *)
(* a domain where the dashboard is sent the application's cookie.          *)
AppKeysFromSessions ==
    \A k \in KeyIDs : key[k].scope = "application_connect" =>
        LET f == key[key[k].from]
        IN  f.scope = "all" /\ f.user = key[k].user /\ key[k].expires <= f.expires

(* A request of the user is answered after a handful of pages, whatever    *)
(* expires or is logged out of between them: the hosts do not send the     *)
(* browser back and forth.                                                 *)
RedirectsEnd == page.hops <= 5
=============================================================================
