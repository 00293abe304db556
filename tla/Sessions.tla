------------------------------ MODULE Sessions ------------------------------
(***************************************************************************)
(* API keys: how a login mints one (postLogin, oauthLogin, createAPIKey),  *)
(* how the middleware ExtractAPIKey authenticates a request with one and   *)
(* prolongs it, and what ends one: logout, a new password, an              *)
(* administrator, time.                                                    *)
(*                                                                         *)
(* The middleware reads and writes the database in separate statements, so *)
(* every one of them is a step of its own; a handler's step follows the    *)
(* middleware's.  Time is in hours.  A request that is refused goes back   *)
(* to Idle without a trace.                                                *)
(***************************************************************************)
EXTENDS Integers, FiniteSets

CONSTANTS
    PasswordUsers,   \* users of login type password
    OIDCUsers,       \* users of login type oidc (github goes the same way)
    Populations,     \* the sets of users to look at together
    Requests,        \* requests in flight
    MaxKeys,         \* bounds the keys ever minted
    MaxTime,         \* bounds the clock
    MaxPassword,     \* bounds the changes of a password
    Day,             \* life of a login's key: never prolonged
    Week,            \* life of a CLI key: prolonged when used
    Century,         \* life of a token
    TokenLife        \* life of the provider's access token

Keys == 1 .. MaxKeys

VARIABLES
    user,      \* users: status, deleted, and the version of the password
    key,       \* api_keys; gone keys and unused ids are told apart
    link,      \* user_links: when the provider's access token expires
    now,
    req        \* where each request is, and the variables it holds

Users == DOMAIN user

vars == <<user, key, link, now, req>>

Idle == [at |-> "idle", user |-> "none", key |-> 0, t |-> 0, exp |-> 0,
         lexp |-> 0, used |-> 0, changed |-> FALSE, pw |-> 0, barred |-> FALSE]

Unused == [state |-> "unused", user |-> "none", login |-> "none", exp |-> 0, life |-> 0,
           used |-> 0, made |-> 0, pw |-> 0, proved |-> 0]

TypeOK ==
    /\ \A u \in Users : /\ user[u].status \in {"active", "suspended"}
                        /\ user[u].deleted \in BOOLEAN
                        /\ user[u].pw \in 0 .. MaxPassword
    /\ \A k \in Keys : /\ key[k].state \in {"unused", "live", "gone"}
                       /\ key[k].state # "unused" => key[k].user \in Users
    /\ \A r \in Requests : req[r].at # "idle" => req[r].user \in Users
    /\ now \in 2 .. MaxTime

Init ==
    /\ \E us \in Populations : user = [u \in us |-> [status |-> "active", deleted |-> FALSE, pw |-> 0]]
    /\ key = [k \in Keys |-> Unused]
    /\ link = [u \in OIDCUsers |-> 0]
    /\ now = 2
    /\ req = [r \in Requests |-> Idle]

----------------------------------------------------------------------------
(* Logging in.                                                             *)

\* postLogin: the user is read, and password, login type and status are looked at.
postLogin(r) ==
    \E u \in Users \cap PasswordUsers :
        /\ req[r].at = "idle"
        /\ ~user[u].deleted
        /\ user[u].status = "active"
        /\ req' = [req EXCEPT ![r] = [Idle EXCEPT !.at = "mint", !.user = u, !.pw = user[u].pw]]
        /\ UNCHANGED <<user, key, link, now>>

\* oauthLogin of a linked user: one transaction, which does not look at the status.
oauthLogin(r) ==
    \E u \in Users \cap OIDCUsers :
        /\ req[r].at = "idle"
        /\ ~user[u].deleted
        /\ link' = [link EXCEPT ![u] = now + TokenLife]
        /\ req' = [req EXCEPT ![r] = [Idle EXCEPT !.at = "mint", !.user = u]]
        /\ UNCHANGED <<user, key, now>>

\* createAPIKey: a fresh id and secret, inserted in a statement of its own.
createAPIKey(u, login, life, proved) ==
    \E k \in Keys :
        /\ key[k].state = "unused"
        /\ \A j \in Keys : key[j].state = "unused" => k <= j
        /\ key' = [key EXCEPT ![k] =
                     [state |-> "live", user |-> u, login |-> login, exp |-> now + (IF life = 0 THEN Day ELSE life),
                      life |-> life, used |-> 0, made |-> now, pw |-> user[u].pw, proved |-> proved]]

\* The login's last step.
Mint(r) ==
    /\ req[r].at = "mint"
    /\ createAPIKey(req[r].user, IF req[r].user \in OIDCUsers THEN "oidc" ELSE "password", 0, req[r].pw)
    /\ req' = [req EXCEPT ![r] = Idle]
    /\ UNCHANGED <<user, link, now>>

----------------------------------------------------------------------------
(* ExtractAPIKey.                                                          *)

Enter(r, q) == req' = [req EXCEPT ![r] = q]

\* Mutant of Prolonged: the default of a day takes the place of no lifetime.
ProlongedByDay(q, k) ==
    LET life == IF k.life = 0 THEN Day ELSE k.life
    IN  IF q.exp - q.t <= life - 1 THEN q.t + life ELSE q.exp

\* "We extend the ExpiresAt to reduce re-authentication": an hour or more of the
\* lifetime is gone.  A login's key has no lifetime.
Prolonged(q, k) == IF q.exp - q.t <= k.life - 1 THEN q.t + k.life ELSE q.exp

\* The decisions between the reads and the writes.
Decided(q) ==
    LET k == key[q.key]
        stale == q.t - k.used > 1
    IN  IF q.exp < q.t THEN Idle
        ELSE LET exp == Prolonged(q, k)
                 changed == q.changed \/ stale \/ exp # q.exp \/ q.exp - q.t <= k.life - 1
             IN  [q EXCEPT !.exp = exp, !.used = IF stale THEN q.t ELSE k.used, !.changed = changed,
                           !.at = IF changed THEN "update" ELSE "roles"]

\* GetAPIKeyByID and the comparison of the secret; a deleted key is refused.
ExtractAPIKey(r, k) ==
    /\ req[r].at = "idle"
    /\ key[k].state = "live"
    /\ LET q == [Idle EXCEPT !.user = key[k].user, !.key = k, !.t = now, !.exp = key[k].exp,
                             !.barred = user[key[k].user].status # "active"]
       IN  Enter(r, IF key[k].login = "oidc" THEN [q EXCEPT !.at = "link"] ELSE Decided(q))
    /\ UNCHANGED <<user, key, link, now>>

\* GetUserLinkByUserIDLoginType; an expired token is refreshed first.
ReadLink(r) ==
    /\ req[r].at = "link"
    /\ LET q == [req[r] EXCEPT !.lexp = link[req[r].user]]
       IN  Enter(r, IF q.lexp < q.t THEN [q EXCEPT !.at = "refresh"] ELSE Decided(q))
    /\ UNCHANGED <<user, key, link, now>>

\* TokenSource(...).Token(): the provider issues a new token, or refuses.  The key
\* lives as long as the token.
Refresh(r) ==
    /\ req[r].at = "refresh"
    /\ \/ Enter(r, Decided([req[r] EXCEPT !.lexp = now + TokenLife, !.exp = now + TokenLife, !.changed = TRUE]))
       \/ Enter(r, Idle)
    /\ UNCHANGED <<user, key, link, now>>

\* Mutant of UpdateAPIKeyByID: a key that is gone is written again.
UpsertAPIKey(r) == [key EXCEPT ![req[r].key].exp = req[r].exp, ![req[r].key].used = req[r].used,
                               ![req[r].key].state = "live"]

\* An UPDATE by id: without a row it changes nothing, and says nothing.
UpdateAPIKeyByID(r) ==
    IF key[req[r].key].state = "live"
    THEN [key EXCEPT ![req[r].key].exp = req[r].exp, ![req[r].key].used = req[r].used]
    ELSE key

WriteKey(r) ==
    /\ req[r].at = "update"
    /\ key' = UpdateAPIKeyByID(r)
    /\ Enter(r, [req[r] EXCEPT !.at = IF req[r].user \in OIDCUsers /\ key[req[r].key].login = "oidc"
                                      THEN "linkup" ELSE "roles"])
    /\ UNCHANGED <<user, link, now>>

\* UpdateUserLink with what was read or refreshed (and UpdateUserLastSeenAt).
WriteLink(r) ==
    /\ req[r].at = "linkup"
    /\ link' = [link EXCEPT ![req[r].user] = req[r].lexp]
    /\ Enter(r, [req[r] EXCEPT !.at = "roles"])
    /\ UNCHANGED <<user, key, now>>

\* Mutant of Admitted: the status is left to the login.
AdmittedAnyway(r) == TRUE

\* GetAuthorizationUserRoles: only the status counts; a deleted user has one too.
Admitted(r) == user[req[r].user].status = "active"

ReadRoles(r) ==
    /\ req[r].at = "roles"
    /\ Enter(r, IF Admitted(r) THEN [req[r] EXCEPT !.at = "serve"] ELSE Idle)
    /\ UNCHANGED <<user, key, link, now>>

----------------------------------------------------------------------------
(* The handlers behind it: any of them may be the one the request is for.  *)

Delete(ks) == key' = [k \in Keys |-> IF k \in ks /\ key[k].state = "live" THEN [key[k] EXCEPT !.state = "gone"] ELSE key[k]]

\* Any other handler.
Serve(r) ==
    /\ req[r].at = "serve"
    /\ Enter(r, Idle)
    /\ UNCHANGED <<user, key, link, now>>

\* postLogout: the request's own key.
postLogout(r) ==
    /\ req[r].at = "serve"
    /\ Delete({req[r].key})
    /\ Enter(r, Idle)
    /\ UNCHANGED <<user, link, now>>

\* deleteAPIKey: whatever key the URL names; only the user in the URL is authorized.
deleteAPIKey(r, k) ==
    /\ req[r].at = "serve"
    /\ key[k].state = "live"
    /\ Delete({k})
    /\ Enter(r, Idle)
    /\ UNCHANGED <<user, link, now>>

\* postToken: "tokens last 100 years".
postToken(r) ==
    /\ req[r].at = "serve"
    /\ createAPIKey(req[r].user, "token", Century, user[req[r].user].pw)
    /\ Enter(r, Idle)
    /\ UNCHANGED <<user, link, now>>

\* postAPIKey: ExtractUserParam reads the user, deleted or not.
postAPIKey(r) ==
    /\ req[r].at = "serve"
    /\ createAPIKey(req[r].user, "password", Week, user[req[r].user].pw)
    /\ Enter(r, Idle)
    /\ UNCHANGED <<user, link, now>>

\* putUserPassword compares the old password with the row ExtractUserParam read.
ComparePassword(r) ==
    /\ req[r].at = "serve"
    /\ Enter(r, [req[r] EXCEPT !.at = "change", !.pw = user[req[r].user].pw])
    /\ UNCHANGED <<user, key, link, now>>

\* Mutant of putUserPassword: the session that asked for the change is kept.
KeepOwnSession(r) ==
    /\ req[r].at = "change"
    /\ user[req[r].user].pw < MaxPassword
    /\ user' = [user EXCEPT ![req[r].user].pw = @ + 1]
    /\ Delete({k \in Keys : key[k].user = req[r].user} \ {req[r].key})
    /\ Enter(r, Idle)
    /\ UNCHANGED <<link, now>>

\* Its transaction: the new password, and every key of the user deleted.
putUserPassword(r) ==
    /\ req[r].at = "change"
    /\ user[req[r].user].pw < MaxPassword
    /\ user' = [user EXCEPT ![req[r].user].pw = @ + 1]
    /\ Delete({k \in Keys : key[k].user = req[r].user})
    /\ Enter(r, Idle)
    /\ UNCHANGED <<link, now>>

\* putUserStatus by an administrator.
putUserStatus(u, status) ==
    /\ user[u].status # status
    /\ user' = [user EXCEPT ![u].status = status]
    /\ req' = [r \in Requests |-> IF req[r].user = u /\ status = "active" THEN [req[r] EXCEPT !.barred = FALSE] ELSE req[r]]
    /\ UNCHANGED <<key, link, now>>

\* deleteUser by an administrator: a flag in the row; the keys stay.
deleteUser(u) ==
    /\ ~user[u].deleted
    /\ user' = [user EXCEPT ![u].deleted = TRUE]
    /\ UNCHANGED <<key, link, now, req>>

Tick ==
    /\ now < MaxTime
    /\ now' = now + 1
    /\ UNCHANGED <<user, key, link, req>>

Next ==
    \/ \E r \in Requests :
        \/ postLogin(r) \/ oauthLogin(r) \/ Mint(r)
        \/ \E k \in Keys : ExtractAPIKey(r, k) \/ deleteAPIKey(r, k)
        \/ ReadLink(r) \/ Refresh(r) \/ WriteKey(r) \/ WriteLink(r) \/ ReadRoles(r)
        \/ Serve(r) \/ postLogout(r) \/ postAPIKey(r) \/ postToken(r)
        \/ ComparePassword(r) \/ putUserPassword(r)
    \/ \E u \in Users : \/ \E status \in {"active", "suspended"} : putUserStatus(u, status)
                        \/ deleteUser(u)
    \/ Tick

Spec == Init /\ [][Next]_vars

----------------------------------------------------------------------------
(* A request that began while its user was suspended, and since when the   *)
(* user was not reactivated, is not served, whatever its key went through: *)
(* not by a refresh of the provider's token, nor with a key minted by an   *)
(* oauthLogin, which does not look at the status.                          *)
SuspendedNotServed == \A r \in Requests : req[r].at \in {"serve", "change"} => ~req[r].barred

(* A key that was deleted, by logout or by a new password, stays deleted,  *)
(* though a request that read it before writes it back afterwards.         *)
StaysRevoked == \A k \in Keys : key[k].state = "gone" => key'[k].state = "gone"
RevokedStaysRevoked == [][StaysRevoked]_vars

(* No key is older than its user's password: putUserPassword ends every    *)
(* session, the one that asked for it and the tokens included.             *)
KeysYoungerThanPassword == \A k \in Keys : key[k].state = "live" => key[k].pw = user[key[k].user].pw

(* The key of a password login lives for a day from the login, however     *)
(* often it is used meanwhile: prolonging is for keys with a lifetime.     *)
LoginsLastADay ==
    \A k \in Keys : key[k].state = "live" /\ key[k].login = "password" /\ key[k].life = 0 => key[k].exp = key[k].made + Day

(* Changing the password deletes the keys got with the old one             *)
(* (ChangingPasswordDeletesKeys in coderd/users_test.go).  A login that    *)
(* compared the old password before the change inserts its key after it.   *)
OldPasswordOpensNothing ==
    \A k \in Keys : key[k].state = "live" /\ key[k].login = "password" => key[k].proved = user[key[k].user].pw
=============================================================================
