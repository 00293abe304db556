---------------------------- MODULE AccessProofs ----------------------------
(***************************************************************************)
(* Proofs about who may do what: sessions (Sessions), accounts (Signup),   *)
(* roles and lists (Roles, with RBAC), applications (WorkspaceApps) and    *)
(* the quota of builds (Quota), as MCServer composes them, each for any    *)
(* number of users, requests, keys and workspaces.  The components share   *)
(* nothing: each has an inductive invariant of its own, and AccessInv says *)
(* which one a behaviour of the server keeps.                              *)
(***************************************************************************)
EXTENDS MCServer, FiniteSetTheorems, SequenceTheorems, WellFoundedInduction, TLAPS

-----------------------------------------------------------------------------
(* Sessions.  Of a key that was minted only the expiry, the time of the    *)
(* last use and the state ever change, so what a request has read of it    *)
(* stays true while the request goes through the middleware (Held), and    *)
(* the one place where a request is admitted looks at the status that      *)
(* barred speaks of.                                                       *)

\* What the proofs need to know of the constants: durations and bounds are numbers.
Lives ==
    /\ Day \in Nat /\ Week \in Nat /\ Century \in Nat /\ TokenLife \in Nat
    /\ SessionTime \in Nat /\ SessionTime >= 2 /\ MaxPassword \in Nat

-----------------------------------------------------------------------------
(* Types.                                                                  *)

UserRow == [status : {"active", "suspended"}, deleted : BOOLEAN, pw : 0 .. MaxPassword]

KeyRow(us) ==
    [state : {"unused", "live", "gone"}, user : us \union {"none"},
     login : {"none", "password", "oidc", "token"}, exp : Int, life : Nat,
     used : Nat, made : Nat, pw : Nat, proved : Nat]

Request(us) ==
    [at : {"idle", "mint", "link", "refresh", "update", "linkup", "roles", "serve", "change"},
     user : us \union {"none"}, key : S!Keys \union {0}, t : Nat, exp : Int, lexp : Int,
     used : Nat, changed : BOOLEAN, pw : Nat, barred : BOOLEAN]

Typed ==
    /\ user \in [S!Users -> UserRow]
    /\ key_sessions \in [S!Keys -> KeyRow(S!Users)]
    /\ link_sessions \in [OIDCUsers -> Int]
    /\ now_sessions \in 2 .. SessionTime
    /\ req_sessions \in [SessionRequests -> Request(S!Users)]

-----------------------------------------------------------------------------
(* The inductive invariant.                                                *)

\* The key of a password login.
Daily(k) == k.login = "password" /\ k.life = 0

\* What is true of a key that was minted.
KeyOK(k, us, row) ==
    k.state # "unused" =>
        /\ k.user \in us
        /\ k.login = "oidc" => k.user \in OIDCUsers
        /\ k.state = "live" => k.pw = row.pw
        /\ k.state = "live" /\ Daily(k) => k.exp = k.made + Day

KeysOK == \A k \in S!Keys : KeyOK(key_sessions[k], S!Users, user[key_sessions[k].user])

\* What a request between the statements of the middleware knows of its key.
Held(q, k) ==
    /\ k.state # "unused" /\ k.user = q.user
    /\ q.at \in {"link", "refresh"} => k.login = "oidc"
    /\ q.at = "update" /\ Daily(k) => q.exp = k.made + Day

\* What is true of a request that is under way.
RequestOK(q) ==
    q.at # "idle" =>
        /\ q.user \in S!Users
        /\ q.at # "mint" => q.key \in S!Keys /\ Held(q, key_sessions[q.key])
        /\ q.at = "linkup" => q.user \in OIDCUsers
        /\ q.barred => user[q.user].status # "active"
        /\ q.at \in {"serve", "change"} => ~q.barred

RequestsOK == \A r \in SessionRequests : RequestOK(req_sessions[r])

SessionsInv == Typed /\ KeysOK /\ RequestsOK

-----------------------------------------------------------------------------
LEMMA IdleTyped == ASSUME NEW us PROVE S!Idle \in Request(us) /\ S!Idle.at = "idle" /\ ~S!Idle.barred
  BY DEF S!Idle, Request

LEMMA InitSessions == ASSUME Lives, S!Init PROVE SessionsInv
<1>1. PICK us \in Populations : user = [u \in us |-> [status |-> "active", deleted |-> FALSE, pw |-> 0]]
  BY DEF S!Init
<1>2. user \in [S!Users -> UserRow]
  BY <1>1 DEF S!Users, UserRow, Lives
<1>3. S!Unused \in KeyRow(S!Users) /\ S!Unused.state = "unused"
  BY DEF S!Unused, KeyRow
<1>4. Typed
  BY <1>2, <1>3, IdleTyped DEF S!Init, Typed, Lives
<1>5. KeysOK
  BY <1>3 DEF S!Init, KeysOK, KeyOK
<1>6. RequestsOK
  BY IdleTyped DEF S!Init, RequestsOK, RequestOK
<1> QED BY <1>4, <1>5, <1>6 DEF SessionsInv

\* The decisions of the middleware: the request is refused, or goes on with the same key,
\* and the key of a password login is not prolonged.
LEMMA DecidedGoesOn ==
  ASSUME Lives, Typed, NEW q \in Request(S!Users), q.key \in S!Keys
  PROVE  /\ S!Decided(q) \in Request(S!Users)
         /\ S!Decided(q) = S!Idle \/ /\ S!Decided(q).at \in {"update", "roles"}
                                     /\ S!Decided(q).user = q.user /\ S!Decided(q).key = q.key
                                     /\ S!Decided(q).barred = q.barred
                                     /\ Daily(key_sessions[q.key]) => S!Decided(q).exp = q.exp
<1>1. /\ key_sessions[q.key] \in KeyRow(S!Users) /\ key_sessions[q.key].life \in Nat /\ key_sessions[q.key].used \in Nat
      /\ q.t \in Nat /\ q.exp \in Int
  BY DEF Typed, KeyRow, Request
<1>2. CASE q.exp < q.t
  BY <1>2, IdleTyped DEF S!Decided
<1>3. CASE ~(q.exp < q.t)
  <2> DEFINE k == key_sessions[q.key]
             e == S!Prolonged(q, k)
             u == IF q.t - k.used > 1 THEN q.t ELSE k.used
             ch == q.changed \/ q.t - k.used > 1 \/ e # q.exp \/ q.exp - q.t <= k.life - 1
             at == IF ch THEN "update" ELSE "roles"
  <2>1. S!Decided(q) = [q EXCEPT !.exp = e, !.used = u, !.changed = ch, !.at = at]
    BY <1>3 DEF S!Decided
  <2>2. e \in Int /\ u \in Nat
    BY <1>1 DEF S!Prolonged
  <2>3. ch \in BOOLEAN /\ at \in {"update", "roles"}
    BY DEF Request
  <2>4. Daily(k) => e = q.exp
    BY <1>1, <1>3 DEF S!Prolonged, Daily
  <2> HIDE DEF k, e, u, ch, at
  <2>5. S!Decided(q) \in Request(S!Users)
    BY <2>1, <2>2, <2>3 DEF Request
  <2>6. /\ S!Decided(q).at = at /\ S!Decided(q).user = q.user /\ S!Decided(q).key = q.key
        /\ S!Decided(q).barred = q.barred /\ S!Decided(q).exp = e
    BY <2>1 DEF Request
  <2> QED BY <2>3, <2>4, <2>5, <2>6 DEF k
<1> QED BY <1>2, <1>3

-----------------------------------------------------------------------------
(* The kinds of steps.                                                     *)

\* Of a key that was minted, what requests have read stays, and a key that is gone stays so.
KeysFollow ==
    \A k \in S!Keys : key_sessions[k].state # "unused" =>
        /\ key_sessions'[k].state # "unused"
        /\ key_sessions[k].state = "gone" => key_sessions'[k].state = "gone"
        /\ key_sessions'[k].user = key_sessions[k].user /\ key_sessions'[k].login = key_sessions[k].login
        /\ key_sessions'[k].life = key_sessions[k].life /\ key_sessions'[k].made = key_sessions[k].made

\* A request that stands still is not disturbed.
LEMMA OthersStay ==
  ASSUME SessionsInv, KeysFollow, S!Users' = S!Users,
         \A u \in S!Users : user'[u].status = user[u].status,
         NEW r \in SessionRequests, \A s \in SessionRequests \ {r} : req_sessions'[s] = req_sessions[s],
         RequestOK(req_sessions[r])'
  PROVE  RequestsOK'
<1> SUFFICES ASSUME NEW s \in SessionRequests \ {r} PROVE RequestOK(req_sessions[s])'
  BY DEF RequestsOK
<1>1. req_sessions'[s] = req_sessions[s] /\ RequestOK(req_sessions[s])
  BY DEF SessionsInv, RequestsOK
<1>2. ASSUME req_sessions[s].at # "idle", req_sessions[s].at # "mint"
      PROVE  req_sessions[s].key \in S!Keys /\ Held(req_sessions[s], key_sessions'[req_sessions[s].key])
  <2>1. req_sessions[s].key \in S!Keys /\ Held(req_sessions[s], key_sessions[req_sessions[s].key])
    BY <1>1, <1>2 DEF RequestOK
  <2> QED BY <2>1 DEF Held, KeysFollow, Daily
<1> QED BY <1>1, <1>2 DEF RequestOK

\* Only the request moves, or the link of its user with it.
LEMMA RequestMoves ==
  ASSUME SessionsInv, UNCHANGED <<user, key_sessions, now_sessions>>, link_sessions' \in [OIDCUsers -> Int],
         NEW r \in SessionRequests, NEW q \in Request(S!Users), RequestOK(q),
         req_sessions' = [req_sessions EXCEPT ![r] = q]
  PROVE  SessionsInv' /\ KeysFollow
<1>1. S!Users' = S!Users
  BY DEF S!Users
<1>2. Typed'
  BY <1>1 DEF SessionsInv, Typed
<1>3. KeysOK'
  BY <1>1 DEF SessionsInv, KeysOK
<1>4. KeysFollow
  BY DEF KeysFollow
<1>5. req_sessions'[r] = q /\ \A s \in SessionRequests \ {r} : req_sessions'[s] = req_sessions[s]
  BY DEF SessionsInv, Typed
<1>6. RequestOK(req_sessions[r])'
  BY <1>1, <1>5 DEF RequestOK
<1>7. RequestsOK'
  BY <1>1, <1>4, <1>5, <1>6, OthersStay
<1> QED BY <1>2, <1>3, <1>4, <1>7 DEF SessionsInv

\* A request that ends disturbs nothing.
LEMMA IdleOK == RequestOK(S!Idle)
  BY DEF RequestOK, S!Idle

LEMMA IdleOKPrime == RequestOK(S!Idle)'
  BY DEF RequestOK, S!Idle

\* A request ends with a change of the keys.
LEMMA EndsWithKeys ==
  ASSUME SessionsInv, UNCHANGED <<link_sessions, now_sessions>>, user' \in [S!Users -> UserRow], S!Users' = S!Users,
         \A u \in S!Users : user'[u].status = user[u].status,
         key_sessions' \in [S!Keys -> KeyRow(S!Users)], KeysFollow, KeysOK',
         NEW r \in SessionRequests, req_sessions' = [req_sessions EXCEPT ![r] = S!Idle]
  PROVE  SessionsInv'
<1>1. Typed'
  BY IdleTyped DEF SessionsInv, Typed
<1>2. req_sessions'[r] = S!Idle /\ \A s \in SessionRequests \ {r} : req_sessions'[s] = req_sessions[s]
  BY DEF SessionsInv, Typed
<1>3. RequestOK(req_sessions[r])'
  BY <1>2, IdleOKPrime DEF RequestOK, S!Idle
<1>4. RequestsOK'
  BY <1>2, <1>3, OthersStay
<1> QED BY <1>1, <1>4 DEF SessionsInv

-----------------------------------------------------------------------------
(* The steps of requests.                                                  *)

LEMMA PostLoginStep ==
  ASSUME Lives, SessionsInv, NEW r \in SessionRequests, S!postLogin(r)
  PROVE  SessionsInv' /\ KeysFollow
<1>1. PICK u \in S!Users \cap PasswordUsers :
        req_sessions' = [req_sessions EXCEPT ![r] = [S!Idle EXCEPT !.at = "mint", !.user = u, !.pw = user[u].pw]]
  BY DEF S!postLogin
<1> DEFINE q == [S!Idle EXCEPT !.at = "mint", !.user = u, !.pw = user[u].pw]
<1>2. user[u].pw \in Nat
  BY DEF SessionsInv, Typed, UserRow, Lives
<1>3. q \in Request(S!Users) /\ q.at = "mint" /\ q.user = u /\ ~q.barred
  BY <1>2, IdleTyped DEF Request
<1>4. RequestOK(q)
  BY <1>3 DEF RequestOK
<1>5. UNCHANGED <<user, key_sessions, now_sessions>> /\ link_sessions' \in [OIDCUsers -> Int]
  BY DEF S!postLogin, SessionsInv, Typed
<1> HIDE DEF q
<1> QED BY <1>1, <1>3, <1>4, <1>5, RequestMoves DEF q

LEMMA OauthLoginStep ==
  ASSUME Lives, SessionsInv, NEW r \in SessionRequests, S!oauthLogin(r)
  PROVE  SessionsInv' /\ KeysFollow
<1>1. PICK u \in S!Users \cap OIDCUsers :
        /\ req_sessions' = [req_sessions EXCEPT ![r] = [S!Idle EXCEPT !.at = "mint", !.user = u]]
        /\ link_sessions' = [link_sessions EXCEPT ![u] = now_sessions + TokenLife]
  BY DEF S!oauthLogin
<1> DEFINE q == [S!Idle EXCEPT !.at = "mint", !.user = u]
<1>2. q \in Request(S!Users) /\ q.at = "mint" /\ q.user = u /\ ~q.barred
  BY IdleTyped DEF Request
<1>3. RequestOK(q)
  BY <1>2 DEF RequestOK
<1>4. UNCHANGED <<user, key_sessions, now_sessions>>
  BY DEF S!oauthLogin
<1>5. now_sessions + TokenLife \in Int
  BY DEF SessionsInv, Typed, Lives
<1>6. link_sessions' \in [OIDCUsers -> Int]
  BY <1>1, <1>5 DEF SessionsInv, Typed
<1> HIDE DEF q
<1> QED BY <1>1, <1>2, <1>3, <1>4, <1>6, RequestMoves DEF q

\* A new key: it has the password of the moment, and lives from now.
LEMMA KeyIsMinted ==
  ASSUME Lives, SessionsInv, UNCHANGED <<user, now_sessions>>, NEW u \in S!Users,
         NEW method \in {"password", "oidc", "token"}, method = "oidc" => u \in OIDCUsers,
         NEW life \in Nat, NEW proved \in Nat, S!createAPIKey(u, method, life, proved)
  PROVE  key_sessions' \in [S!Keys -> KeyRow(S!Users)] /\ KeysFollow /\ KeysOK'
<1>1. PICK k \in S!Keys :
        /\ key_sessions[k].state = "unused"
        /\ key_sessions' = [key_sessions EXCEPT ![k] =
             [state |-> "live", user |-> u, login |-> method, exp |-> now_sessions + (IF life = 0 THEN Day ELSE life),
              life |-> life, used |-> 0, made |-> now_sessions, pw |-> user[u].pw, proved |-> proved]]
  BY DEF S!createAPIKey
<1> DEFINE x == [state |-> "live", user |-> u, login |-> method, exp |-> now_sessions + (IF life = 0 THEN Day ELSE life),
                 life |-> life, used |-> 0, made |-> now_sessions, pw |-> user[u].pw, proved |-> proved]
<1>2. now_sessions \in Nat /\ user[u].pw \in Nat
  BY DEF SessionsInv, Typed, UserRow, Lives
<1>3. now_sessions + (IF life = 0 THEN Day ELSE life) \in Int
  BY <1>2 DEF Lives
<1>4. x \in KeyRow(S!Users)
  BY <1>2, <1>3 DEF KeyRow
<1>5. KeyOK(x, S!Users, user[x.user])
  BY DEF KeyOK, Daily
<1>6. key_sessions' = [key_sessions EXCEPT ![k] = x]
  BY <1>1
<1> HIDE DEF x
<1>7. key_sessions'[k] = x /\ \A j \in S!Keys \ {k} : key_sessions'[j] = key_sessions[j]
  BY <1>6 DEF SessionsInv, Typed
<1>8. key_sessions' \in [S!Keys -> KeyRow(S!Users)]
  BY <1>4, <1>6 DEF SessionsInv, Typed
<1>9. KeysFollow
  BY <1>1, <1>7 DEF KeysFollow
<1>10. S!Users' = S!Users
  BY DEF S!Users
<1>11. \A j \in S!Keys : KeyOK(key_sessions'[j], S!Users, user[key_sessions'[j].user])
  BY <1>5, <1>7 DEF SessionsInv, KeysOK
<1>12. KeysOK'
  BY <1>10, <1>11 DEF KeysOK
<1> QED BY <1>8, <1>9, <1>12

LEMMA MintStep ==
  ASSUME Lives, SessionsInv, NEW r \in SessionRequests,
         S!Mint(r) \/ S!postToken(r) \/ S!postAPIKey(r)
  PROVE  SessionsInv' /\ KeysFollow
<1>1. req_sessions[r].user \in S!Users
  BY DEF SessionsInv, RequestsOK, RequestOK, S!Mint, S!postToken, S!postAPIKey
<1>2. user[req_sessions[r].user].pw \in Nat /\ req_sessions[r].pw \in Nat
  BY <1>1 DEF SessionsInv, Typed, UserRow, Request, Lives
<1>3. UNCHANGED <<user, link_sessions, now_sessions>> /\ req_sessions' = [req_sessions EXCEPT ![r] = S!Idle]
  BY DEF S!Mint, S!postToken, S!postAPIKey, S!Enter
<1>4. key_sessions' \in [S!Keys -> KeyRow(S!Users)] /\ KeysFollow /\ KeysOK'
  <2>1. CASE S!Mint(r)
    <3>1. CASE req_sessions[r].user \in OIDCUsers
      BY <1>1, <1>2, <1>3, <2>1, <3>1, KeyIsMinted DEF S!Mint
    <3>2. CASE req_sessions[r].user \notin OIDCUsers
      BY <1>1, <1>2, <1>3, <2>1, <3>2, KeyIsMinted DEF S!Mint
    <3> QED BY <3>1, <3>2
  <2>2. CASE S!postToken(r)
    BY <1>1, <1>2, <1>3, <2>2, KeyIsMinted DEF S!postToken, Lives
  <2>3. CASE S!postAPIKey(r)
    BY <1>1, <1>2, <1>3, <2>3, KeyIsMinted DEF S!postAPIKey, Lives
  <2> QED BY <2>1, <2>2, <2>3
<1>5. S!Users' = S!Users /\ user' \in [S!Users -> UserRow] /\ \A u \in S!Users : user'[u].status = user[u].status
  BY <1>3 DEF S!Users, SessionsInv, Typed
<1> QED BY <1>3, <1>4, <1>5, EndsWithKeys

\* The first read of the middleware.
LEMMA ExtractStep ==
  ASSUME Lives, SessionsInv, NEW r \in SessionRequests, NEW k \in S!Keys, S!ExtractAPIKey(r, k)
  PROVE  SessionsInv' /\ KeysFollow
<1> DEFINE b == user[key_sessions[k].user].status # "active"
           q == [S!Idle EXCEPT !.user = key_sessions[k].user, !.key = k, !.t = now_sessions, !.exp = key_sessions[k].exp, !.barred = b]
           p == IF key_sessions[k].login = "oidc" THEN [q EXCEPT !.at = "link"] ELSE S!Decided(q)
<1>1. /\ key_sessions[k].state = "live" /\ key_sessions[k].user \in S!Users
      /\ key_sessions[k].login = "oidc" => key_sessions[k].user \in OIDCUsers
      /\ Daily(key_sessions[k]) => key_sessions[k].exp = key_sessions[k].made + Day
  BY DEF S!ExtractAPIKey, SessionsInv, KeysOK, KeyOK
<1>2. key_sessions[k].exp \in Int /\ now_sessions \in Nat /\ b \in BOOLEAN
  BY DEF SessionsInv, Typed, KeyRow, Lives
<1>3. req_sessions' = [req_sessions EXCEPT ![r] = p] /\ UNCHANGED <<user, key_sessions, now_sessions>> /\ link_sessions' \in [OIDCUsers -> Int]
  BY DEF S!ExtractAPIKey, S!Enter, SessionsInv, Typed
<1>5. b => user[key_sessions[k].user].status # "active"
  OBVIOUS
<1> HIDE DEF b
<1>6. q \in Request(S!Users) /\ q.key = k /\ q.user = key_sessions[k].user /\ q.exp = key_sessions[k].exp /\ q.barred = b
  BY <1>1, <1>2, IdleTyped DEF Request
<1> HIDE DEF q
<1>7. p \in Request(S!Users) /\ RequestOK(p)
  <2>1. CASE key_sessions[k].login = "oidc"
    <3>1. p = [q EXCEPT !.at = "link"]
      BY <2>1
    <3>2. p \in Request(S!Users) /\ p.at = "link" /\ p.key = k /\ p.user = q.user /\ p.barred = b
      BY <1>6, <3>1 DEF Request
    <3> HIDE DEF p
    <3>3. Held(p, key_sessions[k])
      BY <1>1, <1>6, <2>1, <3>2 DEF Held
    <3> QED BY <1>1, <1>5, <1>6, <3>2, <3>3 DEF RequestOK
  <2>2. CASE key_sessions[k].login # "oidc"
    <3>1. p = S!Decided(q)
      BY <2>2
    <3> HIDE DEF p
    <3>2. /\ p \in Request(S!Users)
          /\ p = S!Idle \/ /\ p.at \in {"update", "roles"} /\ p.user = q.user /\ p.key = k
                           /\ p.barred = b /\ (Daily(key_sessions[k]) => p.exp = key_sessions[k].exp)
      BY <1>6, <3>1, DecidedGoesOn DEF SessionsInv
    <3>3. CASE p = S!Idle
      BY <3>2, <3>3, IdleOK
    <3>4. CASE p # S!Idle
      <4>1. Held(p, key_sessions[k])
        BY <1>1, <1>6, <2>2, <3>2, <3>4 DEF Held
      <4> QED BY <1>1, <1>5, <1>6, <3>2, <3>4, <4>1 DEF RequestOK
    <3> QED BY <3>3, <3>4
  <2> QED BY <2>1, <2>2
<1> HIDE DEF p
<1> QED BY <1>3, <1>7, RequestMoves

\* The decisions about a key of an OpenID provider, with what was read or refreshed.
LEMMA DecidedOIDC ==
  ASSUME Lives, SessionsInv, NEW q \in Request(S!Users), q.key \in S!Keys, q.user \in S!Users,
         key_sessions[q.key].state # "unused", key_sessions[q.key].user = q.user, key_sessions[q.key].login = "oidc",
         q.barred => user[q.user].status # "active"
  PROVE  S!Decided(q) \in Request(S!Users) /\ RequestOK(S!Decided(q))
<1> DEFINE p == S!Decided(q)
<1>1. /\ p \in Request(S!Users)
      /\ p = S!Idle \/ /\ p.at \in {"update", "roles"} /\ p.user = q.user /\ p.key = q.key
                       /\ p.barred = q.barred
  BY DecidedGoesOn DEF SessionsInv
<1> HIDE DEF p
<1>2. CASE p = S!Idle
  BY <1>1, <1>2, IdleOK DEF p
<1>3. CASE p # S!Idle
  <2>1. Held(p, key_sessions[q.key])
    BY <1>1, <1>3 DEF Held, Daily
  <2> QED BY <1>1, <1>3, <2>1 DEF RequestOK, p
<1> QED BY <1>2, <1>3

LEMMA ReadLinkStep ==
  ASSUME Lives, SessionsInv, NEW r \in SessionRequests, S!ReadLink(r)
  PROVE  SessionsInv' /\ KeysFollow
<1> DEFINE x == link_sessions[req_sessions[r].user]
           q == [req_sessions[r] EXCEPT !.lexp = x]
           p == IF q.lexp < q.t THEN [q EXCEPT !.at = "refresh"] ELSE S!Decided(q)
<1>1. /\ req_sessions[r].at = "link" /\ req_sessions[r].user \in S!Users /\ req_sessions[r].key \in S!Keys
      /\ Held(req_sessions[r], key_sessions[req_sessions[r].key])
      /\ req_sessions[r].barred => user[req_sessions[r].user].status # "active"
  BY DEF S!ReadLink, SessionsInv, RequestsOK, RequestOK
<1>2. /\ key_sessions[req_sessions[r].key].state # "unused" /\ key_sessions[req_sessions[r].key].user = req_sessions[r].user
      /\ key_sessions[req_sessions[r].key].login = "oidc" /\ req_sessions[r].user \in OIDCUsers
  BY <1>1 DEF Held, SessionsInv, KeysOK, KeyOK
<1>3. x \in Int /\ req_sessions[r] \in Request(S!Users)
  BY <1>2 DEF SessionsInv, Typed
<1>4. req_sessions' = [req_sessions EXCEPT ![r] = p] /\ UNCHANGED <<user, key_sessions, now_sessions>> /\ link_sessions' \in [OIDCUsers -> Int]
  BY DEF S!ReadLink, S!Enter, SessionsInv, Typed
<1> HIDE DEF x
<1>5. /\ q \in Request(S!Users) /\ q.key = req_sessions[r].key /\ q.user = req_sessions[r].user /\ q.barred = req_sessions[r].barred
  BY <1>3 DEF Request
<1>6. [q EXCEPT !.at = "refresh"] \in Request(S!Users) /\ RequestOK([q EXCEPT !.at = "refresh"])
  <2> DEFINE f == [q EXCEPT !.at = "refresh"]
  <2> HIDE DEF q
  <2>1. /\ f \in Request(S!Users) /\ f.at = "refresh" /\ f.key = q.key /\ f.user = q.user
        /\ f.barred = q.barred
    BY <1>5 DEF Request
  <2> HIDE DEF f
  <2>2. Held(f, key_sessions[f.key])
    BY <1>2, <1>5, <2>1 DEF Held
  <2>3. RequestOK(f)
    BY <1>1, <1>5, <2>1, <2>2 DEF RequestOK
  <2> QED BY <2>1, <2>3 DEF f
<1> HIDE DEF q
<1>7. S!Decided(q) \in Request(S!Users) /\ RequestOK(S!Decided(q))
  BY <1>1, <1>2, <1>5, DecidedOIDC
<1>8. p \in Request(S!Users) /\ RequestOK(p)
  BY <1>6, <1>7
<1> HIDE DEF p
<1> QED BY <1>4, <1>8, RequestMoves

LEMMA RefreshStep ==
  ASSUME Lives, SessionsInv, NEW r \in SessionRequests, S!Refresh(r)
  PROVE  SessionsInv' /\ KeysFollow
<1> DEFINE x == now_sessions + TokenLife
           q == [req_sessions[r] EXCEPT !.lexp = x, !.exp = x, !.changed = TRUE]
<1>1. /\ req_sessions[r].at = "refresh" /\ req_sessions[r].user \in S!Users /\ req_sessions[r].key \in S!Keys
      /\ Held(req_sessions[r], key_sessions[req_sessions[r].key])
      /\ req_sessions[r].barred => user[req_sessions[r].user].status # "active"
  BY DEF S!Refresh, SessionsInv, RequestsOK, RequestOK
<1>2. /\ key_sessions[req_sessions[r].key].state # "unused" /\ key_sessions[req_sessions[r].key].user = req_sessions[r].user
      /\ key_sessions[req_sessions[r].key].login = "oidc"
  BY <1>1 DEF Held
<1>3. x \in Int /\ req_sessions[r] \in Request(S!Users)
  BY DEF SessionsInv, Typed, Lives
<1>4. req_sessions' = [req_sessions EXCEPT ![r] = S!Decided(q)] \/ req_sessions' = [req_sessions EXCEPT ![r] = S!Idle]
  BY DEF S!Refresh, S!Enter
<1>5. UNCHANGED <<user, key_sessions, now_sessions>> /\ link_sessions' \in [OIDCUsers -> Int]
  BY DEF S!Refresh, SessionsInv, Typed
<1> HIDE DEF x
<1>6. /\ q \in Request(S!Users) /\ q.key = req_sessions[r].key /\ q.user = req_sessions[r].user /\ q.barred = req_sessions[r].barred
  BY <1>3 DEF Request
<1> HIDE DEF q
<1>7. S!Decided(q) \in Request(S!Users) /\ RequestOK(S!Decided(q))
  BY <1>1, <1>2, <1>6, DecidedOIDC
<1>8. CASE req_sessions' = [req_sessions EXCEPT ![r] = S!Decided(q)]
  BY <1>5, <1>7, <1>8, RequestMoves
<1>9. CASE req_sessions' = [req_sessions EXCEPT ![r] = S!Idle]
  BY <1>5, <1>9, IdleOK, IdleTyped, RequestMoves
<1> QED BY <1>4, <1>8, <1>9

\* The request goes on to another step of the middleware or the handler.
LEMMA Passes ==
  ASSUME SessionsInv, NEW r \in SessionRequests, UNCHANGED <<user, key_sessions, now_sessions>>, link_sessions' \in [OIDCUsers -> Int],
         NEW p \in Request(S!Users), req_sessions' = [req_sessions EXCEPT ![r] = p],
         req_sessions[r].at \notin {"idle", "mint"}, p.at \in {"linkup", "roles", "serve", "change"},
         p.user = req_sessions[r].user, p.key = req_sessions[r].key, p.barred = req_sessions[r].barred,
         p.at = "linkup" => p.user \in OIDCUsers,
         p.at \in {"serve", "change"} => ~p.barred
  PROVE  SessionsInv' /\ KeysFollow
<1>1. RequestOK(req_sessions[r])
  BY DEF SessionsInv, RequestsOK
<1>2. p.key \in S!Keys /\ Held(p, key_sessions[p.key])
  BY <1>1 DEF RequestOK, Held
<1>3. RequestOK(p)
  BY <1>1, <1>2 DEF RequestOK
<1> QED BY <1>3, RequestMoves

LEMMA PassStep ==
  ASSUME Lives, SessionsInv, NEW r \in SessionRequests,
         S!WriteLink(r) \/ S!ReadRoles(r) \/ S!Serve(r) \/ S!ComparePassword(r)
  PROVE  SessionsInv' /\ KeysFollow
<1>1. req_sessions[r] \in Request(S!Users) /\ RequestOK(req_sessions[r])
  BY DEF SessionsInv, Typed, RequestsOK
<1>2. CASE S!WriteLink(r)
  <2> DEFINE p == [req_sessions[r] EXCEPT !.at = "roles"]
  <2>1. /\ req_sessions[r].at = "linkup" /\ req_sessions' = [req_sessions EXCEPT ![r] = p] /\ UNCHANGED <<user, key_sessions, now_sessions>>
        /\ link_sessions' = [link_sessions EXCEPT ![req_sessions[r].user] = req_sessions[r].lexp]
    BY <1>2 DEF S!WriteLink, S!Enter
  <2>2. req_sessions[r].lexp \in Int
    BY <1>1 DEF Request
  <2>3. link_sessions' \in [OIDCUsers -> Int]
    BY <2>1, <2>2 DEF SessionsInv, Typed
  <2>4. /\ p \in Request(S!Users) /\ p.at = "roles" /\ p.user = req_sessions[r].user /\ p.key = req_sessions[r].key
        /\ p.barred = req_sessions[r].barred
    BY <1>1 DEF Request
  <2> HIDE DEF p
  <2> QED BY <2>1, <2>3, <2>4, Passes
<1>3. CASE S!ReadRoles(r)
  <2>1. /\ req_sessions[r].at = "roles" /\ UNCHANGED <<user, key_sessions, now_sessions>> /\ link_sessions' \in [OIDCUsers -> Int]
        /\ req_sessions' = [req_sessions EXCEPT ![r] = IF S!Admitted(r) THEN [req_sessions[r] EXCEPT !.at = "serve"] ELSE S!Idle]
    BY <1>3 DEF S!ReadRoles, S!Enter, SessionsInv, Typed
  <2>2. CASE ~S!Admitted(r)
    BY <2>1, <2>2, IdleOK, IdleTyped, RequestMoves
  <2>3. CASE S!Admitted(r)
    <3> DEFINE p == [req_sessions[r] EXCEPT !.at = "serve"]
    <3>1. /\ p \in Request(S!Users) /\ p.at = "serve" /\ p.user = req_sessions[r].user /\ p.key = req_sessions[r].key
          /\ p.barred = req_sessions[r].barred
      BY <1>1 DEF Request
    <3>2. ~req_sessions[r].barred
      BY <1>1, <2>1, <2>3 DEF RequestOK, S!Admitted
    <3>3. req_sessions' = [req_sessions EXCEPT ![r] = p]
      BY <2>1, <2>3
    <3> HIDE DEF p
    <3> QED BY <2>1, <3>1, <3>2, <3>3, Passes
  <2> QED BY <2>2, <2>3
<1>4. CASE S!Serve(r)
  BY <1>4, IdleOK, IdleTyped, RequestMoves DEF S!Serve, S!Enter, SessionsInv, Typed
<1>5. CASE S!ComparePassword(r)
  <2> DEFINE x == user[req_sessions[r].user].pw
             p == [req_sessions[r] EXCEPT !.at = "change", !.pw = x]
  <2>1. /\ req_sessions[r].at = "serve" /\ UNCHANGED <<user, key_sessions, now_sessions>> /\ link_sessions' \in [OIDCUsers -> Int]
        /\ req_sessions' = [req_sessions EXCEPT ![r] = p]
    BY <1>5 DEF S!ComparePassword, S!Enter, SessionsInv, Typed
  <2>2. req_sessions[r].user \in S!Users /\ ~req_sessions[r].barred
    BY <1>1, <2>1 DEF RequestOK
  <2>3. x \in Nat
    BY <2>2 DEF SessionsInv, Typed, UserRow, Lives
  <2> HIDE DEF x
  <2>4. /\ p \in Request(S!Users) /\ p.at = "change" /\ p.user = req_sessions[r].user /\ p.key = req_sessions[r].key
        /\ p.barred = req_sessions[r].barred
    BY <1>1, <2>3 DEF Request
  <2> HIDE DEF p
  <2> QED BY <2>1, <2>2, <2>4, Passes
<1> QED BY <1>2, <1>3, <1>4, <1>5

\* The key is written back: what the request has is what the key of a password login had.
LEMMA WriteKeyStep ==
  ASSUME Lives, SessionsInv, NEW r \in SessionRequests, S!WriteKey(r)
  PROVE  SessionsInv' /\ KeysFollow
<1> DEFINE k == req_sessions[r].key
           at == IF req_sessions[r].user \in OIDCUsers /\ key_sessions[k].login = "oidc" THEN "linkup" ELSE "roles"
           p == [req_sessions[r] EXCEPT !.at = at]
<1>1. /\ req_sessions[r].at = "update" /\ UNCHANGED <<user, link_sessions, now_sessions>> /\ req_sessions' = [req_sessions EXCEPT ![r] = p]
      /\ key_sessions' = S!UpdateAPIKeyByID(r)
  BY DEF S!WriteKey, S!Enter
<1>2. req_sessions[r] \in Request(S!Users) /\ RequestOK(req_sessions[r])
  BY DEF SessionsInv, Typed, RequestsOK
<1>3. k \in S!Keys /\ Held(req_sessions[r], key_sessions[k]) /\ req_sessions[r].user \in S!Users
  BY <1>1, <1>2 DEF RequestOK
<1>4. req_sessions[r].exp \in Int /\ req_sessions[r].used \in Nat
  BY <1>2 DEF Request
<1>5. S!Users' = S!Users
  BY <1>1 DEF S!Users
<1>6. at \in {"linkup", "roles"} /\ (at = "linkup" => req_sessions[r].user \in OIDCUsers)
  OBVIOUS
<1> HIDE DEF at
<1>7. /\ p \in Request(S!Users) /\ p.at = at /\ p.user = req_sessions[r].user /\ p.key = k /\ p.barred = req_sessions[r].barred
  BY <1>2, <1>6 DEF Request
<1> HIDE DEF p
<1>8. /\ key_sessions' \in [S!Keys -> KeyRow(S!Users)]
      /\ \A j \in S!Keys \ {k} : key_sessions'[j] = key_sessions[j]
      /\ key_sessions'[k].state = key_sessions[k].state /\ key_sessions'[k].user = key_sessions[k].user /\ key_sessions'[k].login = key_sessions[k].login
      /\ key_sessions'[k].life = key_sessions[k].life /\ key_sessions'[k].made = key_sessions[k].made /\ key_sessions'[k].pw = key_sessions[k].pw
      /\ key_sessions'[k].exp = IF key_sessions[k].state = "live" THEN req_sessions[r].exp ELSE key_sessions[k].exp
  <2>1. key_sessions \in [S!Keys -> KeyRow(S!Users)] /\ key_sessions[k] \in KeyRow(S!Users)
    BY <1>3 DEF SessionsInv, Typed
  <2>2. CASE key_sessions[k].state # "live"
    BY <1>1, <2>1, <2>2 DEF S!UpdateAPIKeyByID
  <2>3. CASE key_sessions[k].state = "live"
    <3> DEFINE x == [key_sessions[k] EXCEPT !.exp = req_sessions[r].exp, !.used = req_sessions[r].used]
    <3>1. key_sessions' = [key_sessions EXCEPT ![k].exp = req_sessions[r].exp, ![k].used = req_sessions[r].used]
      BY <1>1, <2>3 DEF S!UpdateAPIKeyByID
    <3>2. key_sessions' = [key_sessions EXCEPT ![k] = x]
      BY <1>3, <2>1, <3>1
    <3>3. /\ x \in KeyRow(S!Users) /\ x.state = key_sessions[k].state /\ x.user = key_sessions[k].user
          /\ x.login = key_sessions[k].login /\ x.life = key_sessions[k].life /\ x.made = key_sessions[k].made
          /\ x.pw = key_sessions[k].pw /\ x.exp = req_sessions[r].exp
      BY <1>4, <2>1 DEF KeyRow
    <3> HIDE DEF x, k
    <3>4. key_sessions'[k] = x /\ \A j \in S!Keys \ {k} : key_sessions'[j] = key_sessions[j]
      BY <1>3, <2>1, <3>2
    <3> QED BY <2>1, <2>3, <3>2, <3>3, <3>4
  <2> QED BY <2>2, <2>3
<1> HIDE DEF k
<1>9. KeysFollow
  BY <1>8 DEF KeysFollow
<1>10. KeysOK'
  <2>1. \A j \in S!Keys : KeyOK(key_sessions[j], S!Users, user[key_sessions[j].user])
    BY DEF SessionsInv, KeysOK
  <2>2. KeyOK(key_sessions'[k], S!Users, user[key_sessions'[k].user])
    BY <1>1, <1>3, <1>8, <2>1 DEF KeyOK, Held, Daily
  <2>3. \A j \in S!Keys : KeyOK(key_sessions'[j], S!Users, user[key_sessions'[j].user])
    BY <1>8, <2>1, <2>2
  <2> QED BY <1>1, <1>5, <2>3 DEF KeysOK
<1>11. Typed'
  BY <1>1, <1>5, <1>7, <1>8 DEF SessionsInv, Typed
<1>12. req_sessions'[r] = p /\ \A s \in SessionRequests \ {r} : req_sessions'[s] = req_sessions[s]
  BY <1>1 DEF SessionsInv, Typed
<1>13. Held(p, key_sessions'[k])
  BY <1>3, <1>6, <1>7, <1>8 DEF Held
<1>14. RequestOK(req_sessions[r])'
  BY <1>1, <1>2, <1>3, <1>5, <1>6, <1>7, <1>12, <1>13 DEF RequestOK
<1>15. RequestsOK'
  BY <1>1, <1>5, <1>9, <1>12, <1>14, OthersStay
<1> QED BY <1>9, <1>10, <1>11, <1>15 DEF SessionsInv

-----------------------------------------------------------------------------
(* The end of keys.                                                        *)

\* Deleting touches nothing but the state of keys.
LEMMA DeleteKeys ==
  ASSUME SessionsInv, NEW ks, S!Delete(ks)
  PROVE  /\ key_sessions' \in [S!Keys -> KeyRow(S!Users)] /\ KeysFollow
         /\ \A k \in S!Keys : \/ key_sessions'[k] = key_sessions[k] /\ (k \in ks => key_sessions[k].state # "live")
                              \/ key_sessions'[k].state = "gone" /\ key_sessions[k].state = "live"
                                 /\ key_sessions'[k].user = key_sessions[k].user /\ key_sessions'[k].login = key_sessions[k].login
<1>1. \A k \in S!Keys : key_sessions'[k] = IF k \in ks /\ key_sessions[k].state = "live"
                                           THEN [key_sessions[k] EXCEPT !.state = "gone"] ELSE key_sessions[k]
  BY DEF S!Delete
<1>2. \A k \in S!Keys : /\ key_sessions[k] \in KeyRow(S!Users) /\ [key_sessions[k] EXCEPT !.state = "gone"] \in KeyRow(S!Users)
                        /\ [key_sessions[k] EXCEPT !.state = "gone"].state = "gone"
                        /\ [key_sessions[k] EXCEPT !.state = "gone"].user = key_sessions[k].user
                        /\ [key_sessions[k] EXCEPT !.state = "gone"].login = key_sessions[k].login
                        /\ [key_sessions[k] EXCEPT !.state = "gone"].life = key_sessions[k].life
                        /\ [key_sessions[k] EXCEPT !.state = "gone"].made = key_sessions[k].made
  BY DEF SessionsInv, Typed, KeyRow
<1>3. key_sessions' \in [S!Keys -> KeyRow(S!Users)]
  BY <1>2 DEF S!Delete
<1>4. KeysFollow
  BY <1>1, <1>2 DEF KeysFollow
<1> QED BY <1>1, <1>2, <1>3, <1>4

LEMMA LogoutStep ==
  ASSUME Lives, SessionsInv, NEW r \in SessionRequests,
         S!postLogout(r) \/ \E k \in S!Keys : S!deleteAPIKey(r, k)
  PROVE  SessionsInv' /\ KeysFollow
<1>1. /\ UNCHANGED <<user, link_sessions, now_sessions>> /\ req_sessions' = [req_sessions EXCEPT ![r] = S!Idle]
      /\ \E ks : S!Delete(ks)
  BY DEF S!postLogout, S!deleteAPIKey, S!Enter
<1>2. /\ key_sessions' \in [S!Keys -> KeyRow(S!Users)] /\ KeysFollow
      /\ \A k \in S!Keys : \/ key_sessions'[k] = key_sessions[k]
                           \/ key_sessions'[k].state = "gone" /\ key_sessions[k].state = "live"
                              /\ key_sessions'[k].user = key_sessions[k].user /\ key_sessions'[k].login = key_sessions[k].login
  BY <1>1, DeleteKeys
<1>3. S!Users' = S!Users
  BY <1>1 DEF S!Users
<1>4. \A k \in S!Keys : KeyOK(key_sessions'[k], S!Users, user[key_sessions'[k].user])
  BY <1>2 DEF SessionsInv, KeysOK, KeyOK
<1>5. KeysOK'
  BY <1>1, <1>3, <1>4 DEF KeysOK
<1>6. user' \in [S!Users -> UserRow] /\ \A u \in S!Users : user'[u].status = user[u].status
  BY <1>1 DEF SessionsInv, Typed
<1> QED BY <1>1, <1>2, <1>3, <1>5, <1>6, EndsWithKeys

\* A new password leaves its user no key.
LEMMA PasswordStep ==
  ASSUME Lives, SessionsInv, NEW r \in SessionRequests, S!putUserPassword(r)
  PROVE  SessionsInv' /\ KeysFollow
<1> DEFINE u == req_sessions[r].user
<1>1. /\ UNCHANGED <<link_sessions, now_sessions>> /\ req_sessions' = [req_sessions EXCEPT ![r] = S!Idle] /\ req_sessions[r].at = "change"
      /\ user[u].pw < MaxPassword /\ user' = [user EXCEPT ![u].pw = @ + 1]
      /\ S!Delete({k \in S!Keys : key_sessions[k].user = u})
  BY DEF S!putUserPassword, S!Enter
<1>2. u \in S!Users
  BY <1>1 DEF SessionsInv, RequestsOK, RequestOK
<1> HIDE DEF u
<1>3. /\ key_sessions' \in [S!Keys -> KeyRow(S!Users)] /\ KeysFollow
      /\ \A k \in S!Keys : \/ key_sessions'[k] = key_sessions[k] /\ (key_sessions[k].user = u => key_sessions[k].state # "live")
                           \/ key_sessions'[k].state = "gone" /\ key_sessions[k].state = "live"
                              /\ key_sessions'[k].user = key_sessions[k].user /\ key_sessions'[k].login = key_sessions[k].login
  BY <1>1, DeleteKeys
<1>4. user \in [S!Users -> UserRow] /\ user[u] \in UserRow /\ user[u].pw \in 0 .. MaxPassword
  BY <1>2 DEF SessionsInv, Typed, UserRow
<1>5. user[u].pw + 1 \in 0 .. MaxPassword
  BY <1>1, <1>4 DEF Lives
<1>6. [user[u] EXCEPT !.pw = user[u].pw + 1] \in UserRow /\ [user[u] EXCEPT !.pw = user[u].pw + 1].status = user[u].status
  BY <1>4, <1>5 DEF UserRow
<1>7. user' = [user EXCEPT ![u] = [user[u] EXCEPT !.pw = user[u].pw + 1]]
  BY <1>1, <1>2, <1>4
<1>8. /\ S!Users' = S!Users /\ user' \in [S!Users -> UserRow]
      /\ \A v \in S!Users : user'[v].status = user[v].status
      /\ \A v \in S!Users \ {u} : user'[v] = user[v]
  BY <1>2, <1>4, <1>6, <1>7 DEF S!Users
<1>9. \A k \in S!Keys : KeyOK(key_sessions'[k], S!Users, user'[key_sessions'[k].user])
  <2> SUFFICES ASSUME NEW k \in S!Keys PROVE KeyOK(key_sessions'[k], S!Users, user'[key_sessions'[k].user])
    OBVIOUS
  <2>1. KeyOK(key_sessions[k], S!Users, user[key_sessions[k].user])
    BY DEF SessionsInv, KeysOK
  <2> QED BY <1>3, <1>8, <2>1 DEF KeyOK
<1>10. KeysOK'
  BY <1>8, <1>9 DEF KeysOK
<1> QED BY <1>1, <1>3, <1>8, <1>10, EndsWithKeys

-----------------------------------------------------------------------------
(* What administrators and time do.                                        *)

LEMMA StatusStep ==
  ASSUME Lives, SessionsInv, NEW u \in S!Users, NEW status \in {"active", "suspended"},
         S!putUserStatus(u, status)
  PROVE  SessionsInv' /\ KeysFollow
<1>1. /\ UNCHANGED <<key_sessions, link_sessions, now_sessions>> /\ user' = [user EXCEPT ![u].status = status]
      /\ req_sessions' = [r \in SessionRequests |-> IF req_sessions[r].user = u /\ status = "active"
                                             THEN [req_sessions[r] EXCEPT !.barred = FALSE] ELSE req_sessions[r]]
  BY DEF S!putUserStatus
<1>2. user \in [S!Users -> UserRow] /\ user[u] \in UserRow
  BY DEF SessionsInv, Typed
<1>3. /\ [user[u] EXCEPT !.status = status] \in UserRow
      /\ [user[u] EXCEPT !.status = status].pw = user[u].pw
      /\ [user[u] EXCEPT !.status = status].status = status
  BY <1>2 DEF UserRow
<1>4. user' = [user EXCEPT ![u] = [user[u] EXCEPT !.status = status]]
  BY <1>1, <1>2
<1>5. /\ S!Users' = S!Users /\ user' \in [S!Users -> UserRow]
      /\ \A v \in S!Users : user'[v].pw = user[v].pw
      /\ \A v \in S!Users : user'[v].status = IF v = u THEN status ELSE user[v].status
  BY <1>2, <1>3, <1>4 DEF S!Users
<1>6. \A r \in SessionRequests : /\ req_sessions[r] \in Request(S!Users) /\ [req_sessions[r] EXCEPT !.barred = FALSE] \in Request(S!Users)
                                 /\ [req_sessions[r] EXCEPT !.barred = FALSE].at = req_sessions[r].at
                                 /\ [req_sessions[r] EXCEPT !.barred = FALSE].user = req_sessions[r].user
                                 /\ [req_sessions[r] EXCEPT !.barred = FALSE].key = req_sessions[r].key
                                 /\ [req_sessions[r] EXCEPT !.barred = FALSE].exp = req_sessions[r].exp
                                 /\ [req_sessions[r] EXCEPT !.barred = FALSE].barred = FALSE
  BY DEF SessionsInv, Typed, Request
<1>7. Typed'
  BY <1>1, <1>5, <1>6 DEF SessionsInv, Typed
<1>8. KeysOK'
  <2>1. \A k \in S!Keys : KeyOK(key_sessions[k], S!Users, user'[key_sessions[k].user])
    BY <1>5 DEF SessionsInv, KeysOK, KeyOK
  <2> QED BY <1>1, <1>5, <2>1 DEF KeysOK
<1>9. RequestsOK'
  <2> SUFFICES ASSUME NEW r \in SessionRequests PROVE RequestOK(req_sessions[r])'
    BY DEF RequestsOK
  <2>1. RequestOK(req_sessions[r])
    BY DEF SessionsInv, RequestsOK
  <2>2. /\ req_sessions'[r].at = req_sessions[r].at /\ req_sessions'[r].user = req_sessions[r].user /\ req_sessions'[r].key = req_sessions[r].key
        /\ req_sessions'[r].exp = req_sessions[r].exp
        /\ req_sessions'[r].barred => req_sessions[r].barred /\ ~(req_sessions[r].user = u /\ status = "active")
    BY <1>1, <1>6
  <2>3. req_sessions[r].at \notin {"idle", "mint"} => req_sessions'[r].key \in S!Keys /\ Held(req_sessions'[r], key_sessions'[req_sessions'[r].key])
    BY <1>1, <2>1, <2>2 DEF RequestOK, Held
  <2> QED BY <1>5, <2>1, <2>2, <2>3 DEF RequestOK
<1>10. KeysFollow
  BY <1>1 DEF KeysFollow
<1> QED BY <1>7, <1>8, <1>9, <1>10 DEF SessionsInv

LEMMA DeleteUserStep ==
  ASSUME Lives, SessionsInv, NEW u \in S!Users, S!deleteUser(u)
  PROVE  SessionsInv' /\ KeysFollow
<1>1. UNCHANGED <<key_sessions, link_sessions, now_sessions, req_sessions>> /\ user' = [user EXCEPT ![u].deleted = TRUE]
  BY DEF S!deleteUser
<1>2. user \in [S!Users -> UserRow] /\ user[u] \in UserRow
  BY DEF SessionsInv, Typed
<1>3. /\ [user[u] EXCEPT !.deleted = TRUE] \in UserRow
      /\ [user[u] EXCEPT !.deleted = TRUE].pw = user[u].pw
      /\ [user[u] EXCEPT !.deleted = TRUE].status = user[u].status
  BY <1>2 DEF UserRow
<1>4. user' = [user EXCEPT ![u] = [user[u] EXCEPT !.deleted = TRUE]]
  BY <1>1, <1>2
<1>5. /\ S!Users' = S!Users /\ user' \in [S!Users -> UserRow]
      /\ \A v \in S!Users : user'[v].pw = user[v].pw /\ user'[v].status = user[v].status
  BY <1>2, <1>3, <1>4 DEF S!Users
<1>6. Typed'
  BY <1>1, <1>5 DEF SessionsInv, Typed
<1>7. KeysOK'
  <2>1. \A k \in S!Keys : KeyOK(key_sessions[k], S!Users, user'[key_sessions[k].user])
    BY <1>5 DEF SessionsInv, KeysOK, KeyOK
  <2> QED BY <1>1, <1>5, <2>1 DEF KeysOK
<1>8. RequestsOK'
  BY <1>1, <1>5 DEF SessionsInv, RequestsOK, RequestOK
<1> QED BY <1>1, <1>6, <1>7, <1>8 DEF SessionsInv, KeysFollow

LEMMA QuietStep ==
  ASSUME Lives, SessionsInv, S!Tick \/ UNCHANGED S!vars
  PROVE  SessionsInv' /\ KeysFollow
<1>1. UNCHANGED <<user, key_sessions, link_sessions, req_sessions>> /\ now_sessions' \in 2 .. SessionTime
  BY DEF S!Tick, S!vars, SessionsInv, Typed, Lives
<1>2. S!Users' = S!Users
  BY <1>1 DEF S!Users
<1> QED BY <1>1, <1>2 DEF SessionsInv, Typed, KeysOK, RequestsOK, RequestOK, KeysFollow

LEMMA NextSessions ==
  ASSUME Lives, SessionsInv, [S!Next]_(S!vars)
  PROVE  SessionsInv' /\ KeysFollow
  BY PostLoginStep, OauthLoginStep, MintStep, ExtractStep, LogoutStep, ReadLinkStep, RefreshStep,
     WriteKeyStep, PassStep, PasswordStep, StatusStep, DeleteUserStep, QuietStep DEF S!Next

-----------------------------------------------------------------------------
(* The inductive invariant: what a request has read of its key and of its  *)
(* user's status is still so while it goes through the middleware.         *)
THEOREM SessionsInvariant ==
  ASSUME Lives
  PROVE  S!Spec => []SessionsInv
<1>1. S!Init => SessionsInv
  BY InitSessions
<1>2. SessionsInv /\ [S!Next]_(S!vars) => SessionsInv'
  BY NextSessions
<1> QED BY <1>1, <1>2, PTL DEF S!Spec

LEMMA SessionsSafe ==
  ASSUME SessionsInv
  PROVE  S!TypeOK /\ S!SuspendedNotServed /\ S!KeysYoungerThanPassword /\ S!LoginsLastADay
<1>1. S!TypeOK
  BY DEF SessionsInv, Typed, UserRow, KeyRow, KeysOK, KeyOK, RequestsOK, RequestOK, S!TypeOK
<1>2. S!SuspendedNotServed
  BY DEF SessionsInv, RequestsOK, RequestOK, S!SuspendedNotServed
<1>3. S!KeysYoungerThanPassword
  BY DEF SessionsInv, KeysOK, KeyOK, S!KeysYoungerThanPassword
<1>4. S!LoginsLastADay
  BY DEF SessionsInv, KeysOK, KeyOK, Daily, S!LoginsLastADay
<1> QED BY <1>1, <1>2, <1>3, <1>4

(* Rows and requests keep their types, and belong to users there are.      *)
THEOREM SessionsTypeCorrect ==
  ASSUME Lives
  PROVE  S!Spec => []S!TypeOK
<1>1. SessionsInv => S!TypeOK
  BY SessionsSafe
<1> QED BY <1>1, SessionsInvariant, PTL

(* ExtractAPIKey serves no request that began while its user was           *)
(* suspended, unless the user was reactivated since, whatever the key and  *)
(* the provider's token went through in between.                           *)
THEOREM SuspendedAreRefused ==
  ASSUME Lives
  PROVE  S!Spec => []S!SuspendedNotServed
<1>1. SessionsInv => S!SuspendedNotServed
  BY SessionsSafe
<1> QED BY <1>1, SessionsInvariant, PTL

(* putUserPassword ends every session: no key that works was minted under  *)
(* an older password than its user's.                                      *)
THEOREM PasswordEndsSessions ==
  ASSUME Lives
  PROVE  S!Spec => []S!KeysYoungerThanPassword
<1>1. SessionsInv => S!KeysYoungerThanPassword
  BY SessionsSafe
<1> QED BY <1>1, SessionsInvariant, PTL

(* However many requests prolong it at once, the key of a password login   *)
(* ends a day after the login.                                             *)
THEOREM LoginKeysEnd ==
  ASSUME Lives
  PROVE  S!Spec => []S!LoginsLastADay
<1>1. SessionsInv => S!LoginsLastADay
  BY SessionsSafe
<1> QED BY <1>1, SessionsInvariant, PTL

(* The late UpdateAPIKeyByID of a request that read a key before it was    *)
(* deleted does not bring it back.                                         *)
THEOREM RevokedKeysStayRevoked ==
  ASSUME Lives
  PROVE  S!Spec => S!RevokedStaysRevoked
<1>1. SessionsInv /\ [S!Next]_(S!vars) => [S!StaysRevoked]_(S!vars)
  BY NextSessions DEF KeysFollow, S!StaysRevoked
<1> QED BY <1>1, SessionsInvariant, PTL DEF S!Spec, S!RevokedStaysRevoked

-----------------------------------------------------------------------------
\* A set of numbers has a least one: what the tables' next id is chosen by.
LEMMA LeastExists ==
  ASSUME NEW nums \in SUBSET Nat, nums # {}
  PROVE  \E x \in nums : \A y \in nums : x <= y
<1> DEFINE less == OpToRel(<, Nat)
<1>1. IsWellFoundedOn(less, Nat)
  BY NatLessThanWellFounded
<1>2. \A x, y \in Nat : <<y, x>> \in less <=> y < x
  BY DEF OpToRel
<1> HIDE DEF less
<1>3. PICK x \in nums : \A y \in nums : ~ (<<y, x>> \in less)
  BY <1>1, WFMin
<1>4. ASSUME NEW y \in nums PROVE x <= y
  <2>1. ~ (y < x)
    BY <1>2, <1>3
  <2> QED BY <2>1
<1> QED BY <1>4

-----------------------------------------------------------------------------
(* Accounts.                                                               *)



\* What the proofs need to know of the constants.
Population == MaxUsers \in Nat /\ Emails # {}

AccountRow ==
    [state : {"none", "live", "deleted"}, name : Names \cup {"none"}, email : Emails \cup {"none"},
     login : {"none", "password", "oidc"}, owner : BOOLEAN]
SignupRow ==
    [at : {"idle", "first", "grant", "post", "profile", "oauth"}, name : Names \cup {"none"},
     email : Emails \cup {"none"}, id : Identities \cup {"none"},
     user : U!UserIDs \cup {U!NoUser}, linked : BOOLEAN]

SignupTyped ==
    /\ users \in [U!UserIDs -> AccountRow]
    /\ orgs \subseteq Names
    /\ links \subseteq Identities \X U!UserIDs
    /\ mail \in [Identities -> Emails]
    /\ req_signup \in [SignupRequests -> SignupRow]

\* A request that is under way has a name, and the account it was found to be about was
\* made, by the provider if an identity is to be linked to it.
SignupOK(q) ==
    /\ q.at # "idle" => q.name \in Names
    /\ q.at \in {"grant", "profile"} => q.user \in U!UserIDs /\ users[q.user].state # "none"
    /\ q.at = "oauth" => q.id \in Identities
    /\ q.at = "oauth" /\ q.user # U!NoUser => users[q.user].state # "none" /\ users[q.user].login = "oidc"

\* The accounts that links lead to were made by the provider.
LinksOK == \A l \in links : users[l[2]].state # "none" /\ users[l[2]].login = "oidc"

SignupInv ==
    /\ SignupTyped
    /\ \A r \in SignupRequests : SignupOK(req_signup[r])
    /\ LinksOK
    /\ U!NamesUnique

\* An account that was made stays, with its login type.
AccountsStay ==
    \A u \in U!UserIDs : users[u].state # "none" =>
        users'[u].state # "none" /\ users'[u].login = users[u].login

LEMMA InitSignup == ASSUME Population, U!Init PROVE SignupInv
<1>1. [state |-> "none", name |-> "none", email |-> "none", login |-> "none", owner |-> FALSE] \in AccountRow
  BY DEF AccountRow
<1>2. users \in [U!UserIDs -> AccountRow] /\ \A u \in U!UserIDs : users[u].state = "none"
  BY <1>1 DEF U!Init
<1>3. U!Idle \in SignupRow /\ U!Idle.at = "idle"
  BY DEF U!Idle, SignupRow
<1>4. req_signup \in [SignupRequests -> SignupRow] /\ \A r \in SignupRequests : SignupOK(req_signup[r])
  BY <1>3 DEF U!Init, SignupOK
<1>5. (CHOOSE e \in Emails : TRUE) \in Emails
  BY DEF Population
<1>6. mail \in [Identities -> Emails]
  BY <1>5 DEF U!Init
<1>7. U!NamesUnique /\ LinksOK
  BY <1>2 DEF U!NamesUnique, U!Live, LinksOK, U!Init
<1> QED BY <1>2, <1>4, <1>6, <1>7 DEF SignupInv, SignupTyped, U!Init

\* The next id is one that no account has.
LEMMA NextIDFree ==
  ASSUME Population, NEW u \in U!UserIDs, users[u].state = "none"
  PROVE  U!NextID \in U!UserIDs /\ users[U!NextID].state = "none"
<1> DEFINE free == {v \in U!UserIDs : users[v].state = "none"}
<1>1. free \subseteq Nat /\ free # {}
  BY DEF U!UserIDs, Population
<1>2. PICK least \in free : \A y \in free : least <= y
  BY <1>1, LeastExists
<1>3. \E x \in U!UserIDs : users[x].state = "none" /\ \A v \in U!UserIDs : users[v].state = "none" => x <= v
  BY <1>2
<1> QED BY <1>3 DEF U!NextID

\* CreateUser, which the unique indexes guard, keeps the accounts apart.
LEMMA CreateKeeps ==
  ASSUME Population, SignupInv, NEW n \in Names, NEW e \in Emails \cup {"none"},
         NEW method \in {"password", "oidc"}, NEW inOrg \in BOOLEAN, U!CreateUser(n, e, method, inOrg)
  PROVE  /\ users' \in [U!UserIDs -> AccountRow] /\ orgs' \subseteq Names
         /\ U!NextID \in U!UserIDs
         /\ users'[U!NextID].state = "live" /\ users'[U!NextID].login = method
         /\ AccountsStay /\ U!NamesUnique'
<1> DEFINE new == [state |-> "live", name |-> n, email |-> e, login |-> method, owner |-> FALSE]
           id == U!NextID
<1>1. id \in U!UserIDs /\ users[id].state = "none"
  BY NextIDFree DEF U!CreateUser
<1>2. new \in AccountRow
  BY DEF AccountRow
<1>3. users' = [users EXCEPT ![id] = new]
  BY DEF U!CreateUser, U!Inserted
<1>4. U!ByName(n) = {} /\ U!ByEmail(e) = {}
  BY DEF U!CreateUser, U!Creatable, U!Insertable
<1>5. new.state = "live" /\ new.name = n /\ new.email = e /\ new.login = method
  OBVIOUS
<1> HIDE DEF new, id
<1>6. users' \in [U!UserIDs -> AccountRow] /\ users'[id] = new
      /\ \A u \in U!UserIDs : u # id => users'[u] = users[u]
  BY <1>1, <1>2, <1>3 DEF SignupInv, SignupTyped
<1>7. AccountsStay
  BY <1>1, <1>6 DEF AccountsStay
<1>8. orgs' \subseteq Names
  BY DEF U!CreateUser, SignupInv, SignupTyped
<1>9. ASSUME NEW u \in U!UserIDs, NEW v \in U!UserIDs, u # v,
             users'[u].state = "live", users'[v].state = "live"
      PROVE  users'[u].name # users'[v].name /\ users'[u].email # users'[v].email
  <2>1. \A w \in U!UserIDs : w # id /\ users'[w].state = "live" =>
            users'[w] = users[w] /\ users[w].name # n /\ users[w].email # e
    BY <1>4, <1>6 DEF U!ByName, U!ByEmail, U!Live
  <2>2. CASE u = id
    BY <1>5, <1>6, <1>9, <2>1, <2>2
  <2>3. CASE v = id
    BY <1>5, <1>6, <1>9, <2>1, <2>3
  <2>4. CASE u # id /\ v # id
    BY <1>9, <2>1, <2>4 DEF SignupInv, U!NamesUnique, U!Live
  <2> QED BY <2>2, <2>3, <2>4
<1>10. U!NamesUnique'
  BY <1>9 DEF U!NamesUnique, U!Live
<1> QED BY <1>1, <1>5, <1>6, <1>7, <1>8, <1>10 DEF id

\* What was found out about the accounts stays true of them.
LEMMA RequestsFollow ==
  ASSUME SignupInv, AccountsStay, NEW r \in SignupRequests,
         \A s \in SignupRequests : s # r => req_signup'[s] = req_signup[s], SignupOK(req_signup[r])'
  PROVE  \A s \in SignupRequests : SignupOK(req_signup[s])'
<1>1. ASSUME NEW s \in SignupRequests, s # r PROVE SignupOK(req_signup[s])'
  <2>1. req_signup'[s] = req_signup[s] /\ req_signup[s] \in SignupRow /\ SignupOK(req_signup[s])
    BY <1>1 DEF SignupInv, SignupTyped
  <2>2. req_signup[s].user \in U!UserIDs \cup {U!NoUser}
    BY <2>1 DEF SignupRow
  <2> QED BY <2>1, <2>2 DEF SignupOK, AccountsStay
<1> QED BY <1>1

LEMMA SameRequests ==
  ASSUME SignupInv, AccountsStay, UNCHANGED req_signup
  PROVE  req_signup' \in [SignupRequests -> SignupRow] /\ \A s \in SignupRequests : SignupOK(req_signup[s])'
<1>1. ASSUME NEW s \in SignupRequests PROVE SignupOK(req_signup[s])'
  <2>1. req_signup[s] \in SignupRow /\ SignupOK(req_signup[s])
    BY DEF SignupInv, SignupTyped
  <2>2. req_signup[s].user \in U!UserIDs \cup {U!NoUser}
    BY <2>1 DEF SignupRow
  <2> QED BY <2>1, <2>2 DEF SignupOK, AccountsStay
<1> QED BY <1>1 DEF SignupInv, SignupTyped

LEMMA SameLinks ==
  ASSUME SignupInv, AccountsStay, UNCHANGED links
  PROVE  links' \subseteq Identities \X U!UserIDs /\ LinksOK'
  BY DEF SignupInv, SignupTyped, LinksOK, AccountsStay

LEMMA SameAccounts ==
  ASSUME SignupInv, UNCHANGED users
  PROVE  users' \in [U!UserIDs -> AccountRow] /\ AccountsStay /\ U!NamesUnique'
  BY DEF SignupInv, SignupTyped, AccountsStay, U!NamesUnique, U!Live

\* A handler that gives up or is done.
LEMMA EntersIdle ==
  ASSUME SignupInv, AccountsStay, NEW r \in SignupRequests, U!Enter(r, U!Idle)
  PROVE  req_signup' \in [SignupRequests -> SignupRow] /\ \A s \in SignupRequests : SignupOK(req_signup[s])'
<1>1. U!Idle \in SignupRow /\ U!Idle.at = "idle"
  BY DEF U!Idle, SignupRow
<1>2. req_signup'[r] = U!Idle /\ req_signup' \in [SignupRequests -> SignupRow]
      /\ \A s \in SignupRequests : s # r => req_signup'[s] = req_signup[s]
  BY <1>1 DEF U!Enter, SignupInv, SignupTyped
<1>3. SignupOK(req_signup[r])'
  BY <1>1, <1>2 DEF SignupOK
<1> QED BY <1>1, <1>2, <1>3, RequestsFollow

\* A handler that looks and goes on, with the accounts as they are.
LEMMA EntersLooked ==
  ASSUME SignupInv, NEW r \in SignupRequests, NEW q \in SignupRow, U!Enter(r, q), SignupOK(q),
         UNCHANGED <<users, orgs, links, mail>>
  PROVE  SignupInv'
<1>1. req_signup'[r] = q /\ req_signup' \in [SignupRequests -> SignupRow]
      /\ \A s \in SignupRequests : s # r => req_signup'[s] = req_signup[s]
  BY DEF U!Enter, SignupInv, SignupTyped
<1>2. SignupOK(req_signup[r])'
  BY <1>1 DEF SignupOK
<1> QED BY <1>1, <1>2, RequestsFollow, SameLinks, SameAccounts DEF SignupInv, SignupTyped

\* findLinkedUser finds accounts that are not deleted, or none.
LEMMA FoundIsLive ==
  ASSUME NEW i \in Identities, NEW f \in U!findLinkedUser(i)
  PROVE  /\ f.user \in U!UserIDs \cup {U!NoUser} /\ f.linked \in BOOLEAN
         /\ f.user # U!NoUser => users[f.user].state # "none"
<1> DEFINE byLink == {u \in U!UserIDs : <<i, u>> \in links}
           linkOf(u) == \E j \in Identities : <<j, u>> \in links
           byEmail == {[user |-> u, linked |-> linkOf(u)] : u \in U!ByEmail(mail[i])}
           fallback == IF byEmail = {} THEN {[user |-> U!NoUser, linked |-> FALSE]} ELSE byEmail
           Found(g) == /\ g.user \in U!UserIDs \cup {U!NoUser} /\ g.linked \in BOOLEAN
                       /\ g.user # U!NoUser => users[g.user].state # "none"
<1>1. ASSUME NEW g \in fallback PROVE Found(g)
  <2>1. CASE g = [user |-> U!NoUser, linked |-> FALSE]
    BY <2>1
  <2>2. ASSUME NEW u \in U!ByEmail(mail[i]), g = [user |-> u, linked |-> linkOf(u)]
        PROVE  Found(g)
    <3>1. g.user = u /\ g.linked = linkOf(u)
      BY <2>2
    <3>2. u \in U!UserIDs /\ users[u].state = "live"
      BY DEF U!ByEmail, U!Live
    <3> QED BY <3>1, <3>2
  <2> QED BY <2>1, <2>2
<1>2. ASSUME NEW u \in U!UserIDs, users[u].state = "live", f = [user |-> u, linked |-> TRUE]
      PROVE  Found(f)
  BY <1>2
<1>3. \/ f \in fallback
      \/ \E u \in U!UserIDs : users[u].state = "live" /\ f = [user |-> u, linked |-> TRUE]
  <2>1. CASE byLink = {}
    <3>1. f \in fallback
      BY <2>1 DEF U!findLinkedUser
    <3> QED BY <3>1
  <2>2. CASE byLink # {}
    <3>1. f \in UNION {IF users[u].state = "live" THEN {[user |-> u, linked |-> TRUE]} ELSE fallback : u \in byLink}
      BY <2>2 DEF U!findLinkedUser
    <3> HIDE DEF fallback
    <3>2. PICK u \in byLink : f \in IF users[u].state = "live" THEN {[user |-> u, linked |-> TRUE]} ELSE fallback
      BY <3>1
    <3> QED BY <3>2
  <2> QED BY <2>1, <2>2
<1> QED BY <1>1, <1>2, <1>3

\* The look of every handler.
LEMMA LooksKeep ==
  ASSUME SignupInv, NEW r \in SignupRequests,
         \/ \E n \in Names, e \in Emails : U!CountUsers(r, n, e) \/ U!CheckUser(r, n, e)
         \/ \E u \in U!UserIDs, n \in Names : U!CheckProfile(r, u, n)
         \/ \E i \in Identities, n \in Names : U!FindUser(r, i, n)
  PROVE  SignupInv'
<1>0. U!Idle \in SignupRow /\ U!NoUser \notin U!UserIDs
  BY DEF U!Idle, SignupRow, U!NoUser, U!UserIDs
<1>1. ASSUME NEW n \in Names, NEW e \in Emails, U!CountUsers(r, n, e) \/ U!CheckUser(r, n, e)
      PROVE  SignupInv'
  <2>1. PICK p \in {"first", "post"} : U!Enter(r, [U!Idle EXCEPT !.at = p, !.name = n, !.email = e])
    BY <1>1 DEF U!CountUsers, U!CheckUser
  <2>2. PICK q : q = [U!Idle EXCEPT !.at = p, !.name = n, !.email = e]
    OBVIOUS
  <2>3. q \in SignupRow /\ q.at = p /\ q.name = n
    BY <1>0, <2>2 DEF SignupRow
  <2>4. SignupOK(q)
    BY <2>3 DEF SignupOK
  <2> QED BY <1>1, <2>1, <2>2, <2>3, <2>4, EntersLooked DEF U!CountUsers, U!CheckUser
<1>2. ASSUME NEW u \in U!UserIDs, NEW n \in Names, U!CheckProfile(r, u, n)
      PROVE  SignupInv'
  <2>1. PICK q : q = [U!Idle EXCEPT !.at = "profile", !.user = u, !.name = n, !.email = users[u].email]
    OBVIOUS
  <2>2. users[u].email \in Emails \cup {"none"}
    BY DEF SignupInv, SignupTyped, AccountRow
  <2>3. q \in SignupRow /\ q.at = "profile" /\ q.name = n /\ q.user = u
    BY <1>0, <2>1, <2>2 DEF SignupRow
  <2>4. SignupOK(q)
    BY <1>2, <2>3 DEF SignupOK, U!CheckProfile
  <2> QED BY <1>2, <2>1, <2>3, <2>4, EntersLooked DEF U!CheckProfile
<1>3. ASSUME NEW i \in Identities, NEW n \in Names, U!FindUser(r, i, n)
      PROVE  SignupInv'
  <2>1. PICK f \in U!findLinkedUser(i) :
          /\ ~U!WrongLoginType(f.user)
          /\ U!Enter(r, [at |-> "oauth", name |-> n, email |-> mail[i], id |-> i, user |-> f.user, linked |-> f.linked])
    BY <1>3 DEF U!FindUser
  <2>2. /\ f.user \in U!UserIDs \cup {U!NoUser} /\ f.linked \in BOOLEAN
        /\ f.user # U!NoUser => users[f.user].state # "none"
    BY <2>1, FoundIsLive
  <2>3. PICK q : q = [at |-> "oauth", name |-> n, email |-> mail[i], id |-> i, user |-> f.user, linked |-> f.linked]
    OBVIOUS
  <2>4. mail[i] \in Emails
    BY DEF SignupInv, SignupTyped
  <2>5. q \in SignupRow
    BY <2>2, <2>3, <2>4 DEF SignupRow
  <2>6. q.at = "oauth" /\ q.name = n /\ q.id = i /\ q.user = f.user
    BY <2>3
  <2>7. SignupOK(q)
    BY <2>1, <2>2, <2>6 DEF SignupOK, U!WrongLoginType
  <2> QED BY <1>3, <2>1, <2>3, <2>5, <2>7, EntersLooked DEF U!FindUser
<1> QED BY <1>1, <1>2, <1>3

\* The handlers that make accounts.
LEMMA CreatesKeep ==
  ASSUME Population, SignupInv,
         \/ \E r \in SignupRequests : U!postFirstUser(r) \/ U!postUser(r) \/ U!SignUp(r)
         \/ \E n \in Names, e \in Emails : U!scimPostUser(n, e)
  PROVE  SignupInv'
<1>1. ASSUME NEW r \in SignupRequests, U!Fail(r), UNCHANGED mail PROVE SignupInv'
  <2>1. U!Enter(r, U!Idle) /\ UNCHANGED <<users, orgs, links>>
    BY <1>1 DEF U!Fail
  <2> QED BY <1>1, <2>1, SameAccounts, SameLinks, EntersIdle DEF SignupInv, SignupTyped
<1>2. ASSUME NEW r \in SignupRequests
      PROVE  /\ req_signup[r] \in SignupRow /\ SignupOK(req_signup[r])
             /\ req_signup[r].email \in Emails \cup {"none"}
             /\ req_signup[r].at # "idle" => req_signup[r].name \in Names
  BY DEF SignupInv, SignupTyped, SignupRow, SignupOK
<1>3. ASSUME NEW r \in SignupRequests, U!postFirstUser(r) PROVE SignupInv'
  <2>1. CASE U!Fail(r)
    BY <1>1, <1>3, <2>1 DEF U!postFirstUser
  <2>2. CASE /\ U!CreateUser(req_signup[r].name, req_signup[r].email, "password", FALSE)
             /\ U!Enter(r, [req_signup[r] EXCEPT !.at = "grant", !.user = U!NextID]) /\ UNCHANGED links
    <3>1. req_signup[r].name \in Names /\ req_signup[r].email \in Emails \cup {"none"}
      BY <1>2, <1>3 DEF U!postFirstUser
    <3>2. /\ users' \in [U!UserIDs -> AccountRow] /\ orgs' \subseteq Names /\ U!NextID \in U!UserIDs
          /\ users'[U!NextID].state = "live" /\ AccountsStay /\ U!NamesUnique'
      BY <2>2, <3>1, CreateKeeps
    <3>3. PICK q : q = [req_signup[r] EXCEPT !.at = "grant", !.user = U!NextID]
      OBVIOUS
    <3>4. q \in SignupRow /\ q.at = "grant" /\ q.user = U!NextID /\ q.name = req_signup[r].name
      BY <1>2, <3>2, <3>3 DEF SignupRow
    <3>5. req_signup'[r] = q /\ req_signup' \in [SignupRequests -> SignupRow]
          /\ \A s \in SignupRequests : s # r => req_signup'[s] = req_signup[s]
      BY <2>2, <3>3, <3>4 DEF U!Enter, SignupInv, SignupTyped
    <3>6. SignupOK(req_signup[r])'
      BY <3>1, <3>2, <3>4, <3>5 DEF SignupOK
    <3> QED BY <1>3, <2>2, <3>2, <3>5, <3>6, RequestsFollow, SameLinks
            DEF U!postFirstUser, SignupInv, SignupTyped
  <2> QED BY <1>3, <2>1, <2>2 DEF U!postFirstUser
<1>4. ASSUME NEW r \in SignupRequests, U!postUser(r) PROVE SignupInv'
  <2>1. CASE U!Fail(r)
    BY <1>1, <1>4, <2>1 DEF U!postUser
  <2>2. CASE /\ U!CreateUser(req_signup[r].name, req_signup[r].email, "password", TRUE)
             /\ U!Enter(r, U!Idle) /\ UNCHANGED links
    <3>1. req_signup[r].name \in Names /\ req_signup[r].email \in Emails \cup {"none"}
      BY <1>2, <1>4 DEF U!postUser
    <3>2. /\ users' \in [U!UserIDs -> AccountRow] /\ orgs' \subseteq Names
          /\ AccountsStay /\ U!NamesUnique'
      BY <2>2, <3>1, CreateKeeps
    <3> QED BY <1>4, <2>2, <3>2, EntersIdle, SameLinks DEF U!postUser, SignupInv, SignupTyped
  <2> QED BY <1>4, <2>1, <2>2 DEF U!postUser
<1>5. ASSUME NEW r \in SignupRequests, U!SignUp(r) PROVE SignupInv'
  <2>1. CASE U!Fail(r)
    BY <1>1, <1>5, <2>1 DEF U!SignUp
  <2>2. CASE /\ U!CreateUser(req_signup[r].name, req_signup[r].email, "oidc", orgs # {})
             /\ links' = links \cup {<<req_signup[r].id, U!NextID>>} /\ U!Enter(r, U!Idle)
    <3>1. /\ req_signup[r].name \in Names /\ req_signup[r].email \in Emails \cup {"none"}
          /\ req_signup[r].id \in Identities
      BY <1>2, <1>5 DEF U!SignUp, SignupOK
    <3>2. /\ users' \in [U!UserIDs -> AccountRow] /\ orgs' \subseteq Names /\ U!NextID \in U!UserIDs
          /\ users'[U!NextID].state = "live" /\ users'[U!NextID].login = "oidc"
          /\ AccountsStay /\ U!NamesUnique'
      BY <2>2, <3>1, CreateKeeps
    <3>3. links' \subseteq Identities \X U!UserIDs /\ LinksOK'
      BY <2>2, <3>1, <3>2 DEF SignupInv, SignupTyped, LinksOK, AccountsStay
    <3> QED BY <1>5, <2>2, <3>2, <3>3, EntersIdle DEF U!SignUp, SignupInv, SignupTyped
  <2> QED BY <1>5, <2>1, <2>2 DEF U!SignUp
<1>6. ASSUME NEW n \in Names, NEW e \in Emails, U!scimPostUser(n, e) PROVE SignupInv'
  <2>1. /\ users' \in [U!UserIDs -> AccountRow] /\ orgs' \subseteq Names /\ AccountsStay /\ U!NamesUnique'
    BY <1>6, CreateKeeps DEF U!scimPostUser
  <2> QED BY <1>6, <2>1, SameRequests, SameLinks DEF U!scimPostUser, SignupInv, SignupTyped
<1> QED BY <1>3, <1>4, <1>5, <1>6

\* The unique indexes, for a row that is there already: name and e-mail are no other's.
LEMMA RenameKeeps ==
  ASSUME SignupInv, NEW u \in U!UserIDs, users[u].state # "none",
         NEW n \in Names \cup {"none"}, NEW e \in Emails \cup {"none"}, U!Renamable(u, n, e),
         users' = [users EXCEPT ![u].name = n, ![u].email = e]
  PROVE  users' \in [U!UserIDs -> AccountRow] /\ AccountsStay /\ U!NamesUnique'
<1>1. PICK row : row = [users[u] EXCEPT !.name = n, !.email = e]
  OBVIOUS
<1>2. users[u] \in AccountRow
  BY DEF SignupInv, SignupTyped
<1>3. /\ row \in AccountRow /\ row.name = n /\ row.email = e
      /\ row.state = users[u].state /\ row.login = users[u].login
  BY <1>1, <1>2 DEF AccountRow
<1>4. /\ users' \in [U!UserIDs -> AccountRow] /\ users'[u] = row
      /\ \A v \in U!UserIDs : v # u => users'[v] = users[v]
  BY <1>1, <1>3 DEF SignupInv, SignupTyped
<1>5. AccountsStay
  BY <1>3, <1>4 DEF AccountsStay
<1>6. \A v \in U!UserIDs : v # u /\ users[v].state = "live" /\ users[u].state = "live" =>
          users[v].name # n /\ users[v].email # e
  BY DEF U!Renamable, U!ByName, U!ByEmail, U!Live
<1>7. ASSUME NEW v \in U!UserIDs, NEW w \in U!UserIDs, v # w,
             users'[v].state = "live", users'[w].state = "live"
      PROVE  users'[v].name # users'[w].name /\ users'[v].email # users'[w].email
  <2>1. CASE v = u
    BY <1>3, <1>4, <1>6, <1>7, <2>1
  <2>2. CASE w = u
    BY <1>3, <1>4, <1>6, <1>7, <2>2
  <2>3. CASE v # u /\ w # u
    BY <1>4, <1>7, <2>3 DEF SignupInv, U!NamesUnique, U!Live
  <2> QED BY <2>1, <2>2, <2>3
<1> QED BY <1>4, <1>5, <1>7 DEF U!NamesUnique, U!Live

\* The handlers that change accounts.
LEMMA ChangesKeep ==
  ASSUME SignupInv,
         \/ \E r \in SignupRequests : U!GrantOwner(r) \/ U!putUserProfile(r) \/ U!oauthLogin(r)
         \/ \E u \in U!UserIDs : U!deleteUser(u)
  PROVE  SignupInv'
<1>1. ASSUME NEW r \in SignupRequests, U!Fail(r), UNCHANGED mail PROVE SignupInv'
  <2>1. U!Enter(r, U!Idle) /\ UNCHANGED <<users, orgs, links>>
    BY <1>1 DEF U!Fail
  <2> QED BY <1>1, <2>1, SameAccounts, SameLinks, EntersIdle DEF SignupInv, SignupTyped
<1>2. ASSUME NEW r \in SignupRequests
      PROVE  /\ req_signup[r] \in SignupRow /\ SignupOK(req_signup[r])
             /\ req_signup[r].email \in Emails \cup {"none"} /\ req_signup[r].name \in Names \cup {"none"}
             /\ req_signup[r].user \in U!UserIDs \cup {U!NoUser}
  BY DEF SignupInv, SignupTyped, SignupRow
<1>3. ASSUME NEW u \in U!UserIDs, NEW row \in AccountRow, users' = [users EXCEPT ![u] = row],
             row.name = users[u].name, row.email = users[u].email, row.login = users[u].login,
             row.state \in {users[u].state, "deleted"}
      PROVE  users' \in [U!UserIDs -> AccountRow] /\ AccountsStay /\ U!NamesUnique'
  <2>1. /\ users' \in [U!UserIDs -> AccountRow] /\ users'[u] = row
        /\ \A v \in U!UserIDs : v # u => users'[v] = users[v]
    BY <1>3 DEF SignupInv, SignupTyped
  <2>2. AccountsStay
    BY <1>3, <2>1 DEF AccountsStay
  <2>3. \A v \in U!UserIDs : /\ users'[v].state = "live" => users[v].state = "live"
                             /\ users'[v].name = users[v].name /\ users'[v].email = users[v].email
    BY <1>3, <2>1
  <2> QED BY <2>1, <2>2, <2>3 DEF SignupInv, U!NamesUnique, U!Live
<1>4. ASSUME NEW r \in SignupRequests, U!GrantOwner(r) PROVE SignupInv'
  <2>1. PICK u \in U!UserIDs : u = req_signup[r].user /\ users[u].state # "none"
    BY <1>2, <1>4 DEF U!GrantOwner, SignupOK
  <2>2. PICK row : row = [users[u] EXCEPT !.owner = TRUE]
    OBVIOUS
  <2>3. users[u] \in AccountRow
    BY DEF SignupInv, SignupTyped
  <2>4. /\ row \in AccountRow /\ row.name = users[u].name /\ row.email = users[u].email
        /\ row.login = users[u].login /\ row.state = users[u].state
    BY <2>2, <2>3 DEF AccountRow
  <2>5. users' = [users EXCEPT ![u] = row]
    BY <1>4, <2>1, <2>2 DEF U!GrantOwner
  <2>6. users' \in [U!UserIDs -> AccountRow] /\ AccountsStay /\ U!NamesUnique'
    BY <1>3, <2>4, <2>5
  <2> QED BY <1>4, <2>6, EntersIdle, SameLinks DEF U!GrantOwner, SignupInv, SignupTyped
<1>5. ASSUME NEW u \in U!UserIDs, U!deleteUser(u) PROVE SignupInv'
  <2>1. PICK row : row = [users[u] EXCEPT !.state = "deleted"]
    OBVIOUS
  <2>2. users[u] \in AccountRow
    BY DEF SignupInv, SignupTyped
  <2>3. /\ row \in AccountRow /\ row.name = users[u].name /\ row.email = users[u].email
        /\ row.login = users[u].login /\ row.state = "deleted"
    BY <2>1, <2>2 DEF AccountRow
  <2>4. users' = [users EXCEPT ![u] = row]
    BY <1>5, <2>1 DEF U!deleteUser
  <2>5. users' \in [U!UserIDs -> AccountRow] /\ AccountsStay /\ U!NamesUnique'
    BY <1>3, <2>3, <2>4
  <2> QED BY <1>5, <2>5, SameRequests, SameLinks DEF U!deleteUser, SignupInv, SignupTyped
<1>6. ASSUME NEW r \in SignupRequests, U!putUserProfile(r) PROVE SignupInv'
  <2>1. CASE U!Fail(r)
    BY <1>1, <1>6, <2>1 DEF U!putUserProfile
  <2>2. CASE ~U!Fail(r)
    <3>1. PICK u \in U!UserIDs : u = req_signup[r].user /\ users[u].state # "none"
      BY <1>2, <1>6 DEF U!putUserProfile, SignupOK
    <3>2. /\ U!Renamable(u, req_signup[r].name, req_signup[r].email)
          /\ users' = [users EXCEPT ![u].name = req_signup[r].name, ![u].email = req_signup[r].email]
          /\ U!Enter(r, U!Idle) /\ UNCHANGED <<orgs, links, mail>>
      BY <1>6, <2>2, <3>1 DEF U!putUserProfile
    <3>3. users' \in [U!UserIDs -> AccountRow] /\ AccountsStay /\ U!NamesUnique'
      BY <1>2, <3>1, <3>2, RenameKeeps
    <3> QED BY <3>2, <3>3, EntersIdle, SameLinks DEF SignupInv, SignupTyped
  <2> QED BY <2>1, <2>2
<1>7. ASSUME NEW r \in SignupRequests, U!oauthLogin(r) PROVE SignupInv'
  <2>1. CASE U!Fail(r)
    BY <1>1, <1>7, <2>1 DEF U!oauthLogin
  <2>2. CASE ~U!Fail(r)
    <3>1. PICK u \in U!UserIDs : /\ u = req_signup[r].user /\ users[u].state # "none"
                                 /\ users[u].login = "oidc" /\ req_signup[r].id \in Identities
      BY <1>2, <1>7 DEF U!oauthLogin, SignupOK
    <3>2. /\ U!Renamable(u, users[u].name, req_signup[r].email)
          /\ users' = [users EXCEPT ![u].email = req_signup[r].email]
          /\ links' = IF req_signup[r].linked THEN links ELSE links \cup {<<req_signup[r].id, u>>}
          /\ U!Enter(r, U!Idle) /\ UNCHANGED <<orgs, mail>>
      BY <1>7, <2>2, <3>1 DEF U!oauthLogin
    <3>3. users[u] \in AccountRow /\ users[u].name \in Names \cup {"none"}
      BY DEF SignupInv, SignupTyped, AccountRow
    <3>4. [users[u] EXCEPT !.email = req_signup[r].email]
            = [users[u] EXCEPT !.name = users[u].name, !.email = req_signup[r].email]
      BY <3>3 DEF AccountRow
    <3>5. users' = [users EXCEPT ![u].name = users[u].name, ![u].email = req_signup[r].email]
      BY <3>2, <3>4 DEF SignupInv, SignupTyped
    <3>6. users' \in [U!UserIDs -> AccountRow] /\ AccountsStay /\ U!NamesUnique'
      BY <1>2, <3>1, <3>2, <3>3, <3>5, RenameKeeps
    <3>7. links' \subseteq Identities \X U!UserIDs /\ LinksOK'
      BY <3>1, <3>2, <3>6 DEF SignupInv, SignupTyped, LinksOK, AccountsStay
    <3> QED BY <3>2, <3>6, <3>7, EntersIdle DEF SignupInv, SignupTyped
  <2> QED BY <2>1, <2>2
<1> QED BY <1>4, <1>5, <1>6, <1>7

LEMMA NextSignup == ASSUME Population, SignupInv, [U!Next]_(U!vars) PROVE SignupInv'
<1>1. ASSUME NEW n \in Names, U!postOrganizations(n) PROVE SignupInv'
  BY <1>1, SameAccounts, SameRequests, SameLinks DEF U!postOrganizations, SignupInv, SignupTyped
<1>2. ASSUME NEW i \in Identities, NEW e \in Emails, U!MoveMail(i, e) PROVE SignupInv'
  BY <1>2, SameAccounts, SameRequests, SameLinks DEF U!MoveMail, SignupInv, SignupTyped
<1>3. CASE UNCHANGED U!vars
  BY <1>3, SameAccounts, SameRequests, SameLinks DEF U!vars, SignupInv, SignupTyped
<1> QED BY <1>1, <1>2, <1>3, LooksKeep, CreatesKeep, ChangesKeep DEF U!Next

LEMMA SignupSafe == ASSUME SignupInv PROVE U!TypeOK /\ U!LinksMatchLoginType /\ U!NamesUnique
<1>1. \A u \in U!UserIDs : users[u].state \in {"none", "live", "deleted"}
  BY DEF SignupInv, SignupTyped, AccountRow
<1>2. \A r \in SignupRequests : req_signup[r].user \in U!UserIDs \cup {U!NoUser}
  BY DEF SignupInv, SignupTyped, SignupRow
<1>3. links \subseteq Identities \X {u \in U!UserIDs : users[u].state # "none"}
  BY DEF SignupInv, SignupTyped, LinksOK
<1> QED BY <1>1, <1>2, <1>3 DEF SignupInv, SignupTyped, LinksOK, U!TypeOK, U!LinksMatchLoginType

LEMMA SignupInvariant == ASSUME Population PROVE U!Spec => []SignupInv
<1>1. U!Init => SignupInv
  BY InitSignup
<1>2. SignupInv /\ [U!Next]_(U!vars) => SignupInv'
  BY NextSignup
<1> QED BY <1>1, <1>2, PTL DEF U!Spec

(* No two accounts that are not deleted share a name or an e-mail: every   *)
(* handler looks before it writes, and it is the unique indexes that keep  *)
(* apart what changed in between.                                          *)
THEOREM AccountsUnique == ASSUME Population PROVE U!Spec => []U!NamesUnique
<1>1. SignupInv => U!NamesUnique
  BY DEF SignupInv
<1> QED BY <1>1, SignupInvariant, PTL

(* An OAuth login links no identity to an account with a password, even    *)
(* when the account it found was changed before it writes.                 *)
THEOREM NoTakeover == ASSUME Population PROVE U!Spec => [](U!TypeOK /\ U!LinksMatchLoginType)
<1>1. SignupInv => U!TypeOK /\ U!LinksMatchLoginType
  BY SignupSafe
<1> QED BY <1>1, SignupInvariant, PTL

-----------------------------------------------------------------------------
(* Roles and lists.                                                        *)



RolesTyped ==
    /\ site \in [RoleUsers -> SUBSET R!SiteNames] /\ admin \in [RoleUsers -> SUBSET Orgs]
    /\ inGroup \subseteq RoleUsers
    /\ granted = [u \in RoleUsers |-> granted[u]]
    /\ req_roles = [r \in RoleRequests |-> req_roles[r]]

\* The roles that a request found its target to have were given by someone who may.
DecisionOK(q) ==
    /\ q.at \in {"idle", "decide"}
    /\ q.at = "decide" => /\ q.actor \in RoleUsers /\ q.target \in RoleUsers /\ q.org \in Orgs \cup {R!NoOrg}
                          /\ q.held \subseteq granted[q.target]

RolesInv == RolesTyped /\ R!RolesWereGranted /\ \A r \in RoleRequests : DecisionOK(req_roles[r])

LEMMA InitRoles == ASSUME R!Init PROVE RolesInv
<1>1. site \in [RoleUsers -> SUBSET R!SiteNames]
  BY DEF R!Init, R!SiteNames
<1>2. \A u \in RoleUsers : R!SiteRoles(u) = granted[u] /\ R!OrgRoles(u) = {}
  BY DEF R!Init, R!SiteRoles, R!OrgRoles
<1>3. R!RolesWereGranted
  BY <1>2 DEF R!RolesWereGranted
<1>4. \A r \in RoleRequests : req_roles[r].at = "idle"
  BY DEF R!Init, R!Idle
<1>5. RolesTyped
  BY <1>1 DEF R!Init, RolesTyped
<1> QED BY <1>3, <1>4, <1>5 DEF RolesInv, DecisionOK

\* A history of what was given only grows.
LEMMA DecisionsStay ==
  ASSUME RolesInv, NEW r \in RoleRequests, req_roles' = [req_roles EXCEPT ![r] = R!Idle],
         \A u \in RoleUsers : granted[u] \subseteq granted'[u]
  PROVE  \A s \in RoleRequests : DecisionOK(req_roles[s])'
<1>1. R!Idle.at = "idle"
  BY DEF R!Idle
<1>2. req_roles'[r] = R!Idle /\ \A s \in RoleRequests : s # r => req_roles'[s] = req_roles[s]
  BY DEF RolesInv, RolesTyped
<1>3. ASSUME NEW s \in RoleRequests PROVE DecisionOK(req_roles[s])'
  <2>1. CASE s = r
    BY <1>1, <1>2, <2>1 DEF DecisionOK
  <2>2. CASE s # r
    <3>1. DecisionOK(req_roles[s])
      BY DEF RolesInv
    <3> QED BY <1>2, <2>2, <3>1 DEF DecisionOK
  <2> QED BY <2>1, <2>2
<1> QED BY <1>3

\* What a handler writes was held when it looked, or is its actor's to give.
LEMMA WrittenIsGranted ==
  ASSUME RolesInv, NEW r \in RoleRequests, req_roles[r].at = "decide", NEW to, NEW implied, NEW type,
         R!Assignable(req_roles[r], to \cup implied, type), R!Record(req_roles[r], to)
  PROVE  /\ granted' = [u \in RoleUsers |-> granted'[u]]
         /\ \A u \in RoleUsers : granted[u] \subseteq granted'[u]
         /\ to \subseteq granted'[req_roles[r].target]
<1>1. req_roles[r].target \in RoleUsers /\ req_roles[r].held \subseteq granted[req_roles[r].target]
  BY DEF RolesInv, DecisionOK
<1>2. PICK t \in RoleUsers : t = req_roles[r].target
  BY <1>1
<1>3. granted' = [granted EXCEPT ![t] =
                    @ \cup {role \in to : R!CanAssignRole(req_roles[r].roles, role)}]
  BY <1>2 DEF R!Record
<1>4. /\ granted'[t] = granted[t] \cup {role \in to : R!CanAssignRole(req_roles[r].roles, role)}
      /\ \A u \in RoleUsers : u # t => granted'[u] = granted[u]
      /\ granted' = [u \in RoleUsers |-> granted'[u]]
  BY <1>3 DEF RolesInv, RolesTyped
<1>5. ASSUME NEW role \in to PROVE role \in granted'[t]
  <2>1. role \in req_roles[r].held \/ R!CanAssignRole(req_roles[r].roles, role)
    BY DEF R!Assignable, R!Added
  <2> QED BY <1>1, <1>2, <1>4, <2>1
<1> QED BY <1>2, <1>4, <1>5

LEMMA NextRoles == ASSUME RolesInv, [R!Next]_(R!vars) PROVE RolesInv'
<1>1. ASSUME NEW r \in RoleRequests, NEW u \in RoleUsers, NEW v \in RoleUsers, NEW org \in Orgs \cup {R!NoOrg},
             R!Read(r, u, v, org)
      PROVE  RolesInv'
  <2>1. PICK q : q = [at |-> "decide", actor |-> u, roles |-> R!UserRoles(u), target |-> v, org |-> org,
                      held |-> IF org = R!NoOrg THEN R!SiteRoles(v) ELSE {x \in R!OrgRoles(v) : x[2] = org}]
    OBVIOUS
  <2>2. req_roles' = [req_roles EXCEPT ![r] = q]
    BY <1>1, <2>1 DEF R!Read
  <2>3. /\ q.at = "decide" /\ q.actor = u /\ q.target = v /\ q.org = org
        /\ q.held = IF org = R!NoOrg THEN R!SiteRoles(v) ELSE {x \in R!OrgRoles(v) : x[2] = org}
    BY <2>1
  <2>4. q.held \subseteq granted[v]
    BY <2>3 DEF RolesInv, R!RolesWereGranted
  <2>5. DecisionOK(q)
    BY <2>3, <2>4 DEF DecisionOK
  <2>6. req_roles'[r] = q /\ \A s \in RoleRequests : s # r => req_roles'[s] = req_roles[s]
    BY <2>2 DEF RolesInv, RolesTyped
  <2>7. UNCHANGED <<site, admin, inGroup, granted>>
    BY <1>1 DEF R!Read
  <2>8. \A s \in RoleRequests : DecisionOK(req_roles[s])'
    BY <2>5, <2>6, <2>7 DEF RolesInv, DecisionOK
  <2>9. RolesTyped'
    BY <2>2, <2>7 DEF RolesInv, RolesTyped
  <2> QED BY <2>7, <2>8, <2>9 DEF RolesInv, R!RolesWereGranted, R!SiteRoles, R!OrgRoles
<1>2. ASSUME NEW r \in RoleRequests, NEW names \in SUBSET R!SiteNames, R!putUserRoles(r, names)
      PROVE  RolesInv'
  <2>1. /\ req_roles[r].at = "decide"
        /\ R!Assignable(req_roles[r], (names \X {R!NoOrg}) \cup {<<"member", R!NoOrg>>}, "assign_role")
        /\ R!Record(req_roles[r], names \X {R!NoOrg})
        /\ site' = [site EXCEPT ![req_roles[r].target] = names]
        /\ req_roles' = [req_roles EXCEPT ![r] = R!Idle] /\ UNCHANGED <<admin, inGroup>>
    BY <1>2 DEF R!putUserRoles
  <2>2. /\ granted' = [u \in RoleUsers |-> granted'[u]]
        /\ \A u \in RoleUsers : granted[u] \subseteq granted'[u]
        /\ names \X {R!NoOrg} \subseteq granted'[req_roles[r].target]
    BY <2>1, WrittenIsGranted
  <2>3. PICK t \in RoleUsers : t = req_roles[r].target
    BY <2>1 DEF RolesInv, DecisionOK
  <2>4. site' \in [RoleUsers -> SUBSET R!SiteNames] /\ site'[t] = names
        /\ \A u \in RoleUsers : u # t => site'[u] = site[u]
    BY <2>1, <2>3 DEF RolesInv, RolesTyped
  <2>5. R!RolesWereGranted'
    BY <2>1, <2>2, <2>3, <2>4 DEF RolesInv, R!RolesWereGranted, R!SiteRoles, R!OrgRoles
  <2>6. RolesTyped'
    BY <2>1, <2>2, <2>4 DEF RolesInv, RolesTyped
  <2> QED BY <2>1, <2>2, <2>5, <2>6, DecisionsStay DEF RolesInv
<1>3. ASSUME NEW r \in RoleRequests, NEW makeAdmin \in BOOLEAN, R!putMemberRoles(r, makeAdmin)
      PROVE  RolesInv'
  <2>0. PICK to : to = IF makeAdmin THEN {<<"organization-admin", req_roles[r].org>>} ELSE {}
    OBVIOUS
  <2>1. /\ req_roles[r].at = "decide" /\ req_roles[r].org # R!NoOrg
        /\ R!Assignable(req_roles[r], to \cup {<<"organization-member", req_roles[r].org>>}, "assign_org_role")
        /\ R!Record(req_roles[r], to)
        /\ admin' = [admin EXCEPT ![req_roles[r].target] =
                        IF makeAdmin THEN @ \cup {req_roles[r].org} ELSE @ \ {req_roles[r].org}]
        /\ req_roles' = [req_roles EXCEPT ![r] = R!Idle] /\ UNCHANGED <<site, inGroup>>
    BY <1>3, <2>0 DEF R!putMemberRoles
  <2>2. /\ granted' = [u \in RoleUsers |-> granted'[u]]
        /\ \A u \in RoleUsers : granted[u] \subseteq granted'[u]
        /\ to \subseteq granted'[req_roles[r].target]
    BY <2>1, WrittenIsGranted
  <2>3. PICK t \in RoleUsers : t = req_roles[r].target
    BY <2>1 DEF RolesInv, DecisionOK
  <2>4. PICK org \in Orgs : org = req_roles[r].org
    BY <2>1 DEF RolesInv, DecisionOK
  <2>5. /\ admin' \in [RoleUsers -> SUBSET Orgs]
        /\ admin'[t] = IF makeAdmin THEN admin[t] \cup {org} ELSE admin[t] \ {org}
        /\ \A u \in RoleUsers : u # t => admin'[u] = admin[u]
    BY <2>1, <2>3, <2>4 DEF RolesInv, RolesTyped
  <2>6. {"organization-admin"} \X admin'[t] \subseteq ({"organization-admin"} \X admin[t]) \cup to
    BY <2>0, <2>4, <2>5
  <2>7. R!RolesWereGranted'
    BY <2>1, <2>2, <2>3, <2>5, <2>6 DEF RolesInv, R!RolesWereGranted, R!SiteRoles, R!OrgRoles
  <2>8. RolesTyped'
    BY <2>1, <2>2, <2>5 DEF RolesInv, RolesTyped
  <2> QED BY <2>1, <2>2, <2>7, <2>8, DecisionsStay DEF RolesInv
<1>4. ASSUME NEW r \in RoleRequests, R!Refuse(r) PROVE RolesInv'
  BY <1>4, DecisionsStay DEF R!Refuse, RolesInv, RolesTyped, R!RolesWereGranted, R!SiteRoles, R!OrgRoles
<1>5. ASSUME UNCHANGED <<site, admin, granted, req_roles>>, inGroup' \subseteq RoleUsers PROVE RolesInv'
  BY <1>5 DEF RolesInv, RolesTyped, R!RolesWereGranted, R!SiteRoles, R!OrgRoles, DecisionOK
<1>6. ASSUME NEW u \in RoleUsers, NEW v \in RoleUsers, R!patchGroup(u, v) PROVE RolesInv'
  BY <1>5, <1>6 DEF R!patchGroup, RolesInv, RolesTyped
<1>7. ASSUME NEW u \in RoleUsers, R!deleteGroup(u) PROVE RolesInv'
  BY <1>5, <1>7 DEF R!deleteGroup
<1>8. ASSUME NEW u \in RoleUsers, NEW id \in RoleUsers \cup {Group}, NEW role \in {"admin", "use", "deleted"},
             R!patchTemplateACL(u, id, role)
      PROVE  RolesInv'
  BY <1>5, <1>8 DEF R!patchTemplateACL, RolesInv, RolesTyped
<1>9. CASE UNCHANGED R!vars
  BY <1>5, <1>9 DEF R!vars, RolesInv, RolesTyped
<1> QED BY <1>1, <1>2, <1>3, <1>4, <1>6, <1>7, <1>8, <1>9 DEF R!Next

\* The ids of users, groups and organizations are no placeholders of the policy's.
Ids ==
    /\ R!NoOrg \notin Orgs /\ TemplateOrg \in Orgs
    /\ R!NoOwner \notin RoleUsers /\ R!OfOrg \notin RoleUsers \cup {Group}

\* What the terms of a partial evaluation select, by the columns of the converter.
LEMMA OrgTerms ==
  ASSUME NEW cols, "org_owner" \in cols, NEW o, NEW v
  PROVE  /\ R!ConvertCall(cols, R!Eq("org_owner", v), R!Row(o)) <=> o.org = v
         /\ R!ConvertCall(cols, R!Neq("org_owner", v), R!Row(o)) <=> o.org # v
         /\ R!ConvertCall(cols, R!In("org_owner", v), R!Row(o)) <=> o.org \in v
<1>1. R!Row(o)["org_owner"] = o.org
  BY DEF R!Row
<1>2. R!ConvertCall(cols, R!Eq("org_owner", v), R!Row(o)) <=> o.org = v
  BY <1>1 DEF R!ConvertCall, R!Eq
<1>3. R!ConvertCall(cols, R!Neq("org_owner", v), R!Row(o)) <=> o.org # v
  BY <1>1 DEF R!ConvertCall, R!Neq
<1>4. R!ConvertCall(cols, R!In("org_owner", v), R!Row(o)) <=> o.org \in v
  BY <1>1 DEF R!ConvertCall, R!In
<1> QED BY <1>2, <1>3, <1>4

LEMMA OwnerTerms ==
  ASSUME NEW cols, NEW o, NEW v
  PROVE  /\ R!ConvertCall(cols, R!Eq("owner", v), R!Row(o)) <=> "owner" \in cols /\ o.owner = v
         /\ R!ConvertCall(cols, R!Neq("owner", v), R!Row(o)) <=> "owner" \in cols /\ o.owner # v
<1>1. R!Row(o)["owner"] = o.owner
  BY DEF R!Row
<1>2. R!ConvertCall(cols, R!Eq("owner", v), R!Row(o)) <=> "owner" \in cols /\ o.owner = v
  BY <1>1 DEF R!ConvertCall, R!Eq
<1>3. R!ConvertCall(cols, R!Neq("owner", v), R!Row(o)) <=> "owner" \in cols /\ o.owner # v
  BY <1>1 DEF R!ConvertCall, R!Neq
<1> QED BY <1>2, <1>3

LEMMA ListTerms ==
  ASSUME NEW cols, NEW o, NEW a, NEW id
  PROVE  /\ R!ConvertCall(cols, R!Listed("acl_user_list", a, id), R!Row(o)) <=>
               "acl_user_list" \in cols
                 /\ a \in R!ACL(o.userACL, IF id = R!OfOrg THEN o.org ELSE id)
         /\ R!ConvertCall(cols, R!Listed("acl_group_list", a, id), R!Row(o)) <=>
               "acl_group_list" \in cols
                 /\ a \in R!ACL(o.groupACL, IF id = R!OfOrg THEN o.org ELSE id)
<1>1. /\ R!Row(o)["org_owner"] = o.org /\ R!Row(o)["acl_user_list"] = o.userACL
      /\ R!Row(o)["acl_group_list"] = o.groupACL
  BY DEF R!Row
<1>2. R!ConvertCall(cols, R!Listed("acl_user_list", a, id), R!Row(o)) <=>
          "acl_user_list" \in cols
                 /\ {a} \subseteq R!ACL(o.userACL, IF id = R!OfOrg THEN o.org ELSE id)
  BY <1>1 DEF R!ConvertCall, R!Listed
<1>3. R!ConvertCall(cols, R!Listed("acl_group_list", a, id), R!Row(o)) <=>
          "acl_group_list" \in cols
                 /\ {a} \subseteq R!ACL(o.groupACL, IF id = R!OfOrg THEN o.org ELSE id)
  BY <1>1 DEF R!ConvertCall, R!Listed
<1> QED BY <1>2, <1>3

\* The queries of a list, in the words of the policy.
LEMMA QueriesSelect ==
  ASSUME NEW s, NEW action, NEW o, NEW cols, "org_owner" \in cols,
         R!ScopeAllow(s, action, o.type), ~R!SiteAllow(s, action, o.type)
  PROVE  R!ConvertRegoAst(cols, R!Partial(s, action, o.type), R!Row(o)) <=>
           \/ o.org \in R!OrgMembers(s) /\ R!OrgAllow(s, action, o.type, o.org)
           \/ /\ R!UserAllow(s, action, o.type) /\ "owner" \in cols
              /\ o.owner # R!NoOwner /\ o.owner = s.id
              /\ o.org = R!NoOrg \/ (o.org # R!NoOrg /\ o.org \in R!OrgMembers(s))
           \/ \E a \in {action, "*"} : R!ConvertCall(cols, R!Listed("acl_user_list", a, s.id), R!Row(o))
           \/ /\ o.org # R!NoOrg /\ o.org \in R!OrgMembers(s)
              /\ \E a \in {action, "*"}, g \in s.groups \cup {R!OfOrg} :
                    R!ConvertCall(cols, R!Listed("acl_group_list", a, g), R!Row(o))
<1> DEFINE C(t) == R!ConvertCall(cols, t, R!Row(o))
           inOrg == {R!Neq("org_owner", R!NoOrg), R!In("org_owner", R!OrgMembers(s))}
           owned == {R!Neq("owner", R!NoOwner), R!Eq("owner", s.id)}
           any == {action, "*"}
           byOrg == {{R!Eq("org_owner", p)} :
                        p \in {x \in R!OrgMembers(s) : R!OrgAllow(s, action, o.type, x)}}
           byUser == IF R!UserAllow(s, action, o.type)
                     THEN {inOrg \cup owned, {R!Eq("org_owner", R!NoOrg)} \cup owned} ELSE {}
           byList == {{R!Listed("acl_user_list", a, s.id)} : a \in any}
           byGroup == {inOrg \cup {R!Listed("acl_group_list", a, g)} :
                          a \in any, g \in s.groups \cup {R!OfOrg}}
           Sel(qs) == \E q \in qs : \A t \in q : C(t)
<1>1. R!Partial(s, action, o.type) = byOrg \cup byUser \cup byList \cup byGroup
  BY DEF R!Partial
<1>2. R!ConvertRegoAst(cols, R!Partial(s, action, o.type), R!Row(o)) <=>
        Sel(byOrg) \/ Sel(byUser) \/ Sel(byList) \/ Sel(byGroup)
  <2> HIDE DEF byOrg, byUser, byList, byGroup
  <2> QED BY <1>1 DEF R!ConvertRegoAst
<1>3. (\A t \in inOrg : C(t)) <=> o.org # R!NoOrg /\ o.org \in R!OrgMembers(s)
  BY OrgTerms
<1>4. (\A t \in owned : C(t)) <=> "owner" \in cols /\ o.owner # R!NoOwner /\ o.owner = s.id
  BY OwnerTerms
<1>5. \A v : C(R!Eq("org_owner", v)) <=> o.org = v
  BY OrgTerms
<1> HIDE DEF C, inOrg, owned, any
<1>6. Sel(byOrg) <=> o.org \in R!OrgMembers(s) /\ R!OrgAllow(s, action, o.type, o.org)
  <2>1. ASSUME NEW q \in byOrg, \A t \in q : C(t)
        PROVE  o.org \in R!OrgMembers(s) /\ R!OrgAllow(s, action, o.type, o.org)
    <3>1. PICK p \in {x \in R!OrgMembers(s) : R!OrgAllow(s, action, o.type, x)} : q = {R!Eq("org_owner", p)}
      OBVIOUS
    <3>2. o.org = p
      BY <1>5, <2>1, <3>1
    <3> QED BY <3>1, <3>2
  <2>2. ASSUME o.org \in R!OrgMembers(s), R!OrgAllow(s, action, o.type, o.org)
        PROVE  Sel(byOrg)
    <3>1. {R!Eq("org_owner", o.org)} \in byOrg
      BY <2>2
    <3>2. \A t \in {R!Eq("org_owner", o.org)} : C(t)
      BY <1>5
    <3> QED BY <3>1, <3>2
  <2> QED BY <2>1, <2>2
<1>7. Sel(byUser) <=> /\ R!UserAllow(s, action, o.type)
                      /\ (\A t \in owned : C(t))
                      /\ o.org = R!NoOrg \/ (\A t \in inOrg : C(t))
  BY <1>5
<1>8. Sel(byList) <=> \E a \in any : C(R!Listed("acl_user_list", a, s.id))
  <2>1. ASSUME NEW q \in byList, \A t \in q : C(t)
        PROVE  \E a \in any : C(R!Listed("acl_user_list", a, s.id))
    <3>1. PICK a \in any : q = {R!Listed("acl_user_list", a, s.id)}
      OBVIOUS
    <3> QED BY <2>1, <3>1
  <2>2. ASSUME NEW a \in any, C(R!Listed("acl_user_list", a, s.id))
        PROVE  Sel(byList)
    <3>1. {R!Listed("acl_user_list", a, s.id)} \in byList
      OBVIOUS
    <3> QED BY <2>2, <3>1
  <2> QED BY <2>1, <2>2
<1>9. Sel(byGroup) <=> /\ \A t \in inOrg : C(t)
                       /\ \E a \in any, g \in s.groups \cup {R!OfOrg} : C(R!Listed("acl_group_list", a, g))
  <2>1. ASSUME NEW q \in byGroup, \A t \in q : C(t)
        PROVE  /\ \A t \in inOrg : C(t)
               /\ \E a \in any, g \in s.groups \cup {R!OfOrg} : C(R!Listed("acl_group_list", a, g))
    <3>1. PICK a \in any, g \in s.groups \cup {R!OfOrg} : q = inOrg \cup {R!Listed("acl_group_list", a, g)}
      OBVIOUS
    <3> QED BY <2>1, <3>1
  <2>2. ASSUME \A t \in inOrg : C(t), NEW a \in any, NEW g \in s.groups \cup {R!OfOrg},
               C(R!Listed("acl_group_list", a, g))
        PROVE  Sel(byGroup)
    <3>1. inOrg \cup {R!Listed("acl_group_list", a, g)} \in byGroup
      OBVIOUS
    <3>2. \A t \in inOrg \cup {R!Listed("acl_group_list", a, g)} : C(t)
      BY <2>2
    <3> HIDE DEF byGroup
    <3> QED BY <3>1, <3>2
  <2> QED BY <2>1, <2>2
<1> HIDE DEF Sel
<1> QED BY <1>2, <1>3, <1>4, <1>6, <1>7, <1>8, <1>9 DEF C, any

\* A list of templates has the templates that Authorize allows.
LEMMA TemplatesAgree ==
  ASSUME NEW s, NEW action, NEW o, o.type = "template", o.owner = R!NoOwner, o.org # R!NoOrg,
         s.id # R!OfOrg, R!OfOrg \notin s.groups
  PROVE  R!Selected(s, action, o) <=> R!Authorize(s, action, o)
<1> DEFINE cols == R!TemplateConverter
<1>0. "org_owner" \in cols /\ "owner" \notin cols /\ "acl_user_list" \in cols /\ "acl_group_list" \in cols
  BY DEF R!TemplateConverter
<1>1. R!Selected(s, action, o) <=> R!ConvertRegoAst(cols, R!Partial(s, action, o.type), R!Row(o))
  BY DEF R!Selected
<1> HIDE DEF cols
<1>2. CASE ~R!ScopeAllow(s, action, o.type)
  BY <1>1, <1>2 DEF R!Authorize, R!Partial, R!ConvertRegoAst
<1>3. CASE R!ScopeAllow(s, action, o.type) /\ R!SiteAllow(s, action, o.type)
  <2>1. R!Partial(s, action, o.type) = {{}}
    BY <1>3 DEF R!Partial
  <2>2. R!ConvertRegoAst(cols, {{}}, R!Row(o))
    BY {} \in {{}} DEF R!ConvertRegoAst
  <2>3. R!Authorize(s, action, o)
    BY <1>3 DEF R!Authorize
  <2> QED BY <1>1, <2>1, <2>2, <2>3
<1>4. CASE R!ScopeAllow(s, action, o.type) /\ ~R!SiteAllow(s, action, o.type)
  <2>1. \A a : R!ConvertCall(cols, R!Listed("acl_user_list", a, s.id), R!Row(o)) <=> a \in R!ACL(o.userACL, s.id)
    BY <1>0, ListTerms
  <2>2. \A a : \A g : R!ConvertCall(cols, R!Listed("acl_group_list", a, g), R!Row(o))
                   <=> a \in R!ACL(o.groupACL, IF g = R!OfOrg THEN o.org ELSE g)
    BY <1>0, ListTerms
  <2>3. (\E a \in {action, "*"}, g \in s.groups \cup {R!OfOrg} :
            R!ConvertCall(cols, R!Listed("acl_group_list", a, g), R!Row(o)))
          <=> \E g \in s.groups \cup {o.org} : {action, "*"} \cap R!ACL(o.groupACL, g) # {}
    <3>1. ASSUME NEW a \in {action, "*"}, NEW g \in s.groups \cup {R!OfOrg},
                 a \in R!ACL(o.groupACL, IF g = R!OfOrg THEN o.org ELSE g)
          PROVE  \E h \in s.groups \cup {o.org} : {action, "*"} \cap R!ACL(o.groupACL, h) # {}
      BY <3>1
    <3>2. ASSUME NEW g \in s.groups \cup {o.org}, {action, "*"} \cap R!ACL(o.groupACL, g) # {}
          PROVE  \E a \in {action, "*"}, h \in s.groups \cup {R!OfOrg} :
                    a \in R!ACL(o.groupACL, IF h = R!OfOrg THEN o.org ELSE h)
      <4>1. PICK a \in {action, "*"} : a \in R!ACL(o.groupACL, g)
        BY <3>2
      <4>2. CASE g \in s.groups
        BY <4>1, <4>2
      <4>3. CASE g = o.org
        BY <4>1, <4>3
      <4> QED BY <4>2, <4>3
    <3> QED BY <2>2, <3>1, <3>2
  <2>4. (\E a \in {action, "*"} : R!ConvertCall(cols, R!Listed("acl_user_list", a, s.id), R!Row(o)))
          <=> {action, "*"} \cap R!ACL(o.userACL, s.id) # {}
    BY <2>1
  <2> QED BY <1>0, <1>1, <1>4, <2>3, <2>4, QueriesSelect DEF R!Authorize
<1> QED BY <1>2, <1>3, <1>4

\* A list of workspaces has the workspaces that Authorize allows; they have no access lists.
LEMMA WorkspacesAgree ==
  ASSUME NEW s, NEW action, NEW o, o.type = "workspace", o.userACL = << >>, o.groupACL = << >>
  PROVE  R!Selected(s, action, o) <=> R!Authorize(s, action, o)
<1> DEFINE cols == R!NoACLConverter
<1>0. "org_owner" \in cols /\ "owner" \in cols /\ "acl_user_list" \notin cols /\ "acl_group_list" \notin cols
  BY DEF R!NoACLConverter
<1>1. R!Selected(s, action, o) <=> R!ConvertRegoAst(cols, R!Partial(s, action, o.type), R!Row(o))
  BY DEF R!Selected
<1> HIDE DEF cols
<1>2. CASE ~R!ScopeAllow(s, action, o.type)
  BY <1>1, <1>2 DEF R!Authorize, R!Partial, R!ConvertRegoAst
<1>3. CASE R!ScopeAllow(s, action, o.type) /\ R!SiteAllow(s, action, o.type)
  <2>1. R!Partial(s, action, o.type) = {{}}
    BY <1>3 DEF R!Partial
  <2>2. R!ConvertRegoAst(cols, {{}}, R!Row(o))
    BY {} \in {{}} DEF R!ConvertRegoAst
  <2>3. R!Authorize(s, action, o)
    BY <1>3 DEF R!Authorize
  <2> QED BY <1>1, <2>1, <2>2, <2>3
<1>4. CASE R!ScopeAllow(s, action, o.type) /\ ~R!SiteAllow(s, action, o.type)
  <2>1. \A id : R!ACL(o.userACL, id) = {} /\ R!ACL(o.groupACL, id) = {}
    BY DEF R!ACL
  <2>2. \A a, id : /\ ~R!ConvertCall(cols, R!Listed("acl_user_list", a, id), R!Row(o))
                   /\ ~R!ConvertCall(cols, R!Listed("acl_group_list", a, id), R!Row(o))
    BY <1>0, ListTerms
  <2>3. R!NoOrg \notin R!OrgMembers(s)
    BY DEF R!OrgMembers
  <2> QED BY <1>0, <1>1, <1>4, <2>1, <2>2, <2>3, QueriesSelect DEF R!Authorize
<1> QED BY <1>2, <1>3, <1>4

LEMMA ListsAgree == ASSUME Ids PROVE R!FilterAgrees
<1> SUFFICES ASSUME NEW u \in RoleUsers, NEW scope \in {"all", "application_connect"},
                    NEW action \in {"read", "update"}, NEW o \in R!Objects
             PROVE  R!Selected(R!Subject(u, scope), action, o) = R!Authorize(R!Subject(u, scope), action, o)
  BY DEF R!FilterAgrees
<1>1. PICK s : s = R!Subject(u, scope)
  OBVIOUS
<1>2. s.id = u /\ s.groups \subseteq {Group}
  BY <1>1 DEF R!Subject
<1>3. CASE o = R!Template
  <2>1. o.type = "template" /\ o.owner = R!NoOwner /\ o.org = TemplateOrg
    BY <1>3 DEF R!Template, R!Object
  <2>2. R!Selected(s, action, o) <=> R!Authorize(s, action, o)
    BY <1>2, <2>1, TemplatesAgree DEF Ids
  <2> QED BY <1>1, <2>2 DEF R!Selected, R!Authorize, R!ConvertRegoAst
<1>4. ASSUME NEW org \in Orgs, NEW owner \in RoleUsers, o = R!Object("workspace", org, owner)
      PROVE  R!Selected(R!Subject(u, scope), action, o) = R!Authorize(R!Subject(u, scope), action, o)
  <2>1. o.type = "workspace" /\ o.userACL = << >> /\ o.groupACL = << >>
    BY <1>4 DEF R!Object
  <2>2. R!Selected(s, action, o) <=> R!Authorize(s, action, o)
    BY <2>1, WorkspacesAgree
  <2> QED BY <1>1, <2>2 DEF R!Selected, R!Authorize, R!ConvertRegoAst
<1> QED BY <1>3, <1>4 DEF R!Objects

LEMMA RolesTypeOK == ASSUME RolesInv PROVE R!TypeOK
  BY DEF RolesInv, RolesTyped, DecisionOK, R!TypeOK

LEMMA RolesInvariant == R!Spec => []RolesInv
<1>1. R!Init => RolesInv
  BY InitRoles
<1>2. RolesInv /\ [R!Next]_(R!vars) => RolesInv'
  BY NextRoles
<1> QED BY <1>1, <1>2, PTL DEF R!Spec

(* A role comes from someone who may assign it, although handlers decide   *)
(* with roles that were read before, their actor's and their target's.     *)
THEOREM RolesAreGiven == R!Spec => [](R!TypeOK /\ R!RolesWereGranted)
<1>1. RolesInv => R!TypeOK /\ R!RolesWereGranted
  BY RolesTypeOK DEF RolesInv
<1> QED BY <1>1, RolesInvariant, PTL

(* The WHERE clause made from the policy selects a template or a workspace *)
(* just when Authorize allows it, whatever the roles, groups, lists and    *)
(* scope.                                                                  *)
THEOREM ListsFollowPolicy == ASSUME Ids PROVE R!Spec => []R!FilterAgrees
  BY ListsAgree, PTL

-----------------------------------------------------------------------------
(* Applications.                                                           *)



\* What the proofs need to know of the constants.
Clock == MaxAppKeys \in Nat /\ AppTime \in Nat /\ Minute \in Nat /\ AppDay \in Nat /\ A!Nobody \notin AppUsers

AppKeyRow ==
    [state : {"none", "live", "deleted"}, user : AppUsers \cup {A!Nobody},
     scope : {"all", "application_connect"}, expires : Nat, from : A!KeyIDs \cup {A!None}]
PageRow ==
    [at : A!Places, param : A!KeyIDs \cup {A!None}, until : Nat, as : AppUsers \cup {A!Nobody},
     slash : BOOLEAN, hops : Nat]

AppsTyped ==
    /\ conf \in [level : A!Levels, url : {"none", "reserved port", "set"}, sameDomain : BOOLEAN]
    /\ key_apps \in [A!KeyIDs -> AppKeyRow]
    /\ session \in A!KeyIDs \cup {A!None} /\ appCookie \in A!KeyIDs \cup {A!None}
    /\ page \in PageRow
    /\ now_apps \in 0 .. AppTime

\* A key for applications has its session's user and lasts as long.
AppKeysOK ==
    \A k \in A!KeyIDs :
        /\ key_apps[k].state = "live" => key_apps[k].user \in AppUsers
        /\ key_apps[k].scope = "application_connect" =>
              /\ key_apps[k].state # "none" /\ key_apps[k].from \in A!KeyIDs
              /\ key_apps[key_apps[k].from].state # "none" /\ key_apps[key_apps[k].from].scope = "all"
              /\ key_apps[key_apps[k].from].user = key_apps[k].user /\ key_apps[key_apps[k].from].expires = key_apps[k].expires

\* Each cookie is a key of its kind.
CookiesOK ==
    /\ session # A!None => key_apps[session].state = "live" /\ key_apps[session].scope = "all"
    /\ appCookie # A!None => key_apps[appCookie].scope = "application_connect"

Shared(u) ==
    \/ conf.level = "public" \/ u = Owner
    \/ conf.level = "authenticated" /\ u \in AppUsers

\* The application's cookie comes from the session that there is, if there is one.
Cooked ==
    session # A!None =>
        appCookie # A!None /\ key_apps[appCookie].from = session /\ key_apps[appCookie].state = "live"

\* No session is left that a key could be made with.
Spent == session # A!None => key_apps[session].expires < now_apps

\* How far the browser has come, by the page it is sent to.  The application's host sends
\* it to the dashboard a second time only if the cookie it just set is no good, and then the
\* session it came from is not, either.
PageOK(p) ==
    /\ p.at \in {"proxy", "app shown"} => Shared(p.as)
    /\ p.at \in A!Final => p.hops = 0
    /\ p.at \in {"subdomain", "auth redirect"} => p.slash
    /\ p.at = "path" => p.hops <= 3 /\ (p.slash \/ p.hops <= 1)
    /\ p.at = "proxy" => p.hops <= 5 /\ (p.slash \/ p.hops <= 2)
    /\ p.at = "subdomain" /\ p.param # A!None =>
          /\ p.hops <= 3 /\ key_apps[p.param].scope = "application_connect"
          /\ session # A!None => key_apps[p.param].from = session
    /\ p.at = "subdomain" /\ p.param = A!None => p.hops <= 4 /\ (p.hops <= 1 \/ Cooked)
    /\ p.at = "auth redirect" => p.hops <= 5 /\ (p.hops <= 2 \/ Spent)

AppsInv == AppsTyped /\ AppKeysOK /\ CookiesOK /\ PageOK(page)

\* A key that was made stays what it is, but for its state.
KeysStay ==
    \A k \in A!KeyIDs : key_apps[k].state # "none" =>
        /\ key_apps'[k].state # "none" /\ key_apps'[k].user = key_apps[k].user /\ key_apps'[k].scope = key_apps[k].scope
        /\ key_apps'[k].expires = key_apps[k].expires /\ key_apps'[k].from = key_apps[k].from

LEMMA AtPage ==
  ASSUME NEW p \in A!Places
  PROVE  /\ A!At(p) \in PageRow
         /\ A!At(p).at = p /\ A!At(p).param = A!None /\ A!At(p).slash /\ A!At(p).hops = 0
  BY DEF A!At, PageRow

LEMMA InitApps == ASSUME Clock, A!Init PROVE AppsInv
<1>1. A!NoKey \in AppKeyRow /\ A!NoKey.state = "none" /\ A!NoKey.scope = "all"
  BY DEF A!NoKey, AppKeyRow
<1>2. key_apps \in [A!KeyIDs -> AppKeyRow]
      /\ \A k \in A!KeyIDs : key_apps[k].state = "none" /\ key_apps[k].scope = "all"
  BY <1>1 DEF A!Init
<1>3. "blank" \in A!Places /\ "blank" \in A!Final
  BY DEF A!Places, A!Final
<1>4. page \in PageRow /\ page.at = "blank" /\ page.hops = 0
  BY <1>3, AtPage DEF A!Init
<1>5. AppsTyped
  <2>1. conf \in [level : A!Levels, url : {"none", "reserved port", "set"}, sameDomain : BOOLEAN]
    BY Zenon DEF A!Init
  <2>2. now_apps \in 0 .. AppTime
    <3>1. now_apps = 0
      BY DEF A!Init
    <3> QED BY <3>1 DEF Clock
  <2>3. session \in A!KeyIDs \cup {A!None} /\ appCookie \in A!KeyIDs \cup {A!None}
    BY DEF A!Init
  <2> QED BY <1>2, <1>4, <2>1, <2>2, <2>3 DEF AppsTyped
<1>6. AppKeysOK /\ CookiesOK
  BY <1>2 DEF A!Init, AppKeysOK, CookiesOK
<1>7. PageOK(page)
  BY <1>4 DEF PageOK
<1> QED BY <1>5, <1>6, <1>7 DEF AppsInv

LEMMA NewKeyFree ==
  ASSUME Clock, NEW k \in A!NewKey
  PROVE  k \in A!KeyIDs /\ key_apps[k].state = "none"
<1> DEFINE free == {x \in A!KeyIDs : key_apps[x].state = "none"}
<1>1. free # {} /\ k = CHOOSE x \in free : \A l \in free : x <= l
  BY DEF A!NewKey
<1>2. free \subseteq Nat
  BY DEF A!KeyIDs, Clock
<1>3. \E x \in free : \A l \in free : x <= l
  BY <1>1, <1>2, LeastExists
<1>4. k \in free
  BY <1>1, <1>3
<1> QED BY <1>4

\* One hop more.
LEMMA Hop ==
  ASSUME NEW n \in Nat
  PROVE  /\ n <= 4 => n + 1 <= 5
         /\ n <= 2 => n + 1 <= 3
         /\ n <= 1 => n + 1 <= 2
         /\ n = 0 => n + 1 <= 1 /\ n + 1 <= 2 /\ n + 1 <= 3 /\ n + 1 <= 4 /\ n + 1 <= 5
         /\ n <= 3 => n + 1 <= 4
  OBVIOUS

\* The browser is sent to a page, and nothing else happens.
LEMMA GotoKeeps ==
  ASSUME AppsInv, NEW p \in PageRow, A!Goto(p),
         ASSUME NEW q \in PageRow, q.at = p.at, q.param = p.param, q.as = p.as, q.slash = p.slash,
                q.hops = IF p.at \in A!Final THEN 0 ELSE page.hops + 1
         PROVE  PageOK(q)
  PROVE  AppsInv'
<1>1. PICK q : q = [p EXCEPT !.hops = IF p.at \in A!Final THEN 0 ELSE page.hops + 1]
  OBVIOUS
<1>2. page.hops \in Nat
  BY DEF AppsInv, AppsTyped, PageRow
<1>3. /\ q \in PageRow /\ q.at = p.at /\ q.param = p.param /\ q.as = p.as /\ q.slash = p.slash
      /\ q.hops = IF p.at \in A!Final THEN 0 ELSE page.hops + 1
  BY <1>1, <1>2 DEF PageRow
<1>4. PageOK(q)
  BY <1>3
<1>5. page' = q /\ UNCHANGED <<conf, key_apps, session, appCookie, now_apps>>
  BY <1>1 DEF A!Goto, A!Sent
<1>6. PageOK(page)'
  BY <1>4, <1>5 DEF PageOK, Shared, Cooked, Spent
<1> QED BY <1>3, <1>5, <1>6 DEF AppsInv, AppsTyped, AppKeysOK, CookiesOK

LEMMA PageFields ==
  ASSUME AppsInv
  PROVE  /\ page.at \in A!Places /\ page.param \in A!KeyIDs \cup {A!None} /\ page.hops \in Nat
         /\ page.as \in AppUsers \cup {A!Nobody} /\ page.until \in Nat /\ page.slash \in BOOLEAN
  BY DEF AppsInv, AppsTyped, PageRow

LEMMA KeyFields ==
  ASSUME AppsInv, NEW k \in A!KeyIDs
  PROVE  /\ key_apps[k] \in AppKeyRow /\ key_apps[k].state \in {"none", "live", "deleted"}
         /\ key_apps[k].user \in AppUsers \cup {A!Nobody} /\ key_apps[k].expires \in Nat
         /\ key_apps[k].scope \in {"all", "application_connect"}
  BY DEF AppsInv, AppsTyped, AppKeyRow

\* Whoever is let through is someone the application is shared with.
LEMMA AuthorizedShared ==
  ASSUME Clock, AppsInv, NEW k \in A!KeyIDs \cup {A!None}
  PROVE  /\ A!UserOf(k) \in AppUsers \cup {A!Nobody}
         /\ A!authorizeWorkspaceApp(k) => Shared(A!UserOf(k))
<1>1. A!Valid(k) => key_apps[k].user \in AppUsers
  BY DEF A!Valid, AppsInv, AppKeysOK
<1> QED BY <1>1 DEF A!UserOf, A!authorizeWorkspaceApp, Shared, Clock

LEMMA TokenIsKey ==
  ASSUME AppsInv
  PROVE  A!TokenAt("app") = appCookie /\ A!TokenAt("dashboard") \in A!KeyIDs \cup {A!None}
  BY DEF A!TokenAt, AppsInv, AppsTyped

LEMMA PlacesDiffer ==
  /\ \A p \in {"subdomain", "path", "auth redirect", "proxy"} : p \in A!Places /\ p \notin A!Final
  /\ A!Final \subseteq A!Places
  /\ {"blank", "app shown", "not found", "bad request", "bad gateway", "login"} = A!Final
  BY DEF A!Places, A!Final

\* An answer that ends the request.
LEMMA FinalKeeps ==
  ASSUME AppsInv, NEW p \in A!Final \ {"app shown"}, A!Goto(A!At(p))
  PROVE  AppsInv'
<1>1. p \in A!Places /\ p \notin {"subdomain", "path", "auth redirect", "proxy", "app shown"}
  BY PlacesDiffer
<1>2. A!At(p) \in PageRow /\ A!At(p).at = p
  BY <1>1, AtPage
<1> QED BY <1>1, <1>2, GotoKeeps DEF PageOK

LEMMA VisitKeeps ==
  ASSUME AppsInv, NEW p \in {"subdomain", "path", "auth redirect"}, A!Visit(p)
  PROVE  AppsInv'
<1>1. PICK slash \in BOOLEAN : A!Goto([A!At(p) EXCEPT !.slash = slash \/ p # "path"])
  BY DEF A!Visit
<1>2. PICK g : g = [A!At(p) EXCEPT !.slash = slash \/ p # "path"]
  OBVIOUS
<1>3. p \in A!Places /\ p \notin A!Final
  BY PlacesDiffer
<1>4. A!At(p) \in PageRow /\ A!At(p).at = p /\ A!At(p).param = A!None
  BY <1>3, AtPage
<1>5. g \in PageRow /\ g.at = p /\ g.param = A!None /\ g.slash = (slash \/ p # "path")
  BY <1>2, <1>4 DEF PageRow
<1>6. page.hops = 0
  BY DEF A!Visit, AppsInv, PageOK
<1>7. ASSUME NEW q \in PageRow, q.at = g.at, q.param = g.param, q.as = g.as, q.slash = g.slash,
             q.hops = IF g.at \in A!Final THEN 0 ELSE page.hops + 1
      PROVE  PageOK(q)
  <2>1. q.at = p /\ q.param = A!None /\ q.hops = page.hops + 1
    BY <1>3, <1>5, <1>7
  <2>2. p # "path" => q.slash
    BY <1>5, <1>7
  <2>3. q.hops <= 1 /\ q.hops <= 2 /\ q.hops <= 3 /\ q.hops <= 4 /\ q.hops <= 5
    BY <1>6, <2>1, PageFields, Hop, Zenon
  <2> QED BY <1>3, <2>1, <2>2, <2>3 DEF PageOK
<1> QED BY <1>1, <1>2, <1>5, <1>7, GotoKeeps

\* The handlers that only send the browser on.
LEMMA ProxyKeeps ==
  ASSUME Clock, AppsInv, A!workspaceAppsProxyPath \/ A!Subdomain \/ A!proxyWorkspaceApplication
  PROVE  AppsInv'
<1>0. {"not found", "login", "bad request", "bad gateway"} \subseteq A!Final \ {"app shown"}
  BY DEF A!Final
<1>1. ASSUME NEW k \in A!KeyIDs \cup {A!None}, A!authorizeWorkspaceApp(k),
             A!Goto([page EXCEPT !.at = "proxy", !.as = A!UserOf(k)]),
             page.hops + 1 <= 5, page.slash \/ page.hops + 1 <= 2
      PROVE  AppsInv'
  <2>1. PICK g : g = [page EXCEPT !.at = "proxy", !.as = A!UserOf(k)]
    OBVIOUS
  <2>2. A!UserOf(k) \in AppUsers \cup {A!Nobody} /\ Shared(A!UserOf(k))
    BY <1>1, AuthorizedShared
  <2>3. "proxy" \in A!Places /\ "proxy" \notin A!Final
    BY PlacesDiffer
  <2>4. page \in PageRow
    BY DEF AppsInv, AppsTyped
  <2>5. g \in PageRow /\ g.at = "proxy" /\ g.as = A!UserOf(k) /\ g.slash = page.slash
    BY <2>1, <2>2, <2>3, <2>4 DEF PageRow
  <2>6. ASSUME NEW q \in PageRow, q.at = g.at, q.param = g.param, q.as = g.as, q.slash = g.slash,
               q.hops = IF g.at \in A!Final THEN 0 ELSE page.hops + 1
        PROVE  PageOK(q)
    <3>1. q.at = "proxy" /\ q.as = A!UserOf(k) /\ q.slash = page.slash /\ q.hops = page.hops + 1
      BY <2>3, <2>5, <2>6
    <3> QED BY <1>1, <2>2, <2>3, <3>1 DEF PageOK
  <2> QED BY <1>1, <2>1, <2>5, <2>6, GotoKeeps
<1>2. CASE A!workspaceAppsProxyPath
  <2>1. PICK k \in A!KeyIDs \cup {A!None} : k = A!TokenAt("dashboard")
    BY TokenIsKey
  <2>2. CASE A!authorizeWorkspaceApp(k)
    <3>1. A!Goto([page EXCEPT !.at = "proxy", !.as = A!UserOf(k)]) /\ page.at = "path"
      BY <1>2, <2>1, <2>2 DEF A!workspaceAppsProxyPath
    <3>2. page.hops \in Nat /\ page.hops <= 3 /\ (page.slash \/ page.hops <= 1)
      BY <3>1, PageFields DEF AppsInv, PageOK
    <3>3. page.hops + 1 <= 5 /\ (page.hops <= 1 => page.hops + 1 <= 2)
      BY <3>2
    <3> QED BY <1>1, <2>2, <3>1, <3>2, <3>3
  <2>3. CASE ~A!authorizeWorkspaceApp(k)
    <3>1. A!Goto(A!At("not found")) \/ A!Goto(A!At("login"))
      BY <1>2, <2>1, <2>3 DEF A!workspaceAppsProxyPath
    <3> QED BY <1>0, <3>1, FinalKeeps
  <2> QED BY <2>2, <2>3
<1>3. CASE A!Subdomain
  <2>1. PICK k \in A!KeyIDs \cup {A!None} : k = A!TokenAt("app") /\ k = appCookie
    BY TokenIsKey DEF AppsInv, AppsTyped
  <2>2. page.at = "subdomain" /\ page.slash
    BY <1>3 DEF A!Subdomain, AppsInv, PageOK
  <2>6. page.hops \in Nat /\ page.hops <= 4
    <3>1. CASE page.param = A!None
      BY <2>2, <3>1, PageFields DEF AppsInv, PageOK
    <3>2. CASE page.param # A!None
      <4>1. page.hops \in Nat /\ page.hops <= 3
        BY <2>2, <3>2, PageFields DEF AppsInv, PageOK
      <4> QED BY <4>1
    <3> QED BY <3>1, <3>2
  <2>3. CASE A!authorizeWorkspaceApp(k)
    <3>1. A!Goto([page EXCEPT !.at = "proxy", !.as = A!UserOf(k)])
      BY <1>3, <2>1, <2>3 DEF A!Subdomain
    <3>2. page.hops + 1 <= 5
      BY <2>6
    <3> QED BY <1>1, <2>2, <2>3, <3>1, <3>2
  <2>4. CASE ~A!authorizeWorkspaceApp(k) /\ A!Valid(k)
    <3>1. A!Goto(A!At("not found"))
      BY <1>3, <2>1, <2>4 DEF A!Subdomain
    <3> QED BY <1>0, <3>1, FinalKeeps
  <2>5. CASE ~A!authorizeWorkspaceApp(k) /\ ~A!Valid(k)
    <3>1. A!Goto(A!At("auth redirect")) /\ page.param = A!None
      BY <1>3, <2>1, <2>5 DEF A!Subdomain
    <3>2. "auth redirect" \in A!Places /\ "auth redirect" \notin A!Final
      BY PlacesDiffer
    <3>3. A!At("auth redirect") \in PageRow /\ A!At("auth redirect").at = "auth redirect"
          /\ A!At("auth redirect").slash
      BY <3>2, AtPage
    <3>4. page.hops <= 1 \/ Cooked
      BY <2>2, <3>1 DEF AppsInv, PageOK
    <3>5. ASSUME Cooked PROVE Spent
      <4> SUFFICES ASSUME session # A!None PROVE key_apps[session].expires < now_apps
        BY DEF Spent
      <4>1. /\ session \in A!KeyIDs /\ appCookie \in A!KeyIDs /\ appCookie # A!None /\ now_apps \in Nat
            /\ key_apps[appCookie].from = session /\ key_apps[appCookie].state = "live"
        <5>1. now_apps \in Nat
          <6>1. now_apps \in 0 .. AppTime
            BY DEF AppsInv, AppsTyped
          <6> QED BY <6>1 DEF Clock
        <5> QED BY <3>5, <5>1 DEF Cooked, AppsInv, AppsTyped
      <4>2. key_apps[appCookie].scope = "application_connect" /\ key_apps[appCookie].expires = key_apps[session].expires
        BY <4>1 DEF AppsInv, CookiesOK, AppKeysOK
      <4>3. ~(key_apps[appCookie].expires >= now_apps)
        BY <2>1, <2>5, <4>1 DEF A!Valid
      <4>4. key_apps[session].expires \in Nat
        BY <4>1, KeyFields
      <4> QED BY <4>1, <4>2, <4>3, <4>4
    <3>6. ASSUME NEW q \in PageRow, q.at = "auth redirect", q.slash, q.hops = page.hops + 1
          PROVE  PageOK(q)
      <4>1. q.hops <= 5 /\ (page.hops <= 1 => q.hops <= 2)
        BY <2>6, <3>6, Hop, Zenon
      <4> QED BY <3>2, <3>4, <3>5, <3>6, <4>1 DEF PageOK
    <3> QED BY <3>1, <3>2, <3>3, <3>6, GotoKeeps
  <2> QED BY <2>3, <2>4, <2>5
<1>4. CASE A!proxyWorkspaceApplication
  <2>1. page.at = "proxy" /\ Shared(page.as) /\ page.hops \in Nat /\ page.hops <= 5
        /\ (page.slash \/ page.hops <= 2)
    BY <1>4, PageFields DEF A!proxyWorkspaceApplication, AppsInv, PageOK
  <2>2. CASE A!Goto(A!At("bad request")) \/ A!Goto(A!At("bad gateway"))
    BY <1>0, <2>2, FinalKeeps
  <2>3. CASE ~page.slash /\ A!Goto([A!At("path") EXCEPT !.slash = TRUE])
    <3>1. PICK g : g = [A!At("path") EXCEPT !.slash = TRUE]
      OBVIOUS
    <3>2. "path" \in A!Places /\ "path" \notin A!Final
      BY PlacesDiffer
    <3>3. A!At("path") \in PageRow /\ A!At("path").at = "path"
      BY <3>2, AtPage
    <3>4. g \in PageRow /\ g.at = "path" /\ g.slash
      BY <3>1, <3>3 DEF PageRow
    <3>5. ASSUME NEW q \in PageRow, q.at = "path", q.slash, q.hops = page.hops + 1 PROVE PageOK(q)
      <4>1. q.hops <= 3
        BY <2>1, <2>3, <3>5
      <4> QED BY <3>2, <3>5, <4>1 DEF PageOK
    <3> QED BY <2>3, <3>1, <3>2, <3>4, <3>5, GotoKeeps
  <2>4. CASE A!Goto([page EXCEPT !.at = "app shown"])
    <3>1. PICK g : g = [page EXCEPT !.at = "app shown"]
      OBVIOUS
    <3>2. "app shown" \in A!Places /\ "app shown" \in A!Final
      BY DEF A!Places, A!Final
    <3>3. page \in PageRow
      BY DEF AppsInv, AppsTyped
    <3>4. g \in PageRow /\ g.at = "app shown" /\ g.as = page.as
      BY <3>1, <3>2, <3>3 DEF PageRow
    <3>5. ASSUME NEW q \in PageRow, q.at = "app shown", q.as = page.as, q.hops = 0 PROVE PageOK(q)
      BY <2>1, <3>5 DEF PageOK
    <3> QED BY <2>4, <3>1, <3>2, <3>4, <3>5, GotoKeeps
  <2> QED BY <1>4, <2>2, <2>3, <2>4 DEF A!proxyWorkspaceApplication
<1> QED BY <1>2, <1>3, <1>4

\* A key is added: a session's, or one for applications made with a session.
LEMMA KeyAdded ==
  ASSUME AppsInv, NEW n \in A!KeyIDs, key_apps[n].state = "none", NEW row \in AppKeyRow,
         key_apps' = [key_apps EXCEPT ![n] = row], row.state = "live", row.user \in AppUsers,
         row.scope = "application_connect" =>
             /\ row.from \in A!KeyIDs /\ key_apps[row.from].state # "none" /\ key_apps[row.from].scope = "all"
             /\ key_apps[row.from].user = row.user /\ key_apps[row.from].expires = row.expires
  PROVE  key_apps' \in [A!KeyIDs -> AppKeyRow] /\ AppKeysOK' /\ KeysStay /\ key_apps'[n] = row
<1>1. key_apps \in [A!KeyIDs -> AppKeyRow]
  BY DEF AppsInv, AppsTyped
<1>2. key_apps' \in [A!KeyIDs -> AppKeyRow] /\ key_apps'[n] = row /\ \A l \in A!KeyIDs \ {n} : key_apps'[l] = key_apps[l]
  BY <1>1
<1>3. KeysStay
  BY <1>2 DEF KeysStay
<1>4. ASSUME NEW l \in A!KeyIDs
      PROVE  /\ key_apps'[l].state = "live" => key_apps'[l].user \in AppUsers
             /\ key_apps'[l].scope = "application_connect" =>
                   /\ key_apps'[l].state # "none" /\ key_apps'[l].from \in A!KeyIDs
                   /\ key_apps'[key_apps'[l].from].state # "none" /\ key_apps'[key_apps'[l].from].scope = "all"
                   /\ key_apps'[key_apps'[l].from].user = key_apps'[l].user
                   /\ key_apps'[key_apps'[l].from].expires = key_apps'[l].expires
  <2>1. CASE l = n
    <3>1. ASSUME row.scope = "application_connect" PROVE key_apps'[row.from] = key_apps[row.from]
      BY <1>2, <3>1
    <3> QED BY <1>2, <2>1, <3>1
  <2>2. CASE l # n
    <3>1. key_apps'[l] = key_apps[l] /\ (key_apps[l].state = "live" => key_apps[l].user \in AppUsers)
      BY <1>2, <2>2 DEF AppsInv, AppKeysOK
    <3>2. ASSUME key_apps[l].scope = "application_connect"
          PROVE  /\ key_apps[l].state # "none" /\ key_apps[l].from \in A!KeyIDs
                 /\ key_apps[key_apps[l].from].state # "none" /\ key_apps[key_apps[l].from].scope = "all"
                 /\ key_apps[key_apps[l].from].user = key_apps[l].user /\ key_apps[key_apps[l].from].expires = key_apps[l].expires
                 /\ key_apps'[key_apps[l].from] = key_apps[key_apps[l].from]
      <4>1. /\ key_apps[l].state # "none" /\ key_apps[l].from \in A!KeyIDs
            /\ key_apps[key_apps[l].from].state # "none" /\ key_apps[key_apps[l].from].scope = "all"
            /\ key_apps[key_apps[l].from].user = key_apps[l].user /\ key_apps[key_apps[l].from].expires = key_apps[l].expires
        BY <3>2 DEF AppsInv, AppKeysOK
      <4> QED BY <1>2, <4>1
    <3> QED BY <3>1, <3>2
  <2> QED BY <2>1, <2>2
<1>5. AppKeysOK'
  BY <1>4 DEF AppKeysOK
<1> QED BY <1>2, <1>3, <1>5

LEMMA CookieMade == ASSUME AppsInv, appCookie # A!None
  PROVE  appCookie \in A!KeyIDs /\ key_apps[appCookie].scope = "application_connect" /\ key_apps[appCookie].state # "none"
<1>1. appCookie \in A!KeyIDs /\ key_apps[appCookie].scope = "application_connect"
  BY DEF AppsInv, AppsTyped, CookiesOK
<1> QED BY <1>1 DEF AppsInv, AppKeysOK

LEMMA LoginKeeps ==
  ASSUME Clock, AppsInv, NEW u \in AppUsers, A!postLogin(u)
  PROVE  AppsInv'
<1>1. PICK k \in A!NewKey :
        /\ key_apps' = [key_apps EXCEPT ![k] = [state |-> "live", user |-> u, scope |-> "all", expires |-> now_apps + AppDay, from |-> A!None]]
        /\ session' = k
  BY DEF A!postLogin
<1>2. session = A!None /\ page.at \in A!Final /\ UNCHANGED <<conf, appCookie, page, now_apps>>
  BY DEF A!postLogin, A!Final
<1>3. k \in A!KeyIDs /\ key_apps[k].state = "none"
  BY NewKeyFree
<1>4. PICK row : row = [state |-> "live", user |-> u, scope |-> "all", expires |-> now_apps + AppDay, from |-> A!None]
  OBVIOUS
<1>5. now_apps + AppDay \in Nat
  <2>1. now_apps \in 0 .. AppTime /\ AppDay \in Nat /\ AppTime \in Nat
    BY DEF AppsInv, AppsTyped, Clock
  <2> QED BY <2>1
<1>6. row \in AppKeyRow /\ row.state = "live" /\ row.user = u /\ row.scope = "all"
  BY <1>4, <1>5 DEF AppKeyRow
<1>7. key_apps' \in [A!KeyIDs -> AppKeyRow] /\ AppKeysOK' /\ KeysStay /\ key_apps'[k] = row
  BY <1>1, <1>3, <1>4, <1>6, KeyAdded
<1>8. AppsTyped'
  BY <1>1, <1>2, <1>3, <1>7 DEF AppsInv, AppsTyped
<1>9. CookiesOK'
  <2>1. appCookie # A!None => key_apps'[appCookie].scope = "application_connect"
    BY <1>7, CookieMade DEF KeysStay
  <2> QED BY <1>1, <1>2, <1>6, <1>7, <2>1 DEF CookiesOK
<1>10. PageOK(page)'
  <2>1. page.at \notin {"subdomain", "path", "auth redirect", "proxy"}
    BY <1>2, PlacesDiffer
  <2> QED BY <1>2, <2>1 DEF AppsInv, PageOK, Shared
<1> QED BY <1>7, <1>8, <1>9, <1>10 DEF AppsInv

LEMMA LogoutKeeps == ASSUME Clock, AppsInv, A!postLogout PROVE AppsInv'
<1>1. /\ session' = A!None /\ appCookie' \in {A!None, appCookie}
      /\ UNCHANGED <<conf, page, now_apps>>
      /\ key_apps' = [k \in A!KeyIDs |-> IF k = session \/ (conf.sameDomain /\ k = appCookie)
                                      THEN [key_apps[k] EXCEPT !.state = IF @ = "live" THEN "deleted" ELSE @] ELSE key_apps[k]]
  BY DEF A!postLogout
<1>2. ASSUME NEW k \in A!KeyIDs
      PROVE  /\ key_apps'[k] \in AppKeyRow /\ key_apps'[k].user = key_apps[k].user /\ key_apps'[k].scope = key_apps[k].scope
             /\ key_apps'[k].expires = key_apps[k].expires /\ key_apps'[k].from = key_apps[k].from
             /\ key_apps'[k].state = key_apps[k].state \/ (key_apps[k].state = "live" /\ key_apps'[k].state = "deleted")
  <2>1. key_apps[k] \in AppKeyRow
    BY KeyFields
  <2>2. \/ key_apps'[k] = key_apps[k]
        \/ key_apps'[k] = [key_apps[k] EXCEPT !.state = IF @ = "live" THEN "deleted" ELSE @]
    BY <1>1
  <2> QED BY <2>1, <2>2 DEF AppKeyRow
<1>3. key_apps' \in [A!KeyIDs -> AppKeyRow]
  BY <1>1, <1>2
<1>4. AppsTyped'
  BY <1>1, <1>3 DEF AppsInv, AppsTyped
<1>5. AppKeysOK'
  <2> SUFFICES ASSUME NEW k \in A!KeyIDs
               PROVE  /\ key_apps'[k].state = "live" => key_apps'[k].user \in AppUsers
                      /\ key_apps'[k].scope = "application_connect" =>
                            /\ key_apps'[k].state # "none" /\ key_apps'[k].from \in A!KeyIDs
                            /\ key_apps'[key_apps'[k].from].state # "none" /\ key_apps'[key_apps'[k].from].scope = "all"
                            /\ key_apps'[key_apps'[k].from].user = key_apps'[k].user
                            /\ key_apps'[key_apps'[k].from].expires = key_apps'[k].expires
    BY DEF AppKeysOK
  <2>1. key_apps'[k].state = "live" => key_apps'[k].user \in AppUsers
    BY <1>2 DEF AppsInv, AppKeysOK
  <2>2. ASSUME key_apps'[k].scope = "application_connect"
        PROVE  /\ key_apps'[k].state # "none" /\ key_apps'[k].from \in A!KeyIDs
               /\ key_apps'[key_apps'[k].from].state # "none" /\ key_apps'[key_apps'[k].from].scope = "all"
               /\ key_apps'[key_apps'[k].from].user = key_apps'[k].user
               /\ key_apps'[key_apps'[k].from].expires = key_apps'[k].expires
    <3>1. key_apps[k].scope = "application_connect" /\ key_apps'[k].from = key_apps[k].from
      BY <1>2, <2>2
    <3>2. PICK f \in A!KeyIDs : f = key_apps[k].from
      BY <3>1 DEF AppsInv, AppKeysOK
    <3>3. /\ key_apps[k].state # "none" /\ key_apps[f].state # "none" /\ key_apps[f].scope = "all"
          /\ key_apps[f].user = key_apps[k].user /\ key_apps[f].expires = key_apps[k].expires
      BY <3>1, <3>2 DEF AppsInv, AppKeysOK
    <3> QED BY <1>2, <3>1, <3>2, <3>3
  <2> QED BY <2>1, <2>2
<1>6. CookiesOK'
  <2>1. appCookie' # A!None => key_apps'[appCookie'].scope = "application_connect"
    BY <1>1, <1>2, CookieMade
  <2> QED BY <1>1, <2>1 DEF CookiesOK
<1>7. PageOK(page)'
  <2>1. page.param # A!None => page.param \in A!KeyIDs
    BY PageFields
  <2>2. page.at = "subdomain" /\ page.param # A!None =>
          page.hops <= 3 /\ key_apps'[page.param].scope = "application_connect"
    BY <1>2, <2>1 DEF AppsInv, PageOK
  <2>3. Cooked' /\ Spent'
    BY <1>1 DEF Cooked, Spent
  <2>4. Shared(page.as)' <=> Shared(page.as)
    BY <1>1 DEF Shared
  <2> QED BY <1>1, <2>2, <2>3, <2>4 DEF AppsInv, PageOK
<1> QED BY <1>4, <1>5, <1>6, <1>7 DEF AppsInv

LEMMA TickKeeps == ASSUME Clock, AppsInv, A!Tick PROVE AppsInv'
<1>1. now_apps' = now_apps + 1 /\ now_apps < AppTime /\ UNCHANGED <<conf, key_apps, session, appCookie, page>>
  BY DEF A!Tick
<1>2. now_apps \in 0 .. AppTime /\ AppTime \in Nat
  BY DEF AppsInv, AppsTyped, Clock
<1>3. now_apps' \in 0 .. AppTime /\ now_apps' \in Nat /\ now_apps \in Nat
  BY <1>1, <1>2
<1>4. AppsTyped' /\ AppKeysOK' /\ CookiesOK'
  BY <1>1, <1>3 DEF AppsInv, AppsTyped, AppKeysOK, CookiesOK
<1>5. Spent => Spent'
  <2>1. session # A!None => session \in A!KeyIDs
    BY DEF AppsInv, AppsTyped
  <2>2. session # A!None => key_apps[session].expires \in Nat
    BY <2>1, KeyFields
  <2>3. \A e \in Nat : e < now_apps => e < now_apps + 1
    BY <1>3
  <2> QED BY <1>1, <2>2, <2>3 DEF Spent
<1>6. PageOK(page)'
  BY <1>1, <1>5 DEF AppsInv, PageOK, Shared, Cooked
<1> QED BY <1>4, <1>6 DEF AppsInv

LEMMA TakeParameterKeeps == ASSUME Clock, AppsInv, A!TakeParameter PROVE AppsInv'
<1>1. PICK k \in A!KeyIDs : k = page.param
  BY PageFields DEF A!TakeParameter
<1>2. k # A!None /\ page.at = "subdomain" /\ UNCHANGED <<conf, key_apps, session, now_apps>>
  BY <1>1 DEF A!TakeParameter
<1>3. /\ page.hops \in Nat /\ page.hops <= 3 /\ key_apps[k].scope = "application_connect"
      /\ session # A!None => key_apps[k].from = session
  BY <1>1, <1>2, PageFields DEF AppsInv, PageOK
<1>4. CASE A!Decrypts(k, page.until)
  <2>1. appCookie' = k /\ A!Sent(A!At("subdomain")) /\ key_apps[k].state = "live"
    BY <1>1, <1>4 DEF A!TakeParameter, A!Decrypts
  <2>2. "subdomain" \in A!Places /\ "subdomain" \notin A!Final
    BY PlacesDiffer
  <2>3. /\ A!At("subdomain") \in PageRow /\ A!At("subdomain").at = "subdomain"
        /\ A!At("subdomain").param = A!None /\ A!At("subdomain").slash
    BY <2>2, AtPage
  <2>4. PICK g \in PageRow : g = A!At("subdomain")
    BY <2>3
  <2>5. page' = [g EXCEPT !.hops = page.hops + 1]
    BY <2>1, <2>2, <2>3, <2>4 DEF A!Sent
  <2>6. page.hops + 1 \in Nat /\ page.hops + 1 <= 4
    BY <1>3, Hop
  <2>7. page' \in PageRow /\ page'.at = "subdomain" /\ page'.param = A!None /\ page'.slash
        /\ page'.hops <= 4
    BY <2>3, <2>4, <2>5, <2>6 DEF PageRow
  <2>8. Cooked'
    BY <1>2, <1>3, <2>1 DEF Cooked
  <2>9. PageOK(page)'
    BY <2>2, <2>7, <2>8 DEF PageOK
  <2>10. AppsTyped'
    BY <1>2, <2>1, <2>7 DEF AppsInv, AppsTyped
  <2>11. AppKeysOK' /\ CookiesOK'
    BY <1>2, <1>3, <2>1 DEF AppsInv, AppKeysOK, CookiesOK
  <2> QED BY <2>9, <2>10, <2>11 DEF AppsInv
<1>5. CASE ~A!Decrypts(k, page.until)
  <2>1. A!Goto(A!At("bad request"))
    BY <1>1, <1>5 DEF A!TakeParameter, A!Goto
  <2>2. "bad request" \in A!Final \ {"app shown"}
    BY DEF A!Final
  <2> QED BY <2>1, <2>2, FinalKeeps
<1> QED BY <1>4, <1>5

LEMMA AuthKeeps == ASSUME Clock, AppsInv, A!workspaceApplicationAuth PROVE AppsInv'
<1>1. PICK k \in A!KeyIDs \cup {A!None} : k = A!TokenAt("dashboard")
  BY TokenIsKey
<1>2. page.at = "auth redirect" /\ UNCHANGED <<conf, session, appCookie, now_apps>>
  BY DEF A!workspaceApplicationAuth
<1>3. CASE A!MayMakeKey(k)
  <2>1. A!Valid(k) /\ key_apps[k].scope = "all"
    BY <1>3 DEF A!MayMakeKey
  <2>2. k # A!None /\ k \in A!KeyIDs /\ key_apps[k].state = "live" /\ key_apps[k].expires >= now_apps
    BY <2>1 DEF A!Valid
  <2>3. k = session
    <3>1. k \in {session, appCookie, A!None}
      BY <1>1 DEF A!TokenAt
    <3>2. k # appCookie
      BY <2>1, <2>2, CookieMade
    <3> QED BY <2>2, <3>1, <3>2
  <2>4. ~Spent
    <3>1. now_apps \in 0 .. AppTime /\ AppTime \in Nat
      BY DEF AppsInv, AppsTyped, Clock
    <3>2. now_apps \in Nat /\ key_apps[k].expires \in Nat
      BY <2>2, <3>1, KeyFields
    <3>3. ~(key_apps[k].expires < now_apps)
      BY <2>2, <3>2
    <3> QED BY <2>2, <2>3, <3>3 DEF Spent
  <2>5. page.hops \in Nat /\ page.hops <= 2
    BY <1>2, <2>4, PageFields DEF AppsInv, PageOK
  <2>6. PICK n \in A!NewKey :
          /\ key_apps' = [key_apps EXCEPT ![n] = [state |-> "live", user |-> key_apps[k].user, scope |-> "application_connect",
                                            expires |-> key_apps[k].expires, from |-> k]]
          /\ A!Sent([A!At("subdomain") EXCEPT !.param = n, !.until = now_apps + Minute])
    BY <1>1, <1>3 DEF A!workspaceApplicationAuth
  <2>7. n \in A!KeyIDs /\ key_apps[n].state = "none"
    BY NewKeyFree
  <2>8. PICK row : row = [state |-> "live", user |-> key_apps[k].user, scope |-> "application_connect",
                          expires |-> key_apps[k].expires, from |-> k]
    OBVIOUS
  <2>9. key_apps[k].user \in AppUsers /\ key_apps[k].expires \in Nat
    BY <2>2, KeyFields DEF AppsInv, AppKeysOK
  <2>10. /\ row \in AppKeyRow /\ row.state = "live" /\ row.user = key_apps[k].user /\ row.from = k
         /\ row.scope = "application_connect" /\ row.expires = key_apps[k].expires
    BY <2>2, <2>8, <2>9 DEF AppKeyRow
  <2>11. key_apps' = [key_apps EXCEPT ![n] = row]
    BY <2>6, <2>8
  <2>12. key_apps[k].state # "none"
    BY <2>2
  <2>13. key_apps' \in [A!KeyIDs -> AppKeyRow] /\ AppKeysOK' /\ KeysStay /\ key_apps'[n] = row
    BY <2>1, <2>2, <2>7, <2>9, <2>10, <2>11, <2>12, KeyAdded
  <2>14. "subdomain" \in A!Places /\ "subdomain" \notin A!Final
    BY PlacesDiffer
  <2>15. /\ A!At("subdomain") \in PageRow /\ A!At("subdomain").at = "subdomain" /\ A!At("subdomain").slash
    BY <2>14, AtPage
  <2>16. PICK g \in PageRow : g = A!At("subdomain")
    BY <2>15
  <2>17. now_apps + Minute \in Nat
    <3>1. now_apps \in 0 .. AppTime /\ AppTime \in Nat /\ Minute \in Nat
      BY DEF AppsInv, AppsTyped, Clock
    <3> QED BY <3>1
  <2>18. PICK h : h = [g EXCEPT !.param = n, !.until = now_apps + Minute]
    OBVIOUS
  <2>19. h \in PageRow /\ h.at = "subdomain" /\ h.slash /\ h.param = n
    BY <2>7, <2>15, <2>16, <2>17, <2>18 DEF PageRow
  <2>20. page' = [h EXCEPT !.hops = page.hops + 1]
    BY <2>6, <2>14, <2>16, <2>18, <2>19 DEF A!Sent
  <2>21. page.hops + 1 \in Nat /\ page.hops + 1 <= 3
    BY <2>5, Hop
  <2>22. page' \in PageRow /\ page'.at = "subdomain" /\ page'.param = n /\ page'.slash /\ page'.hops <= 3
    BY <2>19, <2>20, <2>21 DEF PageRow
  <2>23. n # A!None
    BY <2>7 DEF A!KeyIDs, A!None
  <2>24. PageOK(page)'
    BY <1>2, <2>3, <2>10, <2>13, <2>14, <2>22, <2>23 DEF PageOK
  <2>25. AppsTyped'
    BY <1>2, <2>13, <2>22 DEF AppsInv, AppsTyped
  <2>26. CookiesOK'
    <3>1. appCookie # A!None => key_apps'[appCookie].scope = "application_connect"
      BY <2>13, CookieMade DEF KeysStay
    <3>2. key_apps'[session].state = "live" /\ key_apps'[session].scope = "all"
      <4>1. n # session
        BY <2>2, <2>3, <2>7
      <4>2. key_apps \in [A!KeyIDs -> AppKeyRow]
        BY DEF AppsInv, AppsTyped
      <4>3. key_apps'[session] = key_apps[session]
        BY <2>2, <2>3, <2>11, <4>1, <4>2
      <4> QED BY <2>1, <2>2, <2>3, <4>3
    <3> QED BY <1>2, <3>1, <3>2 DEF CookiesOK
  <2> QED BY <2>13, <2>24, <2>25, <2>26 DEF AppsInv
<1>4. CASE ~A!MayMakeKey(k)
  <2>1. A!Goto(A!At("not found")) \/ A!Goto(A!At("login"))
    BY <1>1, <1>2, <1>4 DEF A!workspaceApplicationAuth, A!Goto
  <2>2. {"not found", "login"} \subseteq A!Final \ {"app shown"}
    BY DEF A!Final
  <2> QED BY <2>1, <2>2, FinalKeeps
<1> QED BY <1>3, <1>4

LEMMA NextApps == ASSUME Clock, AppsInv, [A!Next]_(A!vars) PROVE AppsInv'
<1>1. CASE UNCHANGED A!vars
  <2>1. UNCHANGED <<conf, key_apps, session, appCookie, page, now_apps>>
    BY <1>1 DEF A!vars
  <2>2. AppsTyped' /\ AppKeysOK' /\ CookiesOK'
    BY <2>1 DEF AppsInv, AppsTyped, AppKeysOK, CookiesOK
  <2>3. PageOK(page)'
    BY <2>1 DEF AppsInv, PageOK, Shared, Cooked, Spent
  <2> QED BY <2>2, <2>3 DEF AppsInv
<1>2. CASE A!Next
  BY <1>2, LoginKeeps, LogoutKeeps, VisitKeeps, ProxyKeeps, TakeParameterKeeps, AuthKeeps, TickKeeps
     DEF A!Next, A!Follow
<1> QED BY <1>1, <1>2

LEMMA AppsSafe ==
  ASSUME AppsInv
  PROVE  A!TypeOK /\ A!SharedAsConfigured /\ A!AppKeysFromSessions /\ A!RedirectsEnd
<1>1. A!TypeOK
  <2>1. \A k \in A!KeyIDs : key_apps[k].state \in {"none", "live", "deleted"} /\ key_apps[k].scope \in {"all", "application_connect"}
    BY KeyFields
  <2>2. page.at \in A!Places
    BY PageFields
  <2> QED BY <2>1, <2>2 DEF A!TypeOK, AppsInv, AppsTyped
<1>2. A!SharedAsConfigured
  BY DEF A!SharedAsConfigured, AppsInv, PageOK, Shared
<1>3. A!AppKeysFromSessions
  <2> SUFFICES ASSUME NEW k \in A!KeyIDs, key_apps[k].scope = "application_connect"
               PROVE  /\ key_apps[key_apps[k].from].scope = "all" /\ key_apps[key_apps[k].from].user = key_apps[k].user
                      /\ key_apps[k].expires <= key_apps[key_apps[k].from].expires
    BY DEF A!AppKeysFromSessions
  <2>1. /\ key_apps[key_apps[k].from].scope = "all" /\ key_apps[key_apps[k].from].user = key_apps[k].user
        /\ key_apps[key_apps[k].from].expires = key_apps[k].expires
    BY DEF AppsInv, AppKeysOK
  <2>2. key_apps[k].expires \in Nat
    BY KeyFields
  <2> QED BY <2>1, <2>2
<1>4. A!RedirectsEnd
  <2>1. page.hops \in Nat /\ page.at \in A!Places
    BY PageFields
  <2>2. \A n \in Nat : (n <= 3 => n <= 5) /\ (n <= 4 => n <= 5) /\ (n = 0 => n <= 5)
    OBVIOUS
  <2>3. page.at \in A!Final \cup {"subdomain", "path", "auth redirect", "proxy"}
    BY <2>1 DEF A!Places
  <2> QED BY <2>1, <2>2, <2>3 DEF A!RedirectsEnd, AppsInv, PageOK
<1> QED BY <1>1, <1>2, <1>3, <1>4

LEMMA AppsInvariant == ASSUME Clock PROVE A!Spec => []AppsInv
<1>1. A!Init => AppsInv
  BY InitApps
<1>2. AppsInv /\ [A!Next]_(A!vars) => AppsInv'
  BY NextApps
<1> QED BY <1>1, <1>2, PTL DEF A!Spec

(* workspaceapps.go: an application is shown to its owner, to whoever is   *)
(* signed in or to everybody, as it is configured, and the key a browser   *)
(* brings to its host is a session's: of the same user, lasting no longer, *)
(* and no source of further keys.                                          *)
THEOREM AppsSharedAsConfigured ==
  ASSUME Clock PROVE A!Spec => [](A!TypeOK /\ A!SharedAsConfigured /\ A!AppKeysFromSessions)
<1>1. AppsInv => A!TypeOK /\ A!SharedAsConfigured /\ A!AppKeysFromSessions
  BY AppsSafe
<1> QED BY <1>1, AppsInvariant, PTL

(* handleSubdomainApplications and workspaceApplicationAuth do not send a  *)
(* browser back and forth: whatever expires or is logged out of between    *)
(* two of its requests, a visit is answered after at most five pages.      *)
THEOREM AppRedirectsEnd == ASSUME Clock PROVE A!Spec => []A!RedirectsEnd
<1>1. AppsInv => A!RedirectsEnd
  BY AppsSafe
<1> QED BY <1>1, AppsInvariant, PTL

-----------------------------------------------------------------------------
(* The quota.  Consumed is a sum over the user's workspaces, so the proofs *)
(* first show that the sum grows by what is granted at most; GrantOK says  *)
(* that a decision to grant holds until another grant is committed, which  *)
(* Postgres does not allow the first one to survive.                       *)

\* What the proofs need to know of the constants.
QuotaBounds ==
    /\ MaxQuotaBuilds \in Nat /\ MaxLost \in Nat
    /\ Costs \subseteq Nat /\ Allowances \subseteq Nat /\ IsFiniteSet(QuotaWorkspaces)

\* The costs of a workspace's builds are a sequence.
QuotaInv ==
    /\ cost \in [QuotaWorkspaces -> Seq(Costs \union {0})] /\ \A w \in QuotaWorkspaces : Len(cost[w]) <= MaxQuotaBuilds
    /\ deleted_quota \in [QuotaWorkspaces -> BOOLEAN]
    /\ budget \in Allowances
    /\ job_quota \in [QuotaWorkspaces -> Q!Jobs]
    /\ lost \in 0 .. MaxLost

LEMMA InitQuota == ASSUME QuotaBounds, Q!Init PROVE QuotaInv
<1>1. <<>> \in Seq(Costs \union {0}) /\ Len(<<>>) = 0
  OBVIOUS
<1>2. \A w \in QuotaWorkspaces : cost[w] = <<>>
  BY DEF Q!Init
<1>3. \A w \in QuotaWorkspaces : Len(cost[w]) <= MaxQuotaBuilds
  BY <1>1, <1>2 DEF QuotaBounds
<1>4. Q!NoJob \in Q!Jobs
  BY DEF Q!Jobs
<1> QED BY <1>1, <1>3, <1>4 DEF Q!Init, QuotaInv, QuotaBounds

\* The fields of a job by the step it is at.
LEMMA JobFields ==
  ASSUME NEW j \in Q!Jobs
  PROVE  /\ j.step \in {"asked", "read", "tx", "answered"} => j.cost \in Costs
         /\ j.step = "tx" => /\ j.grant \in BOOLEAN /\ j.budget \in Allowances /\ j.clean \in BOOLEAN
                             /\ j \in [step : {"tx"}, cost : Costs, grant : BOOLEAN, budget : Allowances, clean : BOOLEAN]
  BY DEF Q!Jobs, Q!NoJob

\* The job of one build moves, and nothing else that has a type.
LEMMA JobMoves ==
  ASSUME QuotaInv, NEW w \in QuotaWorkspaces, NEW j \in Q!Jobs, Q!Move(w, j),
         UNCHANGED cost, deleted_quota' \in [QuotaWorkspaces -> BOOLEAN], UNCHANGED budget, lost' \in 0 .. MaxLost
  PROVE  QuotaInv'
<1>1. job_quota' \in [QuotaWorkspaces -> Q!Jobs]
  BY DEF Q!Move, QuotaInv
<1> QED BY <1>1 DEF QuotaInv

LEMMA LatestTyped ==
  ASSUME QuotaInv, NEW w \in QuotaWorkspaces PROVE Q!LatestCost(w) \in Costs \union {0}
<1>1. cost[w] \in Seq(Costs \union {0})
  BY DEF QuotaInv
<1>2. ASSUME cost[w] # <<>> PROVE cost[w][Len(cost[w])] \in Costs \union {0}
  BY <1>1, <1>2
<1> QED BY <1>2 DEF Q!LatestCost, Q!Built

\* The build's call of CommitQuota, step by step.
LEMMA CommitKeeps ==
  ASSUME QuotaBounds, QuotaInv, NEW w \in QuotaWorkspaces,
         \/ Q!SkipQuota(w) \/ Q!ReadBuild(w) \/ Q!TxBegin(w) \/ Q!TxRefuse(w) \/ Q!TxAbort(w)
         \/ Q!AnswerLost(w) \/ Q!Answered(w) \/ (\E c \in Costs : Q!Ask(w, c))
         \/ (\E gone \in BOOLEAN : Q!Applied(w, gone))
  PROVE  QuotaInv'
<1>1. job_quota[w] \in Q!Jobs /\ Q!NoJob \in Q!Jobs /\ [step |-> "applying"] \in Q!Jobs
  BY DEF QuotaInv, Q!Jobs
<1>2. /\ deleted_quota \in [QuotaWorkspaces -> BOOLEAN] /\ lost \in 0 .. MaxLost /\ budget \in Allowances
  BY DEF QuotaInv
<1>3. CASE Q!SkipQuota(w)
  BY <1>1, <1>2, <1>3, JobMoves DEF Q!SkipQuota
<1>4. CASE Q!ReadBuild(w)
  <2>1. PICK j : j = [step |-> "read", cost |-> job_quota[w].cost, own |-> Q!LatestCost(w)]
    OBVIOUS
  <2>2. job_quota[w].cost \in Costs
    BY <1>1, <1>4, JobFields DEF Q!ReadBuild
  <2>3. j \in Q!Jobs
    BY <2>1, <2>2, LatestTyped DEF Q!Jobs
  <2>4. Q!Move(w, j)
    BY <1>4, <2>1 DEF Q!ReadBuild
  <2> QED BY <1>2, <1>4, <2>3, <2>4, JobMoves DEF Q!ReadBuild
<1>5. CASE Q!TxBegin(w)
  <2>1. PICK g \in BOOLEAN : g = ~(job_quota[w].cost + Q!Consumed > budget /\ Q!NetIncrease(w))
    OBVIOUS
  <2>2. PICK j : j = [step |-> "tx", cost |-> job_quota[w].cost, budget |-> budget, clean |-> TRUE, grant |-> g]
    OBVIOUS
  <2>3. job_quota[w].cost \in Costs
    BY <1>1, <1>5, JobFields DEF Q!TxBegin
  <2>4. j \in Q!Jobs
    BY <1>2, <2>2, <2>3 DEF Q!Jobs
  <2>5. Q!Move(w, j)
    BY <1>5, <2>1, <2>2, Zenon DEF Q!TxBegin
  <2> QED BY <1>2, <1>5, <2>4, <2>5, JobMoves DEF Q!TxBegin
<1>6. CASE Q!TxRefuse(w)
  <2>1. job_quota[w].cost \in Costs
    BY <1>1, <1>6, JobFields DEF Q!TxRefuse
  <2>2. [step |-> "answered", cost |-> job_quota[w].cost, ok |-> FALSE] \in Q!Jobs
    BY <2>1 DEF Q!Jobs
  <2> QED BY <1>2, <1>6, <2>2, JobMoves DEF Q!TxRefuse
<1>7. CASE Q!TxAbort(w)
  BY <1>1, <1>2, <1>7, JobMoves DEF Q!TxAbort
<1>8. CASE Q!AnswerLost(w)
  <2>1. job_quota[w].cost \in Costs
    BY <1>1, <1>8, JobFields DEF Q!AnswerLost
  <2>2. [step |-> "asked", cost |-> job_quota[w].cost] \in Q!Jobs
    BY <2>1 DEF Q!Jobs
  <2>3. lost' \in 0 .. MaxLost
    BY <1>2, <1>8 DEF Q!AnswerLost, QuotaBounds
  <2> QED BY <1>2, <1>8, <2>2, <2>3, JobMoves DEF Q!AnswerLost
<1>9. CASE Q!Answered(w)
  <2>1. PICK j : j = IF job_quota[w].ok THEN [step |-> "applying"] ELSE Q!NoJob
    OBVIOUS
  <2>2. j \in Q!Jobs /\ Q!Move(w, j)
    BY <1>1, <1>9, <2>1 DEF Q!Answered
  <2> QED BY <1>2, <1>9, <2>2, JobMoves DEF Q!Answered
<1>10. CASE \E c \in Costs : Q!Ask(w, c)
  <2>1. PICK c \in Costs : Q!Ask(w, c)
    BY <1>10
  <2>2. [step |-> "asked", cost |-> c] \in Q!Jobs
    BY DEF Q!Jobs
  <2> QED BY <1>2, <2>1, <2>2, JobMoves DEF Q!Ask
<1>11. CASE \E gone \in BOOLEAN : Q!Applied(w, gone)
  <2>1. PICK gone \in BOOLEAN : Q!Applied(w, gone)
    BY <1>11
  <2>2. deleted_quota' \in [QuotaWorkspaces -> BOOLEAN]
    BY <1>2, <2>1 DEF Q!Applied
  <2> QED BY <1>1, <1>2, <2>1, <2>2, JobMoves DEF Q!Applied
<1> QED BY <1>3, <1>4, <1>5, <1>6, <1>7, <1>8, <1>9, <1>10, <1>11

\* The costs of a workspace change: a build begins, a grant is committed.
LEMMA CostKeeps ==
  ASSUME QuotaBounds, QuotaInv, NEW w \in QuotaWorkspaces, Q!NewBuild(w) \/ Q!TxGrant(w)
  PROVE  QuotaInv'
<1>1. cost[w] \in Seq(Costs \union {0}) /\ Len(cost[w]) \in Nat /\ Len(cost[w]) <= MaxQuotaBuilds
  BY DEF QuotaInv
<1>2. CASE Q!NewBuild(w)
  <2>1. /\ Append(cost[w], 0) \in Seq(Costs \union {0}) /\ Len(Append(cost[w], 0)) <= MaxQuotaBuilds
    <3>1. Append(cost[w], 0) \in Seq(Costs \union {0}) /\ Len(Append(cost[w], 0)) = Len(cost[w]) + 1
      BY <1>1
    <3> QED BY <1>1, <1>2, <3>1 DEF Q!NewBuild, QuotaBounds
  <2>2. cost' = [cost EXCEPT ![w] = Append(cost[w], 0)]
    BY <1>2 DEF Q!NewBuild
  <2>3. cost' \in [QuotaWorkspaces -> Seq(Costs \union {0})] /\ \A v \in QuotaWorkspaces : Len(cost'[v]) <= MaxQuotaBuilds
    BY <2>1, <2>2 DEF QuotaInv
  <2>4. [step |-> "planned"] \in Q!Jobs
    BY DEF Q!Jobs
  <2>5. job_quota' \in [QuotaWorkspaces -> Q!Jobs]
    BY <1>2, <2>4 DEF Q!NewBuild, Q!Move, QuotaInv
  <2> QED BY <1>2, <2>3, <2>5 DEF Q!NewBuild, QuotaInv
<1>3. CASE Q!TxGrant(w)
  <2>1. PICK c : c = job_quota[w].cost
    OBVIOUS
  <2>2. c \in Costs
    BY <1>3, <2>1, JobFields DEF Q!TxGrant, QuotaInv
  <2>3. PICK row : row = [cost[w] EXCEPT ![Len(cost[w])] = c]
    OBVIOUS
  <2>4. row \in Seq(Costs \union {0}) /\ Len(row) = Len(cost[w])
    <3>1. PICK n \in Nat : n = Len(cost[w])
      BY <1>1
    <3>2. cost[w] \in [1 .. n -> Costs \union {0}]
      BY <1>1, <3>1
    <3>3. row \in [1 .. n -> Costs \union {0}]
      BY <2>2, <2>3, <3>2
    <3>4. DOMAIN row = 1 .. n
      BY <3>3
    <3> QED BY <3>1, <3>3, <3>4, LenProperties, SeqDef
  <2>5. cost' = [cost EXCEPT ![w] = row]
    BY <1>3, <2>1, <2>3 DEF Q!TxGrant, QuotaInv
  <2>6. cost' \in [QuotaWorkspaces -> Seq(Costs \union {0})] /\ \A v \in QuotaWorkspaces : Len(cost'[v]) <= MaxQuotaBuilds
    BY <1>1, <2>4, <2>5 DEF QuotaInv
  <2>7. ASSUME NEW v \in QuotaWorkspaces PROVE job_quota'[v] \in Q!Jobs
    <3>1. job_quota[v] \in Q!Jobs
      BY DEF QuotaInv
    <3>2. CASE v = w
      <4>1. job_quota'[v] = [step |-> "answered", cost |-> c, ok |-> TRUE]
        BY <1>3, <2>1, <3>2 DEF Q!TxGrant
      <4> QED BY <2>2, <4>1 DEF Q!Jobs
    <3>3. CASE v # w /\ job_quota[v].step = "tx"
      <4>1. job_quota'[v] = [job_quota[v] EXCEPT !.clean = FALSE]
        BY <1>3, <3>3 DEF Q!TxGrant
      <4>2. job_quota[v] \in [step : {"tx"}, cost : Costs, grant : BOOLEAN, budget : Allowances, clean : BOOLEAN]
        BY <3>1, <3>3, JobFields
      <4>3. job_quota'[v] \in [step : {"tx"}, cost : Costs, grant : BOOLEAN, budget : Allowances, clean : BOOLEAN]
        BY <4>1, <4>2
      <4> QED BY <4>3 DEF Q!Jobs
    <3>4. CASE v # w /\ job_quota[v].step # "tx"
      BY <1>3, <3>1, <3>4 DEF Q!TxGrant
    <3> QED BY <3>2, <3>3, <3>4
  <2>8. job_quota' \in [QuotaWorkspaces -> Q!Jobs]
    BY <1>3, <2>7 DEF Q!TxGrant
  <2> QED BY <1>3, <2>6, <2>8 DEF Q!TxGrant, QuotaInv
<1> QED BY <1>2, <1>3

LEMMA NextQuota == ASSUME QuotaBounds, QuotaInv, [Q!Next]_(Q!vars) PROVE QuotaInv'
<1>1. CASE \E n \in Allowances : Q!PatchAllowance(n)
  BY <1>1 DEF Q!PatchAllowance, QuotaInv
<1>2. CASE UNCHANGED Q!vars
  BY <1>2 DEF Q!vars, QuotaInv
<1> QED BY <1>1, <1>2, CommitKeeps, CostKeeps DEF Q!Next

LEMMA QuotaSafe == ASSUME QuotaBounds, QuotaInv PROVE Q!TypeOK
<1>1. ASSUME NEW w \in QuotaWorkspaces
      PROVE  cost[w] \in UNION {[1 .. n -> Costs \union {0}] : n \in 0 .. MaxQuotaBuilds}
  <2>1. cost[w] \in Seq(Costs \union {0}) /\ Len(cost[w]) \in 0 .. MaxQuotaBuilds
    BY DEF QuotaInv, QuotaBounds
  <2>2. cost[w] \in [1 .. Len(cost[w]) -> Costs \union {0}]
    BY <2>1
  <2> QED BY <2>1, <2>2
<1> QED BY <1>1 DEF QuotaInv, Q!TypeOK

\* g adds up f over the subsets of all as MapThenSumSet does, which takes some element first.
Pick(s) == CHOOSE x \in s : TRUE
Adds(g, f, all) == \A s \in SUBSET all : g[s] = IF s = {} THEN 0 ELSE f[Pick(s)] + g[s \ {Pick(s)}]

LEMMA PickIn == ASSUME NEW s, s # {} PROVE Pick(s) \in s
  BY DEF Pick

\* What holds of the empty set, and of a set if it does without any one element, holds of
\* every subset of a finite set.
LEMMA OneByOne ==
  ASSUME NEW all, IsFiniteSet(all), NEW Good, {} \in Good,
         \A s \in SUBSET all : s # {} /\ (\A x \in s : s \ {x} \in Good) => s \in Good
  PROVE  SUBSET all \subseteq Good
<1> SUFFICES ASSUME (SUBSET all) \ Good # {} PROVE FALSE
  OBVIOUS
<1>1. PICK sizes : sizes = {Cardinality(s) : s \in (SUBSET all) \ Good}
  OBVIOUS
<1>2. \A s \in SUBSET all : IsFiniteSet(s) /\ Cardinality(s) \in Nat
  BY FS_Subset, FS_CardinalityType
<1>3. sizes \in SUBSET Nat /\ sizes # {}
  BY <1>1, <1>2
<1>4. PICK n \in sizes : \A m \in sizes : n <= m
  BY <1>3, LeastExists
<1>5. PICK s \in (SUBSET all) \ Good : Cardinality(s) = n
  BY <1>1, <1>4
<1>6. ASSUME NEW x \in s PROVE s \ {x} \in Good
  <2>1. Cardinality(s \ {x}) = Cardinality(s) - 1 /\ s \ {x} \in SUBSET all
    BY <1>2, FS_RemoveElement
  <2>2. Cardinality(s \ {x}) < n /\ n \in Nat /\ Cardinality(s \ {x}) \in Nat
    BY <1>2, <1>5, <2>1
  <2>3. Cardinality(s \ {x}) \notin sizes
    BY <1>3, <1>4, <2>2
  <2> QED BY <1>1, <2>1, <2>3
<1>7. s # {} /\ s \in SUBSET all /\ s \notin Good
  BY <1>5
<1> QED BY <1>6, <1>7

LEMMA AddsExists ==
  ASSUME NEW all, IsFiniteSet(all), NEW f \in [all -> Nat]
  PROVE  \E g \in [SUBSET all -> Nat] : Adds(g, f, all)
<1> DEFINE Level(n) == {s \in SUBSET all : Cardinality(s) <= n}
           Upto(g, n) == /\ g \in [Level(n) -> Nat]
                         /\ \A s \in Level(n) : g[s] = IF s = {} THEN 0 ELSE f[Pick(s)] + g[s \ {Pick(s)}]
<1>1. \A s \in SUBSET all : IsFiniteSet(s) /\ Cardinality(s) \in Nat
  BY FS_Subset, FS_CardinalityType
<1>2. ASSUME NEW s \in SUBSET all, s # {}
      PROVE  /\ Pick(s) \in s /\ s \ {Pick(s)} \in SUBSET all
             /\ Cardinality(s \ {Pick(s)}) = Cardinality(s) - 1
  BY <1>1, <1>2, PickIn, FS_RemoveElement
<1>3. ASSUME NEW n \in Nat PROVE \E g : Upto(g, n)
  <2> SUFFICES ASSUME {m \in Nat : ~ \E g : Upto(g, m)} # {} PROVE FALSE
    OBVIOUS
  <2>1. PICK k \in Nat : (~ \E g : Upto(g, k)) /\ \A m \in Nat : (~ \E g : Upto(g, m)) => k <= m
    <3> DEFINE bad == {m \in Nat : ~ \E g : Upto(g, m)}
    <3> HIDE DEF Upto
    <3>1. PICK k \in bad : \A m \in bad : k <= m
      BY LeastExists
    <3> QED BY <3>1
  <2>2. CASE k = 0
    <3>1. \A s \in Level(0) : s = {}
      BY <1>1, FS_EmptySet
    <3>2. Upto([s \in Level(0) |-> 0], 0)
      BY <3>1
    <3> QED BY <2>1, <2>2, <3>2
  <2>3. CASE k > 0
    <3>1. k - 1 \in Nat /\ ~(k <= k - 1)
      BY <2>3
    <3>2. PICK g : Upto(g, k - 1)
      <4> HIDE DEF Upto
      <4> QED BY <2>1, <3>1
    <3> DEFINE h == [s \in Level(k) |-> IF s = {} THEN 0 ELSE f[Pick(s)] + g[s \ {Pick(s)}]]
    <3>3. ASSUME NEW s \in Level(k), s # {}
          PROVE  s \ {Pick(s)} \in Level(k - 1) /\ s \ {Pick(s)} \in Level(k) /\ f[Pick(s)] \in Nat
      BY <1>1, <1>2, <3>1, <3>3
    <3>4. \A s \in Level(k - 1) : s \in Level(k) /\ h[s] = g[s]
      BY <1>1, <3>1, <3>2
    <3>5. h \in [Level(k) -> Nat]
      BY <3>2, <3>3
    <3>6. Upto(h, k)
      BY <3>3, <3>4, <3>5
    <3> QED BY <2>1, <3>6
  <2> QED BY <2>2, <2>3
<1>4. PICK g : Upto(g, Cardinality(all))
  BY <1>1, <1>3
<1>5. \A s \in SUBSET all : Cardinality(s) <= Cardinality(all)
  BY FS_Subset
<1>6. Level(Cardinality(all)) = SUBSET all
  BY <1>5
<1> QED BY <1>4, <1>6 DEF Adds

\* A sum is a number.
LEMMA AddsNat ==
  ASSUME NEW all, IsFiniteSet(all), NEW f \in [all -> Nat], NEW g, Adds(g, f, all)
  PROVE  \A s \in SUBSET all : g[s] \in Nat
<1> DEFINE good == {s \in SUBSET all : g[s] \in Nat}
<1>1. {} \in good
  <2>1. {} \in SUBSET all /\ g[{}] = 0
    BY DEF Adds
  <2> QED BY <2>1
<1>2. ASSUME NEW s \in SUBSET all, s # {}, \A x \in s : s \ {x} \in good
      PROVE  s \in good
  <2>1. Pick(s) \in s /\ g[s] = f[Pick(s)] + g[s \ {Pick(s)}]
    BY <1>2, PickIn DEF Adds
  <2>2. f[Pick(s)] \in Nat /\ g[s \ {Pick(s)}] \in Nat
    BY <1>2, <2>1
  <2> QED BY <2>1, <2>2
<1> HIDE DEF good
<1>3. SUBSET all \subseteq good
  BY <1>1, <1>2, OneByOne
<1> QED BY <1>3 DEF good

\* Any element may be taken first.
LEMMA AddsAny ==
  ASSUME NEW all, IsFiniteSet(all), NEW f \in [all -> Nat], NEW g, Adds(g, f, all)
  PROVE  \A s \in SUBSET all : g[s] \in Nat /\ \A x \in s : g[s] = f[x] + g[s \ {x}]
<1>0. \A s \in SUBSET all : g[s] \in Nat
  BY AddsNat
<1> DEFINE good == {s \in SUBSET all : \A x \in s : g[s] = f[x] + g[s \ {x}]}
<1>1. {} \in good
  OBVIOUS
<1>2. ASSUME NEW s \in SUBSET all, s # {}, \A x \in s : s \ {x} \in good
      PROVE  s \in good
  <2>1. PICK c \in s : g[s] = f[c] + g[s \ {c}]
    BY <1>2, PickIn DEF Adds
  <2>2. ASSUME NEW x \in s, x # c PROVE g[s] = f[x] + g[s \ {x}]
    <3>1. x \in s \ {c} /\ c \in s \ {x} /\ (s \ {c}) \ {x} = (s \ {x}) \ {c} /\ (s \ {c}) \ {x} \in SUBSET all
      BY <2>2
    <3>2. s \ {c} \in good /\ s \ {x} \in good
      BY <1>2
    <3>3. g[s \ {c}] = f[x] + g[(s \ {c}) \ {x}] /\ g[s \ {x}] = f[c] + g[(s \ {x}) \ {c}]
      BY <3>1, <3>2
    <3>4. f[x] \in Nat /\ f[c] \in Nat /\ g[(s \ {c}) \ {x}] \in Nat
      BY <1>0, <3>1
    <3>5. PICK rest \in Nat : rest = g[(s \ {c}) \ {x}] /\ rest = g[(s \ {x}) \ {c}]
      BY <3>1, <3>4
    <3>6. g[s \ {c}] = f[x] + rest /\ g[s \ {x}] = f[c] + rest
      BY <3>3, <3>5
    <3> QED BY <2>1, <3>4, <3>6
  <2> QED BY <2>1, <2>2
<1> HIDE DEF good
<1>3. SUBSET all \subseteq good
  BY <1>1, <1>2, OneByOne
<1> QED BY <1>0, <1>3 DEF good

\* Where one summand grows by at most n, the others do not and some may be gone, the sum
\* grows by at most n.
LEMMA AddsBelow ==
  ASSUME NEW all, IsFiniteSet(all), NEW fewer \in SUBSET all, NEW f \in [all -> Nat], NEW f2 \in [fewer -> Nat],
         NEW w, NEW n \in Nat, \A v \in fewer : f2[v] <= f[v] + (IF v = w THEN n ELSE 0),
         NEW g, Adds(g, f, all), NEW g2, Adds(g2, f2, fewer)
  PROVE  g2[fewer] <= g[all] + n
<1> DEFINE good == {s \in SUBSET all : g2[s \cap fewer] <= g[s] + (IF w \in s THEN n ELSE 0)}
<1>1. \A s \in SUBSET all : g[s] \in Nat /\ \A x \in s : g[s] = f[x] + g[s \ {x}]
  BY AddsAny
<1>0. IsFiniteSet(fewer)
  BY FS_Subset
<1>2. \A s \in SUBSET fewer : g2[s] \in Nat /\ \A x \in s : g2[s] = f2[x] + g2[s \ {x}]
  <2>1. f2 \in [fewer -> Nat] /\ Adds(g2, f2, fewer)
    OBVIOUS
  <2>2. \A d, h : IsFiniteSet(d) /\ h \in [d -> Nat]
          => \A k : Adds(k, h, d) => \A s \in SUBSET d : k[s] \in Nat /\ \A x \in s : k[s] = h[x] + k[s \ {x}]
    BY AddsAny
  <2> QED BY ONLY <1>0, <2>1, <2>2
<1>3. {} \in good
  <2>1. {} \cap fewer = {} /\ g2[{}] = 0 /\ g[{}] = 0
    BY DEF Adds
  <2> QED BY <2>1
<1>4. ASSUME NEW s \in SUBSET all, s # {}, \A x \in s : s \ {x} \in good
      PROVE  s \in good
  <2>1. PICK x : x \in s
    BY <1>4
  <2>2. g[s] = f[x] + g[s \ {x}] /\ g[s \ {x}] \in Nat /\ f[x] \in Nat
    <3>1. s \ {x} \in SUBSET all
      OBVIOUS
    <3> QED BY <1>1, <2>1, <3>1
  <2>3. g2[(s \ {x}) \cap fewer] <= g[s \ {x}] + (IF w \in s \ {x} THEN n ELSE 0)
    BY <1>4, <2>1
  <2>4. g2[s \cap fewer] <= g[s] + (IF w \in s THEN n ELSE 0)
    <3>1. CASE x \in fewer
      <4>1. (s \cap fewer) \ {x} = (s \ {x}) \cap fewer /\ (s \ {x}) \cap fewer \in SUBSET fewer /\ s \cap fewer \in SUBSET fewer
        OBVIOUS
      <4>2. /\ g2[s \cap fewer] = f2[x] + g2[(s \ {x}) \cap fewer] /\ g2[(s \ {x}) \cap fewer] \in Nat
            /\ f2[x] \in Nat /\ f2[x] <= f[x] + (IF x = w THEN n ELSE 0)
        BY <1>2, <2>1, <3>1, <4>1
      <4> QED BY <2>1, <2>2, <2>3, <4>2
    <3>2. CASE x \notin fewer
      <4>1. s \cap fewer = (s \ {x}) \cap fewer /\ s \cap fewer \in SUBSET fewer
        BY <3>2
      <4>2. g2[s \cap fewer] \in Nat
        BY <1>2, <4>1
      <4>3. g2[s \cap fewer] <= g[s \ {x}] + (IF w \in s \ {x} THEN n ELSE 0)
        BY <2>3, <4>1
      <4>4. (IF w \in s \ {x} THEN n ELSE 0) <= (IF w \in s THEN n ELSE 0)
        OBVIOUS
      <4> QED BY <2>2, <4>2, <4>3, <4>4
    <3> QED BY <3>1, <3>2
  <2> QED BY <2>4
<1> HIDE DEF good
<1>5. all \in good
  BY <1>3, <1>4, OneByOne
<1>6. all \cap fewer = fewer /\ fewer \in SUBSET fewer
  OBVIOUS
<1>7. g2[fewer] <= g[all] + (IF w \in all THEN n ELSE 0) /\ g[all] \in Nat /\ g2[fewer] \in Nat
  BY <1>1, <1>2, <1>5, <1>6 DEF good
<1> QED BY <1>7

\* The workspaces that count, and what their latest builds cost.
Counted == {w \in QuotaWorkspaces : ~deleted_quota[w]}
LatestCosts == [v \in Counted |-> Q!LatestCost(v)]

AddedUp == LatestCosts \in [Counted -> Nat] => \E g : Adds(g, LatestCosts, Counted) /\ Q!Consumed = g[Counted]

\* GetQuotaConsumedForUser is such a sum.
LEMMA ConsumedAdds ==
  ASSUME IsFiniteSet(QuotaWorkspaces)
  PROVE  AddedUp
<1> SUFFICES ASSUME LatestCosts \in [Counted -> Nat]
             PROVE  \E g : Adds(g, LatestCosts, Counted) /\ Q!Consumed = g[Counted]
  BY DEF AddedUp
<1>1. PICK all \in SUBSET QuotaWorkspaces : all = Counted
  BY DEF Counted
<1>2. PICK f \in [all -> Nat] : f = LatestCosts
  BY <1>1
<1>3. IsFiniteSet(all) /\ \A v \in all : f[v] = Q!LatestCost(v)
  BY <1>1, <1>2, FS_Subset DEF LatestCosts
<1>4. PICK g \in [SUBSET all -> Nat] : Adds(g, f, all)
  BY <1>3, AddsExists
<1>5. g = [s \in SUBSET all |-> IF s = {} THEN 0
             ELSE Q!LatestCost(CHOOSE x \in s : TRUE) + g[s \ {CHOOSE x \in s : TRUE}]]
  <2>1. ASSUME NEW s \in SUBSET all
        PROVE  g[s] = IF s = {} THEN 0
                      ELSE Q!LatestCost(CHOOSE x \in s : TRUE) + g[s \ {CHOOSE x \in s : TRUE}]
    <3>1. CASE s # {}
      <4>1. f[Pick(s)] = Q!LatestCost(Pick(s))
        BY <1>3, <3>1, PickIn
      <4> QED BY <1>4, <3>1, <4>1 DEF Adds, Pick
    <3> QED BY <1>4, <3>1 DEF Adds
  <2> QED BY <1>4, <2>1
<1>6. PICK h : /\ h = [s \in SUBSET all |-> IF s = {} THEN 0
                         ELSE Q!LatestCost(CHOOSE x \in s : TRUE) + h[s \ {CHOOSE x \in s : TRUE}]]
               /\ Q!MapThenSumSet(Q!LatestCost, all) = h[all]
  BY <1>5 DEF Q!MapThenSumSet, Q!MapThenFoldSet
<1>7. Adds(h, f, all)
  <2> SUFFICES ASSUME NEW s \in SUBSET all
               PROVE  h[s] = IF s = {} THEN 0 ELSE f[Pick(s)] + h[s \ {Pick(s)}]
    BY DEF Adds
  <2>1. s # {} => f[Pick(s)] = Q!LatestCost(Pick(s))
    BY <1>3, PickIn
  <2> QED BY <1>6, <2>1 DEF Pick
<1>8. Q!Consumed = Q!MapThenSumSet(Q!LatestCost, all)
  BY <1>1 DEF Q!Consumed, Counted
<1> QED BY <1>1, <1>2, <1>6, <1>7, <1>8

LEMMA ConsumedAddsNext == ASSUME IsFiniteSet(QuotaWorkspaces) PROVE AddedUp'
<1>1. AddedUp
  BY ConsumedAdds
<1> QED BY <1>1, PTL

\* What the user consumes grows with the build that is charged, at most.
LEMMA ConsumedGrows ==
  ASSUME IsFiniteSet(QuotaWorkspaces), LatestCosts \in [Counted -> Nat], (LatestCosts \in [Counted -> Nat])',
         Counted' \subseteq Counted, NEW w, NEW n \in Nat,
         \A v \in Counted' : Q!LatestCost(v)' <= Q!LatestCost(v) + (IF v = w THEN n ELSE 0)
  PROVE  Q!Consumed \in Nat /\ Q!Consumed' \in Nat /\ Q!Consumed' <= Q!Consumed + n
<1>1. PICK all \in SUBSET QuotaWorkspaces : all = Counted
  BY DEF Counted
<1>2. PICK fewer \in SUBSET all : fewer = Counted'
  BY <1>1
<1>3. PICK f \in [all -> Nat] : f = LatestCosts
  BY <1>1
<1>4. PICK f2 \in [fewer -> Nat] : f2 = LatestCosts'
  BY <1>2
<1>5. PICK g : Adds(g, f, all) /\ Q!Consumed = g[all]
  BY <1>1, <1>3, ConsumedAdds DEF AddedUp
<1>6. (\E h : Adds(h, LatestCosts, Counted) /\ Q!Consumed = h[Counted])'
  BY ConsumedAddsNext DEF AddedUp
<1>7. PICK g2 : Adds(g2, f2, fewer) /\ Q!Consumed' = g2[fewer]
  BY <1>2, <1>4, <1>6
<1>8. IsFiniteSet(all) /\ IsFiniteSet(fewer)
  BY <1>1, <1>2, FS_Subset
<1>9. \A v \in fewer : f2[v] <= f[v] + (IF v = w THEN n ELSE 0)
  BY <1>1, <1>2, <1>3, <1>4 DEF LatestCosts
<1>10. g[all] \in Nat /\ g2[fewer] \in Nat
  BY <1>5, <1>7, <1>8, AddsNat
<1>11. g2[fewer] <= g[all] + n
  BY <1>5, <1>7, <1>8, <1>9, AddsBelow
<1> QED BY <1>5, <1>7, <1>10, <1>11

\* A grant that is still to be committed, and that no other commit has spoiled, fits the
\* budget together with everything that is consumed.
GrantOK(w) ==
    LET j == job_quota[w]
    IN  j.step = "tx" /\ j.clean /\ j.grant /\ Q!PreviousCost(w) = 0 => j.cost + Q!Consumed <= j.budget

BudgetInv ==
    /\ QuotaInv
    /\ \A w \in QuotaWorkspaces : deleted_quota[w] => job_quota[w] = Q!NoJob
    /\ \A w \in QuotaWorkspaces : GrantOK(w)

LEMMA CostIsNat == ASSUME QuotaBounds, NEW x \in Costs \union {0} PROVE x \in Nat
  BY DEF QuotaBounds

LatestOK == QuotaInv => LatestCosts \in [Counted -> Nat]

LEMMA LatestNat == ASSUME QuotaBounds PROVE LatestOK /\ LatestOK'
<1>1. LatestOK
  <2> SUFFICES ASSUME QuotaInv PROVE LatestCosts \in [Counted -> Nat]
    BY DEF LatestOK
  <2>1. ASSUME NEW v \in Counted PROVE Q!LatestCost(v) \in Nat
    <3>1. v \in QuotaWorkspaces
      BY DEF Counted
    <3>2. Q!LatestCost(v) \in Costs \union {0}
      BY <3>1, LatestTyped
    <3> QED BY <3>2, CostIsNat
  <2> QED BY <2>1 DEF LatestCosts
<1> QED BY <1>1, PTL

LatestNatOK == QuotaInv => \A v \in QuotaWorkspaces : Q!LatestCost(v) \in Nat

LEMMA LatestNextNat == ASSUME QuotaBounds PROVE LatestNatOK'
<1>1. LatestNatOK
  <2> SUFFICES ASSUME QuotaInv, NEW v \in QuotaWorkspaces PROVE Q!LatestCost(v) \in Nat
    BY DEF LatestNatOK
  <2>1. Q!LatestCost(v) \in Costs \union {0}
    BY LatestTyped
  <2> QED BY <2>1, CostIsNat
<1> QED BY <1>1, PTL

LEMMA InitBudget == ASSUME QuotaBounds, Q!Init PROVE BudgetInv
<1>1. QuotaInv
  BY InitQuota
<1> QED BY <1>1 DEF Q!Init, BudgetInv, GrantOK, Q!NoJob

\* What a step does to the cost of the latest builds: only a grant raises one.
LEMMA CostsMove ==
  ASSUME QuotaBounds, BudgetInv, [Q!Next]_(Q!vars)
  PROVE  /\ Counted' \subseteq Counted
         /\ \/ \A v \in Counted' : Q!LatestCost(v)' <= Q!LatestCost(v)
            \/ \E w \in QuotaWorkspaces :
                  /\ Q!TxGrant(w)
                  /\ \A v \in Counted' : Q!LatestCost(v)' <= Q!LatestCost(v) + (IF v = w THEN job_quota[w].cost ELSE 0)
<1>1. ASSUME NEW v \in QuotaWorkspaces PROVE Q!LatestCost(v) \in Nat
  <2>1. QuotaInv
    BY DEF BudgetInv
  <2>2. Q!LatestCost(v) \in Costs \union {0}
    BY <2>1, LatestTyped
  <2> QED BY <2>2, CostIsNat
<1>2. \A v \in QuotaWorkspaces : cost'[v] = cost[v] => Q!LatestCost(v)' = Q!LatestCost(v)
  BY DEF Q!LatestCost, Q!Built
<1>3. CASE UNCHANGED <<cost, deleted_quota>>
  BY <1>1, <1>2, <1>3 DEF Counted
<1>4. ASSUME NEW w \in QuotaWorkspaces, Q!NewBuild(w)
      PROVE  Counted' \subseteq Counted /\ \A v \in Counted' : Q!LatestCost(v)' <= Q!LatestCost(v)
  <2>1. cost[w] \in Seq(Costs \union {0}) /\ cost \in [QuotaWorkspaces -> Seq(Costs \union {0})]
    BY DEF BudgetInv, QuotaInv
  <2>2. cost'[w] = Append(cost[w], 0) /\ \A v \in QuotaWorkspaces : v # w => cost'[v] = cost[v]
    BY <1>4, <2>1 DEF Q!NewBuild
  <2>3. cost'[w][Len(cost'[w])] = 0 /\ cost'[w] # <<>>
    BY <2>1, <2>2
  <2>4. Q!LatestCost(w)' = 0
    BY <2>3 DEF Q!LatestCost, Q!Built
  <2>5. Counted' = Counted
    BY <1>4 DEF Q!NewBuild, Counted
  <2> QED BY <1>1, <1>2, <2>2, <2>4, <2>5 DEF Counted
<1>5. ASSUME NEW w \in QuotaWorkspaces, NEW gone \in BOOLEAN, Q!Applied(w, gone)
      PROVE  Counted' \subseteq Counted /\ \A v \in Counted' : Q!LatestCost(v)' <= Q!LatestCost(v)
  <2>1. ~deleted_quota[w]
    BY <1>5 DEF BudgetInv, Q!Applied, Q!NoJob
  <2>2. Counted' \subseteq Counted
    BY <1>5, <2>1 DEF Counted, Q!Applied, BudgetInv, QuotaInv
  <2> QED BY <1>1, <1>2, <1>5, <2>2 DEF Q!Applied, Counted
<1>6. ASSUME NEW w \in QuotaWorkspaces, Q!TxGrant(w)
      PROVE  /\ Counted' \subseteq Counted
             /\ \A v \in Counted' : Q!LatestCost(v)' <= Q!LatestCost(v) + (IF v = w THEN job_quota[w].cost ELSE 0)
  <2>1. cost[w] \in Seq(Costs \union {0}) /\ cost \in [QuotaWorkspaces -> Seq(Costs \union {0})]
    BY DEF BudgetInv, QuotaInv
  <2>2. PICK c \in Nat : c = job_quota[w].cost
    BY <1>6, JobFields DEF Q!TxGrant, BudgetInv, QuotaInv, QuotaBounds
  <2>3. PICK row : row = [cost[w] EXCEPT ![Len(cost[w])] = c]
    OBVIOUS
  <2>4. cost'[w] = row /\ \A v \in QuotaWorkspaces : v # w => cost'[v] = cost[v]
    BY <1>6, <2>1, <2>2, <2>3 DEF Q!TxGrant
  <2>5. Counted' = Counted
    BY <1>6 DEF Q!TxGrant, Counted
  <2>6. Q!LatestCost(w)' <= c
    <3>1. CASE cost[w] = <<>>
      <4>1. row = <<>>
        BY <2>3, <3>1
      <4> QED BY <2>2, <2>4, <4>1 DEF Q!LatestCost, Q!Built
    <3>2. CASE cost[w] # <<>>
      <4>1. PICK n \in Nat \ {0} : n = Len(cost[w])
        BY <2>1, <3>2
      <4>2. cost[w] \in [1 .. n -> Costs \union {0}] /\ n \in 1 .. n
        BY <2>1, <4>1
      <4>3. row \in [1 .. n -> Costs \union {0, c}] /\ row[n] = c /\ DOMAIN row = 1 .. n
        BY <2>3, <4>1, <4>2
      <4>4. Len(row) = n
        BY <4>1, <4>3, LenProperties, SeqDef
      <4> QED BY <2>2, <2>4, <4>3, <4>4 DEF Q!LatestCost, Q!Built
    <3> QED BY <3>1, <3>2
  <2>7. ASSUME NEW v \in Counted'
        PROVE  Q!LatestCost(v)' <= Q!LatestCost(v) + (IF v = w THEN job_quota[w].cost ELSE 0)
    <3>1. v \in QuotaWorkspaces
      BY DEF Counted
    <3>2. CASE v = w
      <4>1. Q!LatestCost(v) \in Nat /\ Q!LatestCost(v)' \in Nat
        BY <1>1, <3>1, LatestNextNat, NextQuota DEF BudgetInv, LatestNatOK
      <4> QED BY <2>2, <2>6, <3>2, <4>1
    <3>3. CASE v # w
      <4>1. Q!LatestCost(v) \in Nat /\ Q!LatestCost(v)' = Q!LatestCost(v)
        BY <1>1, <1>2, <2>4, <3>1, <3>3
      <4> QED BY <3>3, <4>1
    <3> QED BY <3>2, <3>3
  <2> QED BY <2>5, <2>7
<1> QED
  BY <1>3, <1>4, <1>5, <1>6 DEF Q!Next, Q!vars, Q!SkipQuota, Q!ReadBuild, Q!TxBegin, Q!TxRefuse, Q!TxAbort,
     Q!AnswerLost, Q!Answered, Q!Ask, Q!PatchAllowance

\* What the user consumes grows with a grant only, and by what is granted at most.
LEMMA ConsumedStep ==
  ASSUME QuotaBounds, BudgetInv, [Q!Next]_(Q!vars)
  PROVE  /\ Q!Consumed \in Nat /\ Q!Consumed' \in Nat
         /\ \/ Q!Consumed' <= Q!Consumed
            \/ \E w \in QuotaWorkspaces : Q!TxGrant(w) /\ Q!Consumed' <= Q!Consumed + job_quota[w].cost
<1>1. QuotaInv /\ QuotaInv'
  BY NextQuota DEF BudgetInv
<1>2. LatestCosts \in [Counted -> Nat] /\ (LatestCosts \in [Counted -> Nat])'
  BY <1>1, LatestNat DEF LatestOK
<1>3. IsFiniteSet(QuotaWorkspaces) /\ Counted' \subseteq Counted
  BY CostsMove DEF QuotaBounds
<1>4. CASE \A v \in Counted' : Q!LatestCost(v)' <= Q!LatestCost(v)
  <2>1. \A v \in Counted : Q!LatestCost(v) \in Nat
    BY <1>2 DEF LatestCosts
  <2>2. \A v \in Counted' : Q!LatestCost(v)' <= Q!LatestCost(v) + (IF v = {} THEN 0 ELSE 0)
    BY <1>3, <1>4, <2>1
  <2>3. 0 \in Nat
    OBVIOUS
  <2>4. Q!Consumed \in Nat /\ Q!Consumed' \in Nat /\ Q!Consumed' <= Q!Consumed + 0
    BY <1>2, <1>3, <2>2, <2>3, ConsumedGrows
  <2> QED BY <2>4
<1>5. CASE \E w \in QuotaWorkspaces :
             /\ Q!TxGrant(w)
             /\ \A v \in Counted' : Q!LatestCost(v)' <= Q!LatestCost(v) + (IF v = w THEN job_quota[w].cost ELSE 0)
  <2>1. PICK w \in QuotaWorkspaces :
             /\ Q!TxGrant(w)
             /\ \A v \in Counted' : Q!LatestCost(v)' <= Q!LatestCost(v) + (IF v = w THEN job_quota[w].cost ELSE 0)
    BY <1>5
  <2>2. PICK c \in Nat : c = job_quota[w].cost
    BY <1>1, <2>1, JobFields DEF Q!TxGrant, QuotaInv, QuotaBounds
  <2>3. \A v \in Counted' : Q!LatestCost(v)' <= Q!LatestCost(v) + (IF v = w THEN c ELSE 0)
    BY <2>1, <2>2
  <2>4. Q!Consumed \in Nat /\ Q!Consumed' \in Nat /\ Q!Consumed' <= Q!Consumed + c
    BY <1>2, <1>3, <2>3, ConsumedGrows
  <2> QED BY <2>1, <2>2, <2>4
<1> QED BY <1>4, <1>5, CostsMove

\* A job that has not moved, while no more is consumed.
LEMMA GrantStays ==
  ASSUME NEW v \in QuotaWorkspaces, GrantOK(v), QuotaBounds, QuotaInv,
         job_quota'[v] = job_quota[v], cost'[v] = cost[v],
         Q!Consumed \in Nat, Q!Consumed' \in Nat, Q!Consumed' <= Q!Consumed
  PROVE  GrantOK(v)'
<1> SUFFICES ASSUME job_quota[v].step = "tx", job_quota[v].clean, job_quota[v].grant, Q!PreviousCost(v)' = 0
             PROVE  job_quota[v].cost + Q!Consumed' <= job_quota[v].budget
  BY DEF GrantOK
<1>1. Q!PreviousCost(v) = 0
  BY DEF Q!PreviousCost
<1>2. job_quota[v].cost + Q!Consumed <= job_quota[v].budget
  BY <1>1 DEF GrantOK
<1>3. job_quota[v].cost \in Nat /\ job_quota[v].budget \in Nat
  BY JobFields DEF QuotaInv, QuotaBounds
<1> QED BY <1>2, <1>3

\* The decision of the transaction.
LEMMA GrantDecided ==
  ASSUME QuotaBounds, QuotaInv, NEW w \in QuotaWorkspaces, Q!TxBegin(w),
         Q!Consumed \in Nat, Q!Consumed' \in Nat, Q!Consumed' <= Q!Consumed
  PROVE  GrantOK(w)'
<1>1. PICK j \in Q!Jobs : j = job_quota[w] /\ j.step = "read"
  BY DEF QuotaInv, Q!TxBegin
<1>2. j.cost \in Nat /\ j.own \in Nat
  <2>1. j \in [step : {"read"}, cost : Costs, own : Costs \union {0}]
    BY <1>1 DEF Q!Jobs, Q!NoJob
  <2>2. j.cost \in Costs \union {0} /\ j.own \in Costs \union {0}
    BY <2>1
  <2> QED BY <2>2, CostIsNat
<1>3. PICK g \in BOOLEAN : g = ~(j.cost + Q!Consumed > budget /\ Q!NetIncrease(w))
  OBVIOUS
<1>4. job_quota'[w] = [step |-> "tx", cost |-> j.cost, budget |-> budget, clean |-> TRUE, grant |-> g]
  <2>1. w \in DOMAIN job_quota
    BY DEF QuotaInv
  <2> QED BY <1>1, <1>3, <2>1 DEF Q!TxBegin, Q!Move
<1>5. budget \in Nat
  BY DEF QuotaInv, QuotaBounds
<1> SUFFICES ASSUME g, Q!PreviousCost(w)' = 0 PROVE j.cost + Q!Consumed' <= budget
  BY <1>4 DEF GrantOK
<1>6. Q!PreviousCost(w) = 0
  BY DEF Q!PreviousCost, Q!TxBegin
<1>7. Q!NetIncrease(w)
  BY <1>1, <1>2, <1>6 DEF Q!NetIncrease
<1>8. ~(j.cost + Q!Consumed > budget)
  BY <1>3, <1>7
<1> QED BY <1>2, <1>5, <1>8

LEMMA NextBudget == ASSUME QuotaBounds, BudgetInv, [Q!Next]_(Q!vars) PROVE BudgetInv'
<1>1. QuotaInv /\ QuotaInv'
  BY NextQuota DEF BudgetInv
<1>2. ASSUME NEW v \in QuotaWorkspaces, deleted_quota'[v] PROVE job_quota'[v] = Q!NoJob
  <2>1. deleted_quota \in [QuotaWorkspaces -> BOOLEAN] /\ job_quota \in [QuotaWorkspaces -> Q!Jobs]
    BY <1>1 DEF QuotaInv
  <2>2. ASSUME NEW w \in QuotaWorkspaces, NEW gone \in BOOLEAN, Q!Applied(w, gone)
        PROVE  job_quota'[v] = Q!NoJob
    BY <1>2, <2>1, <2>2 DEF BudgetInv, Q!Applied, Q!Move
  <2>3. ASSUME UNCHANGED deleted_quota
        PROVE  deleted_quota[v] /\ job_quota[v] = Q!NoJob
    BY <1>2, <2>3 DEF BudgetInv
  <2>4. ASSUME NEW w \in QuotaWorkspaces, Q!NewBuild(w) PROVE job_quota'[v] = Q!NoJob
    BY <1>2, <2>1, <2>3, <2>4 DEF Q!NewBuild, Q!Move
  <2>5. ASSUME NEW w \in QuotaWorkspaces, Q!TxGrant(w) PROVE job_quota'[v] = Q!NoJob
    BY <1>2, <2>3, <2>5 DEF Q!TxGrant, Q!NoJob
  <2>6. ASSUME NEW w \in QuotaWorkspaces,
               \/ Q!SkipQuota(w) \/ Q!ReadBuild(w) \/ Q!TxBegin(w) \/ Q!TxRefuse(w) \/ Q!TxAbort(w)
               \/ Q!AnswerLost(w) \/ Q!Answered(w) \/ (\E c \in Costs : Q!Ask(w, c))
        PROVE  job_quota'[v] = Q!NoJob
    <3>1. UNCHANGED deleted_quota /\ job_quota[w].step # "none" /\ \E j : Q!Move(w, j)
      BY <2>6 DEF Q!SkipQuota, Q!ReadBuild, Q!TxBegin, Q!TxRefuse, Q!TxAbort, Q!AnswerLost, Q!Answered, Q!Ask
    <3> QED BY <1>2, <2>1, <2>3, <3>1 DEF Q!NoJob, Q!Move
  <2>7. ASSUME UNCHANGED Q!vars \/ \E n \in Allowances : Q!PatchAllowance(n) PROVE job_quota'[v] = Q!NoJob
    BY <1>2, <2>3, <2>7 DEF Q!vars, Q!PatchAllowance
  <2> QED BY <2>2, <2>4, <2>5, <2>6, <2>7 DEF Q!Next
<1>3. ASSUME NEW v \in QuotaWorkspaces PROVE GrantOK(v)'
  <2>1. CASE \E w \in QuotaWorkspaces : Q!TxGrant(w)
    <3>1. PICK w \in QuotaWorkspaces : Q!TxGrant(w)
      BY <2>1
    <3>2. CASE v = w
      BY <3>1, <3>2 DEF Q!TxGrant, GrantOK
    <3>3. CASE v # w /\ job_quota[v].step = "tx"
      <4>1. job_quota'[v] = [job_quota[v] EXCEPT !.clean = FALSE]
        BY <3>1, <3>3 DEF Q!TxGrant
      <4>2. job_quota[v] \in [step : {"tx"}, cost : Costs, grant : BOOLEAN, budget : Allowances, clean : BOOLEAN]
        BY <1>1, <3>3, JobFields DEF QuotaInv
      <4>3. ~job_quota'[v].clean
        BY <4>1, <4>2
      <4> QED BY <4>3 DEF GrantOK
    <3>4. CASE v # w /\ job_quota[v].step # "tx"
      BY <3>1, <3>4 DEF Q!TxGrant, GrantOK
    <3> QED BY <3>2, <3>3, <3>4
  <2>2. CASE ~ \E w \in QuotaWorkspaces : Q!TxGrant(w)
    <3>1. Q!Consumed \in Nat /\ Q!Consumed' \in Nat /\ Q!Consumed' <= Q!Consumed
      BY <2>2, ConsumedStep
    <3>2. job_quota \in [QuotaWorkspaces -> Q!Jobs] /\ cost \in [QuotaWorkspaces -> Seq(Costs \union {0})] /\ GrantOK(v)
      BY <1>1 DEF QuotaInv, BudgetInv
    <3>3. CASE job_quota'[v] = job_quota[v] /\ cost'[v] = cost[v]
      BY <1>1, <3>1, <3>2, <3>3, GrantStays
    <3>4. CASE Q!TxBegin(v)
      BY <1>1, <3>1, <3>4, GrantDecided
    <3>5. CASE job_quota'[v].step # "tx"
      BY <3>5 DEF GrantOK
    <3>6. ASSUME NEW w \in QuotaWorkspaces, NEW j, Q!Move(w, j), j.step # "tx",
                 UNCHANGED cost \/ cost' = [cost EXCEPT ![w] = Append(@, 0)]
          PROVE  (job_quota'[v] = job_quota[v] /\ cost'[v] = cost[v]) \/ job_quota'[v].step # "tx"
      BY <3>2, <3>6 DEF Q!Move
    <3>7. ASSUME NEW w \in QuotaWorkspaces, Q!TxBegin(w)
          PROVE  v = w \/ (job_quota'[v] = job_quota[v] /\ cost'[v] = cost[v])
      BY <3>2, <3>7 DEF Q!TxBegin, Q!Move
    <3>8. ASSUME NEW w \in QuotaWorkspaces,
                 \/ Q!NewBuild(w) \/ Q!SkipQuota(w) \/ Q!ReadBuild(w) \/ Q!TxRefuse(w) \/ Q!TxAbort(w)
                 \/ Q!AnswerLost(w) \/ Q!Answered(w) \/ (\E c \in Costs : Q!Ask(w, c))
                 \/ \E gone \in BOOLEAN : Q!Applied(w, gone)
          PROVE  /\ UNCHANGED cost \/ cost' = [cost EXCEPT ![w] = Append(@, 0)]
                 /\ \E j : Q!Move(w, j) /\ j.step # "tx"
      <4>1. [step |-> "planned"].step # "tx" /\ [step |-> "applying"].step # "tx" /\ Q!NoJob.step # "tx"
        BY DEF Q!NoJob
      <4>2. \A x, y : /\ [step |-> "asked", cost |-> x].step # "tx"
                      /\ [step |-> "read", cost |-> x, own |-> y].step # "tx"
                      /\ [step |-> "answered", cost |-> x, ok |-> y].step # "tx"
        OBVIOUS
      <4>3. CASE Q!Answered(w)
        <5>1. CASE job_quota[w].ok
          BY <4>1, <4>3, <5>1 DEF Q!Answered
        <5>2. CASE ~job_quota[w].ok
          BY <4>1, <4>3, <5>2 DEF Q!Answered
        <5> QED BY <5>1, <5>2
      <4> QED BY <3>8, <4>1, <4>2, <4>3 DEF Q!NewBuild, Q!SkipQuota, Q!ReadBuild, Q!TxRefuse, Q!TxAbort,
                 Q!AnswerLost, Q!Ask, Q!Applied
    <3>9. CASE UNCHANGED Q!vars \/ \E n \in Allowances : Q!PatchAllowance(n)
      BY <3>3, <3>9 DEF Q!vars, Q!PatchAllowance
    <3> QED BY <2>2, <3>3, <3>4, <3>5, <3>6, <3>7, <3>8, <3>9 DEF Q!Next
  <2> QED BY <2>1, <2>2
<1> QED BY <1>1, <1>2, <1>3 DEF BudgetInv

LEMMA BudgetStep == ASSUME QuotaBounds, BudgetInv, [Q!Next]_(Q!vars) PROVE Q!WithinBudget
<1> SUFFICES ASSUME NEW w \in QuotaWorkspaces, cost'[w] # cost[w], job_quota[w].step = "tx", Q!PreviousCost(w) = 0
             PROVE  Q!Consumed' <= job_quota[w].budget
  BY DEF Q!WithinBudget
<1>1. QuotaInv
  BY DEF BudgetInv
<1>2. cost \in [QuotaWorkspaces -> Seq(Costs \union {0})]
  BY <1>1 DEF QuotaInv
<1>3. Q!TxGrant(w)
  <2>1. ASSUME NEW v \in QuotaWorkspaces, Q!NewBuild(v) PROVE FALSE
    BY <1>2, <2>1 DEF Q!NewBuild, Q!NoJob
  <2>2. ASSUME NEW v \in QuotaWorkspaces, Q!TxGrant(v) PROVE v = w
    BY <1>2, <2>2 DEF Q!TxGrant
  <2> QED BY <2>1, <2>2 DEF Q!Next, Q!vars, Q!SkipQuota, Q!ReadBuild, Q!TxBegin, Q!TxRefuse, Q!TxAbort,
             Q!AnswerLost, Q!Answered, Q!Ask, Q!Applied, Q!PatchAllowance
<1>4. job_quota[w].cost + Q!Consumed <= job_quota[w].budget
  BY <1>3 DEF BudgetInv, GrantOK, Q!TxGrant, Q!Serializable
<1>5. job_quota[w].cost \in Nat /\ job_quota[w].budget \in Nat
  BY <1>1, JobFields DEF QuotaInv, QuotaBounds
<1>6. \A v \in QuotaWorkspaces : Q!TxGrant(v) => v = w
  BY <1>2 DEF Q!TxGrant
<1>7. Q!Consumed \in Nat /\ Q!Consumed' \in Nat /\ Q!Consumed' <= Q!Consumed + job_quota[w].cost
  BY <1>3, <1>5, <1>6, ConsumedStep
<1> QED BY <1>4, <1>5, <1>7

\* Two builds of one user that commit at the same time cannot both take the last credits.
THEOREM NeverOverspent == ASSUME QuotaBounds PROVE Q!Spec => Q!NoOverspend
<1>1. Q!Init => BudgetInv
  BY InitBudget
<1>2. BudgetInv /\ [Q!Next]_(Q!vars) => BudgetInv'
  BY NextBudget
<1>3. BudgetInv /\ [Q!Next]_(Q!vars) => [Q!WithinBudget]_(Q!vars)
  BY BudgetStep
<1> QED BY <1>1, <1>2, <1>3, PTL DEF Q!Spec, Q!NoOverspend

-----------------------------------------------------------------------------
(* The server.                                                             *)

\* What each component needs to know of its constants.
AccessConstants == Lives /\ Population /\ Ids /\ Clock /\ QuotaBounds

\* Each component keeps its invariant in its own behaviours.
AccessInv ==
    /\ part = "sessions" => SessionsInv
    /\ part = "signup" => SignupInv
    /\ part = "roles" => RolesInv
    /\ part = "apps" => AppsInv
    /\ part = "quota" => BudgetInv

LEMMA InitAccess == ASSUME AccessConstants, ServerInit PROVE AccessInv
<1>1. part = "sessions" => SessionsInv
  BY InitSessions DEF ServerInit, AccessConstants
<1>2. part = "signup" => SignupInv
  BY InitSignup DEF ServerInit, AccessConstants
<1>3. part = "roles" => RolesInv
  BY InitRoles DEF ServerInit
<1>4. part = "apps" => AppsInv
  BY InitApps DEF ServerInit, AccessConstants
<1>5. part = "quota" => BudgetInv
  BY InitBudget DEF ServerInit, AccessConstants
<1> QED BY <1>1, <1>2, <1>3, <1>4, <1>5 DEF AccessInv

\* A step is one of the component that the behaviour is of.
LEMMA OwnSteps ==
  ASSUME [ServerNext]_serverVars
  PROVE  /\ part' = part
         /\ part = "sessions" => [S!Next]_(S!vars)
         /\ part = "signup" => [U!Next]_(U!vars)
         /\ part = "roles" => [R!Next]_(R!vars)
         /\ part = "apps" => [A!Next]_(A!vars)
         /\ part = "quota" => [Q!Next]_(Q!vars)
<1>1. CASE ServerNext
  BY <1>1 DEF ServerNext
<1>2. CASE UNCHANGED serverVars
  BY <1>2 DEF serverVars, varsS, varsU, varsR, varsA, varsQ, S!vars, U!vars, R!vars, A!vars, Q!vars
<1> QED BY <1>1, <1>2

LEMMA NextAccess == ASSUME AccessConstants, AccessInv, [ServerNext]_serverVars PROVE AccessInv'
<1>1. part' = part
  BY OwnSteps
<1>2. part = "sessions" => SessionsInv'
  BY OwnSteps, NextSessions DEF AccessInv, AccessConstants
<1>3. part = "signup" => SignupInv'
  BY OwnSteps, NextSignup DEF AccessInv, AccessConstants
<1>4. part = "roles" => RolesInv'
  BY OwnSteps, NextRoles DEF AccessInv
<1>5. part = "apps" => AppsInv'
  BY OwnSteps, NextApps DEF AccessInv, AccessConstants
<1>6. part = "quota" => BudgetInv'
  BY OwnSteps, NextBudget DEF AccessInv, AccessConstants
<1> QED BY <1>1, <1>2, <1>3, <1>4, <1>5, <1>6 DEF AccessInv

LEMMA AccessFollows == ASSUME AccessConstants, AccessInv PROVE AccessSafe
<1>1. part = "sessions" => S!TypeOK /\ S!SuspendedNotServed /\ S!KeysYoungerThanPassword /\ S!LoginsLastADay
  BY SessionsSafe DEF AccessInv
<1>2. part = "signup" => U!TypeOK /\ U!NamesUnique /\ U!LinksMatchLoginType
  BY SignupSafe DEF AccessInv
<1>3. part = "roles" => R!TypeOK /\ R!RolesWereGranted /\ R!FilterAgrees
  BY RolesTypeOK, ListsAgree DEF AccessInv, AccessConstants, RolesInv
<1>4. part = "apps" => A!TypeOK /\ A!SharedAsConfigured /\ A!AppKeysFromSessions /\ A!RedirectsEnd
  BY AppsSafe DEF AccessInv
<1>5. part = "quota" => Q!TypeOK
  BY QuotaSafe DEF AccessInv, BudgetInv, AccessConstants
<1> QED BY <1>1, <1>2, <1>3, <1>4, <1>5 DEF AccessSafe

(* Who may do what, in every behaviour of the server: requests of          *)
(* suspended users are refused and keys end when they should, accounts are *)
(* unique and not taken over, roles come from those who may assign them,   *)
(* lists have what the policy allows, and applications are shown to whom   *)
(* they are shared with.                                                   *)
THEOREM AccessIsSafe ==
  ASSUME AccessConstants
  PROVE  ServerSpec => []AccessSafe
<1>1. ServerInit => AccessInv
  BY InitAccess
<1>2. AccessInv /\ [ServerNext]_serverVars => AccessInv'
  BY NextAccess
<1>3. AccessInv => AccessSafe
  BY AccessFollows
<1> QED BY <1>1, <1>2, <1>3, PTL DEF ServerSpec

\* A step of the sessions or of the quota is one that their properties allow.
LEMMA StepsFollow ==
  ASSUME AccessConstants, AccessInv, [ServerNext]_serverVars
  PROVE  /\ part = "sessions" => S!StaysRevoked
         /\ part = "quota" => Q!WithinBudget
<1>1. ASSUME part = "sessions" PROVE S!StaysRevoked
  <2>1. SessionsInv /\ [S!Next]_(S!vars) /\ Lives
    BY <1>1, OwnSteps DEF AccessInv, AccessConstants
  <2> QED BY <2>1, NextSessions DEF KeysFollow, S!StaysRevoked
<1>2. ASSUME part = "quota" PROVE Q!WithinBudget
  <2>1. BudgetInv /\ [Q!Next]_(Q!vars) /\ QuotaBounds
    BY <1>2, OwnSteps DEF AccessInv, AccessConstants
  <2> QED BY <2>1, BudgetStep
<1> QED BY <1>1, <1>2

(* In every behaviour of the server, a key that was deleted stays deleted, *)
(* though a request that read it before writes it back afterwards, and two *)
(* builds of one user that commit at the same time cannot both take the    *)
(* last credits.                                                           *)
THEOREM ServerStepsHold ==
  ASSUME AccessConstants
  PROVE  ServerSpec => ServerSteps
<1>1. ServerInit => AccessInv
  BY InitAccess
<1>2. AccessInv /\ [ServerNext]_serverVars => AccessInv'
  BY NextAccess
<1>3. AccessInv /\ [ServerNext]_serverVars
        => [/\ part = "sessions" => S!StaysRevoked
            /\ part = "quota" => Q!WithinBudget]_serverVars
  BY StepsFollow
<1> QED BY <1>1, <1>2, <1>3, PTL DEF ServerSpec, ServerSteps
=============================================================================
