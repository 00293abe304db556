------------------------------ MODULE GitAuth ------------------------------
(***************************************************************************)
(* Git authentication of one workspace owner with one provider: the        *)
(* gitaskpass command (cli/gitaskpass.go) asks workspaceAgentsGitAuth for  *)
(* a token, which may refresh the stored one, or tells the user to log in  *)
(* and listens until gitAuthCallback has stored a token and published it.  *)
(* The provider is external: it issues numbered tokens, and a refresh      *)
(* token can be used once.                                                 *)
(***************************************************************************)
EXTENDS Naturals, FiniteSets

CONSTANTS
    Asks,           \* gitaskpass commands
    Logins,         \* logins the user goes through in the browser
    Casts,          \* which of these take part
    MaxTokens,      \* tokens the provider issues
    MaxFaults       \* requests that fail, and notifications that are lost

VARIABLES
    config,         \* [noRefresh, validate]: the provider's configuration
    link,           \* the stored token: none, or [token, fresh]
    issued,         \* tokens issued by the provider so far
    expired,        \* tokens whose time is over
    revoked,        \* tokens the provider no longer accepts
    refreshed,      \* tokens whose refresh token has been used
    ask,            \* where each gitaskpass and its request are
    login,          \* where each login is
    dropped,        \* tokens that were issued to a refresh and never stored
    faults

vars == <<config, link, issued, expired, revoked, refreshed, ask, login, dropped, faults>>

NoLink == 0
Tokens == 1 .. MaxTokens
At(step) == [step |-> step, read |-> 0, token |-> 0]

TypeOK ==
    /\ config \in [noRefresh : BOOLEAN, validate : BOOLEAN]
    /\ link \in 0 .. MaxTokens /\ issued \in 0 .. MaxTokens
    /\ expired \subseteq 1 .. issued /\ revoked \subseteq 1 .. issued
    /\ refreshed \subseteq 1 .. issued /\ dropped \subseteq 1 .. issued
    /\ ask \in [Asks -> [step : {"ask", "source", "validate", "update", "open", "listen",
                                 "check", "listenValidate", "answered", "failed"},
                         read : 0 .. MaxTokens, token : 0 .. MaxTokens]]
    /\ login \in [Logins -> [step : {"idle", "read", "insert", "update", "publish", "done", "failed"},
                             read : 0 .. MaxTokens, token : 0 .. MaxTokens]]
    /\ faults \in 0 .. MaxFaults

Init ==
    /\ config \in [noRefresh : BOOLEAN, validate : BOOLEAN]
    /\ \/ link = NoLink /\ issued = 0 /\ expired = {}
       \/ link = 1 /\ issued = 1 /\ expired \in SUBSET {1}
    /\ revoked = {} /\ refreshed = {} /\ dropped = {}
    /\ \E cast \in Casts :
         /\ ask = [a \in Asks |-> At(IF a \in cast THEN "ask" ELSE "failed")]
         /\ login = [l \in Logins |-> At(IF l \in cast THEN "idle" ELSE "failed")]
    /\ faults = 0

provider == <<issued, expired, revoked, refreshed>>

-----------------------------------------------------------------------------
(* gitaskpass and workspaceAgentsGitAuth *)

\* There is no token, or one that has expired and may not be refreshed.
NeedsLogin == link = NoLink \/ (config.noRefresh /\ link \in expired)

\* A request without listen finds the provider of the URL and the owner of the
\* agent's workspace, reads the link, and may answer with the URL to open.
Ask(a) ==
    /\ ask[a].step = "ask"
    /\ ask' = [ask EXCEPT ![a] =
            IF NeedsLogin THEN At("open")
            ELSE [step |-> "source", read |-> link, token |-> link]]
    /\ UNCHANGED <<config, link, provider, login, dropped, faults>>

\* TokenSource.Token gives the token back while it is fresh, and uses its
\* refresh token otherwise; the provider refuses one that was used before.
TokenSource(a) ==
    /\ ask[a].step = "source"
    /\ \/ /\ ask[a].read \notin expired
          /\ ask' = [ask EXCEPT ![a].step = "validate"]
          /\ UNCHANGED <<provider>>
       \/ /\ ask[a].read \in expired \ (refreshed \union revoked) /\ issued < MaxTokens
          /\ issued' = issued + 1 /\ refreshed' = refreshed \union {ask[a].read}
          /\ ask' = [ask EXCEPT ![a].step = "validate", ![a].token = issued + 1]
          /\ UNCHANGED <<expired, revoked>>
       \/ /\ ask[a].read \in expired /\ (ask[a].read \in refreshed \union revoked \/ issued = MaxTokens)
          /\ ask' = [ask EXCEPT ![a] = At("open")]
          /\ UNCHANGED <<provider>>
    /\ UNCHANGED <<config, link, login, dropped, faults>>

\* A refreshed token is lost when the request ends before it was stored.
Dropped(a) == IF ask[a].token # ask[a].read THEN dropped \union {ask[a].token} ELSE dropped

\* validateGitToken: the provider accepts the token.
Valid(t) == t \notin expired \union revoked

\* The token is validated when a URL for it is configured.
Validate(a) ==
    /\ ask[a].step = "validate"
    /\ \/ /\ ~config.validate \/ Valid(ask[a].token)
          /\ ask' = [ask EXCEPT ![a].step = "update"]
          /\ UNCHANGED <<dropped, faults>>
       \/ /\ config.validate /\ ~Valid(ask[a].token)
          /\ ask' = [ask EXCEPT ![a] = At("open")]
          /\ dropped' = Dropped(a) /\ UNCHANGED faults
       \/ /\ config.validate /\ faults < MaxFaults        \* the provider cannot be reached
          /\ ask' = [ask EXCEPT ![a] = At("failed")]
          /\ dropped' = Dropped(a) /\ faults' = faults + 1
    /\ UNCHANGED <<config, link, provider, login>>

\* Mutant of UpdatedLink: the old token is written back.
UpdatedLinkOld(a) == ask[a].read

\* UpdateGitAuthLink, when the token is another than the one that was read.
UpdatedLink(a) == ask[a].token

Update(a) ==
    /\ ask[a].step = "update"
    /\ link' = IF ask[a].token # ask[a].read THEN UpdatedLink(a) ELSE link
    /\ ask' = [ask EXCEPT ![a] = [At("answered") EXCEPT !.token = ask[a].token]]
    /\ UNCHANGED <<config, provider, login, dropped, faults>>

\* The user is asked to open the URL and the command listens.
Open(a) ==
    /\ ask[a].step = "open"
    /\ ask' = [ask EXCEPT ![a] = At("listen")]
    /\ UNCHANGED <<config, link, provider, login, dropped, faults>>

\* Mutant of Ticked: only a notification wakes the request.
TickedNever(a) == FALSE

\* The ticker wakes the listening request every second.
Ticked(a) == ask[a].step = "listen"

\* The request wakes and reads the link: without one it fails, and the command
\* asks again; a token that has expired is waited out.
Wake(a) ==
    /\ Ticked(a)
    /\ link # NoLink /\ link \notin expired
    /\ ask' = [ask EXCEPT ![a] = [step |-> "listenValidate", read |-> link, token |-> link]]
    /\ UNCHANGED <<config, link, provider, login, dropped, faults>>

ListenValidate(a) ==
    /\ ask[a].step = "listenValidate"
    /\ \/ /\ ~config.validate \/ Valid(ask[a].token)
          /\ ask' = [ask EXCEPT ![a].step = "answered"]
          /\ UNCHANGED faults
       \/ /\ config.validate /\ ~Valid(ask[a].token)
          /\ ask' = [ask EXCEPT ![a] = At("listen")]
          /\ UNCHANGED faults
       \/ /\ config.validate /\ faults < MaxFaults
          /\ ask' = [ask EXCEPT ![a] = At("listen")]
          /\ faults' = faults + 1
    /\ UNCHANGED <<config, link, provider, login, dropped>>

-----------------------------------------------------------------------------
(* gitAuthCallback *)

\* The provider sends the user back with a token.
Begin(l) ==
    /\ login[l].step = "idle" /\ issued < MaxTokens
    /\ issued' = issued + 1
    /\ login' = [login EXCEPT ![l] = [step |-> "read", read |-> 0, token |-> issued + 1]]
    /\ UNCHANGED <<config, link, expired, revoked, refreshed, ask, dropped, faults>>

Read(l) ==
    /\ login[l].step = "read"
    /\ login' = [login EXCEPT ![l].step = IF link = NoLink THEN "insert" ELSE "update"]
    /\ UNCHANGED <<config, link, provider, ask, dropped, faults>>

\* InsertGitAuthLink fails when another login has inserted the row.
Insert(l) ==
    /\ login[l].step = "insert"
    /\ IF link = NoLink
       THEN link' = login[l].token /\ login' = [login EXCEPT ![l].step = "publish"]
       ELSE login' = [login EXCEPT ![l] = At("failed")] /\ UNCHANGED link
    /\ UNCHANGED <<config, provider, ask, dropped, faults>>

UpdateLogin(l) ==
    /\ login[l].step = "update"
    /\ link' = login[l].token
    /\ login' = [login EXCEPT ![l].step = "publish"]
    /\ UNCHANGED <<config, provider, ask, dropped, faults>>

\* The notification wakes the requests that listen, which read the link, or is lost.
Publish(l) ==
    /\ login[l].step = "publish"
    /\ login' = [login EXCEPT ![l] = At("done")]
    /\ \/ /\ ask' = [a \in Asks |->
                IF ask[a].step = "listen" /\ link \notin expired
                THEN [step |-> "listenValidate", read |-> link, token |-> link] ELSE ask[a]]
          /\ UNCHANGED faults
       \/ faults < MaxFaults /\ faults' = faults + 1 /\ UNCHANGED ask
    /\ UNCHANGED <<config, link, provider, dropped>>

-----------------------------------------------------------------------------
(* The provider *)

Expire(t) ==
    /\ t \in 1 .. issued \ expired
    /\ t < MaxTokens                        \* the last token stays good
    /\ expired' = expired \union {t}
    /\ UNCHANGED <<config, link, issued, revoked, refreshed, ask, login, dropped, faults>>

Revoke(t) ==
    /\ t \in 1 .. issued \ revoked /\ t < MaxTokens
    /\ faults < MaxFaults /\ faults' = faults + 1
    /\ revoked' = revoked \union {t}
    /\ UNCHANGED <<config, link, issued, expired, refreshed, ask, login, dropped>>

Command(a) ==
    \/ Ask(a) \/ TokenSource(a) \/ Validate(a) \/ Update(a) \/ Open(a)
    \/ Wake(a) \/ ListenValidate(a)
Callback(l) == Read(l) \/ Insert(l) \/ UpdateLogin(l) \/ Publish(l)

Next ==
    \/ \E a \in Asks : Command(a)
    \/ \E l \in Logins : Begin(l) \/ Callback(l)
    \/ \E t \in Tokens : Expire(t) \/ Revoke(t)

\* Requests run and tickers fire; the user need not log in.
Spec ==
    /\ Init /\ [][Next]_vars
    /\ \A a \in Asks : WF_vars(Command(a))
    /\ \A l \in Logins : WF_vars(Callback(l))

-----------------------------------------------------------------------------

\* The stored token can be refreshed: it has not been used for a refresh, or
\* the request that used it will store the new one, or ended without doing so.
LinkRefreshable ==
    (link # NoLink /\ link \in refreshed /\ dropped = {}) =>
        \E a \in Asks : ask[a].step \in {"validate", "update"} /\ ask[a].token # ask[a].read

\* A command that waits for the user gets its answer once a good token is
\* stored and stays, even when the notification is lost.
LoginAnswersAsk ==
    \A a \in Asks :
        ~ <>[](ask[a].step = "listen" /\ link # NoLink /\ link \notin expired \union revoked)

\* A login that was redirected is what is stored, until a later one is.
LoginIsKept ==
    [][\A l \in Logins : login[l].step = "publish" /\ link = login[l].token /\ link' # link
            => link' > link]_vars
=============================================================================
