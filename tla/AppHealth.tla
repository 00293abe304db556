----------------------------- MODULE AppHealth -----------------------------
(***************************************************************************)
(* The health of workspace apps: the reporter the agent runs while it is   *)
(* connected (agent/apphealth.go), the requests it sends, and the handler  *)
(* postWorkspaceAppHealth of coderd.  A reconnecting agent starts a new    *)
(* reporter from the health coderd stored; a request of the old one may    *)
(* still be under way.                                                     *)
(***************************************************************************)
EXTENDS Naturals

CONSTANTS
    Apps,
    Threshold,      \* Healthcheck.Threshold of every app
    MaxFlips,       \* how often apps go up or down
    MaxFaults       \* requests that fail, and reconnections

VARIABLES
    kind,           \* how each app's health check is configured
    up,             \* whether the app answers its check
    health, failures, lastHealth,      \* what the reporter keeps
    streak,         \* failed checks since the last that succeeded
    post,           \* the request of the reporter, NoPost when there is none
    late,           \* a request of an earlier reporter
    server,         \* workspace_apps.health
    disturbed,      \* whether the last request was lost, or an old one came late
    flips, faults

vars == <<kind, up, health, failures, lastHealth, streak, post, late, server,
          disturbed, flips, faults>>
reporter == <<health, failures, lastHealth, streak>>

Kinds == {"checked", "unticked", "disabled"}
Healths == {"disabled", "initializing", "healthy", "unhealthy"}
NoPost == [a \in {} |-> "disabled"]

TypeOK ==
    /\ kind \in [Apps -> Kinds] /\ up \in [Apps -> BOOLEAN]
    /\ health \in [Apps -> Healths] /\ lastHealth \in [Apps -> Healths]
    /\ server \in [Apps -> Healths]
    /\ failures \in [Apps -> 0 .. Threshold]
    /\ streak \in [Apps -> 0 .. Threshold + 1]
    /\ post \in [Apps -> Healths] \union {NoPost}
    /\ late \in [Apps -> Healths] \union {NoPost}
    /\ disturbed \in BOOLEAN /\ flips \in 0 .. MaxFlips /\ faults \in 0 .. MaxFaults

\* InsertWorkspaceResource stores an app with a health check as initializing.
Stored(k) == [a \in Apps |-> IF k[a] = "disabled" THEN "disabled" ELSE "initializing"]

Init ==
    /\ kind \in [Apps -> Kinds]
    /\ up \in [Apps -> BOOLEAN]
    /\ server = Stored(kind)
    /\ health = server /\ lastHealth = server
    /\ failures = [a \in Apps |-> 0] /\ streak = [a \in Apps |-> 0]
    /\ post = NoPost /\ late = NoPost
    /\ disturbed = FALSE /\ flips = 0 /\ faults = 0

\* The loop ends at once when no app has a health check.
hasHealthchecksEnabled == \E a \in Apps : health[a] # "disabled"

\* shouldStartTicker: a URL, an interval and a threshold.
shouldStartTicker(a) == kind[a] = "checked"

\* Mutant of Tolerated: one failure more is counted.
ToleratedOneMore(a) == failures[a] <= Threshold

Tolerated(a) == failures[a] < Threshold

\* The ticker of app a fires and its URL answers, or does not.
Check(a) ==
    /\ hasHealthchecksEnabled /\ shouldStartTicker(a)
    /\ \/ /\ up[a]
          /\ health' = [health EXCEPT ![a] = "healthy"]
          /\ failures' = [failures EXCEPT ![a] = 0]
          /\ streak' = [streak EXCEPT ![a] = 0]
       \/ /\ ~up[a]
          /\ IF Tolerated(a)
             THEN failures' = [failures EXCEPT ![a] = @ + 1] /\ UNCHANGED health
             ELSE health' = [health EXCEPT ![a] = "unhealthy"] /\ UNCHANGED failures
          /\ streak' = [streak EXCEPT ![a] = IF @ > Threshold THEN @ ELSE @ + 1]
    /\ UNCHANGED <<kind, up, lastHealth, post, late, server, disturbed, flips, faults>>

\* Mutant of healthChanged: only apps that become unhealthy are reported.
healthChangedForWorse == \E a \in Apps : health[a] = "unhealthy" /\ lastHealth[a] # "unhealthy"

healthChanged == \E a \in Apps : health[a] # lastHealth[a]

\* The report ticker: lastHealth is replaced before the request is sent.
Report ==
    /\ hasHealthchecksEnabled
    /\ post = NoPost /\ healthChanged
    /\ lastHealth' = health /\ post' = health
    /\ UNCHANGED <<kind, up, health, failures, streak, late, server, disturbed, flips, faults>>

\* postWorkspaceAppHealth refuses the request when one of its apps has no
\* health check; otherwise it writes what has changed, and publishes.
Accepted(r) == \A a \in Apps : kind[a] # "disabled" /\ r[a] # "disabled"
postWorkspaceAppHealth(r) == server' = IF Accepted(r) THEN r ELSE server

Deliver ==
    /\ post # NoPost
    /\ postWorkspaceAppHealth(post)
    /\ post' = NoPost /\ disturbed' = FALSE
    /\ UNCHANGED <<kind, up, reporter, late, flips, faults>>

\* The request fails; that is logged and no more.
Lose ==
    /\ post # NoPost /\ faults < MaxFaults
    /\ post' = NoPost /\ disturbed' = TRUE
    /\ faults' = faults + 1
    /\ UNCHANGED <<kind, up, reporter, late, server, flips>>

\* The connection breaks: the reporter's context ends and the next run starts
\* another from the metadata.
Reconnect ==
    /\ faults < MaxFaults
    /\ faults' = faults + 1
    /\ health' = server /\ lastHealth' = server
    /\ failures' = [a \in Apps |-> 0] /\ streak' = [a \in Apps |-> 0]
    /\ post' = NoPost
    /\ late' = IF post # NoPost THEN post ELSE late
    /\ UNCHANGED <<kind, up, server, disturbed, flips>>

\* A request of the old reporter reaches coderd after all.
DeliverLate ==
    /\ late # NoPost
    /\ postWorkspaceAppHealth(late)
    /\ late' = NoPost /\ disturbed' = TRUE
    /\ UNCHANGED <<kind, up, reporter, post, flips, faults>>

\* An app starts or stops answering.
Flip(a) ==
    /\ flips < MaxFlips
    /\ flips' = flips + 1
    /\ up' = [up EXCEPT ![a] = ~@]
    /\ UNCHANGED <<kind, reporter, post, late, server, disturbed, faults>>

Next ==
    \/ \E a \in Apps : Check(a) \/ Flip(a)
    \/ Report \/ Deliver \/ Lose \/ Reconnect \/ DeliverLate

\* Tickers fire, and requests are answered.
Spec ==
    /\ Init /\ [][Next]_vars
    /\ \A a \in Apps : WF_vars(Check(a))
    /\ WF_vars(Report) /\ WF_vars(Deliver \/ Lose)

-----------------------------------------------------------------------------

\* An app that stays up, or down, is shown so for good, unless a request was
\* lost and no later one followed, or one of the agent's apps has no health
\* check: the report names it too, and is refused as a whole.
HealthReported ==
    \A a \in Apps :
        /\ <>[](shouldStartTicker(a) /\ up[a] /\ ~disturbed /\ Accepted(server))
            => <>[](server[a] = "healthy")
        /\ <>[](shouldStartTicker(a) /\ ~up[a] /\ ~disturbed /\ Accepted(server))
            => <>[](server[a] = "unhealthy")

\* "the number of consecutive failed health checks before returning
\* unhealthy": one check more has to fail.
UnhealthyAtThreshold ==
    \A a \in Apps : streak[a] >= Threshold => health[a] = "unhealthy"
=============================================================================
