------------------------------ MODULE Activity ------------------------------
(***************************************************************************)
(* Keeping a used workspace on: the agent counts traffic and reports it    *)
(* (codersdk AgentReportStats with the callback of agent.init; older       *)
(* agents answer over a websocket with running totals), coderd bumps the   *)
(* deadline of the running build (activityBumpWorkspace), and a user may   *)
(* extend it.  The bump reads the build and writes it in one transaction   *)
(* of the default isolation level: others may write in between.  Time is   *)
(* in units of bumpAmount - bumpThreshold.                                 *)
(***************************************************************************)
EXTENDS Naturals

CONSTANTS
    Bumps,          \* calls of activityBumpWorkspace
    BumpAmount, BumpThreshold,
    Soon,           \* the nearest deadline a user may ask for
    MaxTime, MaxTraffic,
    MaxFailures     \* reports and bumps that fail

VARIABLES
    protocol,       \* how this agent reports: by requests or over a websocket
    now,
    deadline,       \* of the latest build, 0 when shutdown is manual
    traffic,        \* bytes since the counters were extracted, or in total
    report,         \* the report under way
    lastReport,     \* the websocket handler's last report
    served,         \* activity coderd has been told of
    bump,           \* where each bump is
    kept,           \* the deadline that activity has earned
    failed

vars == <<protocol, now, deadline, traffic, report, lastReport, served, bump, kept, failed>>

NoReport == MaxTraffic + 1
Later(a, b) == IF a > b THEN a ELSE b
Earlier(a, b) == IF a > b THEN b ELSE a

TypeOK ==
    /\ protocol \in {"request", "websocket"}
    /\ now \in 0 .. MaxTime
    /\ deadline \in 0 .. MaxTime + 2 * BumpAmount
    /\ traffic \in 0 .. MaxTraffic /\ lastReport \in 0 .. MaxTraffic
    /\ report \in 0 .. NoReport
    /\ served \in 0 .. MaxTraffic
    /\ bump \in [Bumps -> {"idle", "begin", "write", "done"}]
    /\ kept \in 0 .. MaxTime + 2 * BumpAmount
    /\ failed \in 0 .. MaxFailures

\* A build that was started with a deadline, or with none.
Init ==
    /\ protocol \in {"request", "websocket"}
    /\ now = 0 /\ deadline \in {0, BumpThreshold}
    /\ traffic = 0 /\ report = NoReport /\ lastReport = 0 /\ served = 0
    /\ bump = [b \in Bumps |-> "idle"]
    /\ kept = 0 /\ failed = 0

Tick ==
    /\ now < MaxTime /\ (deadline = 0 \/ now < deadline)
    /\ now' = now + 1
    /\ UNCHANGED <<protocol, deadline, traffic, report, lastReport, served, bump, kept, failed>>

\* Somebody uses the workspace.
Use ==
    /\ traffic < MaxTraffic
    /\ traffic' = traffic + 1
    /\ UNCHANGED <<protocol, now, deadline, report, lastReport, served, bump, kept, failed>>

-----------------------------------------------------------------------------
(* Reports *)

\* The callback extracts the counters, which resets them; a websocket agent
\* answers with what it has counted so far.
getStats ==
    /\ report = NoReport
    /\ report' = traffic
    /\ traffic' = IF protocol = "request" THEN 0 ELSE traffic
    /\ UNCHANGED <<protocol, now, deadline, lastReport, served, bump, kept, failed>>

\* The request fails: it is retried with what the counters hold by then.
PostFails ==
    /\ report # NoReport /\ failed < MaxFailures
    /\ failed' = failed + 1
    /\ report' = NoReport
    /\ UNCHANGED <<protocol, now, deadline, traffic, lastReport, served, bump, kept>>

\* Mutant of IsActivity: an unchanged total counts as activity only when it is zero.
IsActivityZero == report = 0

\* workspaceAgentReportStats answers an empty report at once; over the
\* websocket a report that equals the last is no activity.
IsActivity == IF protocol = "request" THEN report # 0 ELSE report # lastReport

ReportStats ==
    /\ report # NoReport
    /\ \/ ~IsActivity /\ UNCHANGED <<bump, lastReport, served>>
       \/ /\ IsActivity
          /\ \E b \in Bumps : bump[b] = "idle" /\ bump' = [bump EXCEPT ![b] = "begin"]
          /\ lastReport' = IF protocol = "websocket" THEN report ELSE lastReport
          /\ served' = IF protocol = "websocket" THEN report ELSE Earlier(served + report, MaxTraffic)
    /\ report' = NoReport
    /\ UNCHANGED <<protocol, now, deadline, traffic, kept, failed>>

-----------------------------------------------------------------------------
(* activityBumpWorkspace *)

\* Mutant of BumpNeeded: the deadline must have passed.
BumpNeededLate == deadline <= now

\* The deadline comes before the threshold.
BumpNeeded == deadline < now + BumpThreshold

\* The build is read, and left alone if its shutdown is manual or far enough.
BumpRead(b) ==
    /\ bump[b] = "begin"
    /\ bump' = [bump EXCEPT ![b] = IF deadline # 0 /\ BumpNeeded THEN "write" ELSE "done"]
    /\ kept' = IF deadline # 0 /\ ~BumpNeeded THEN Later(kept, now + BumpThreshold) ELSE kept
    /\ UNCHANGED <<protocol, now, deadline, traffic, report, lastReport, served, failed>>

BumpWrite(b) ==
    /\ bump[b] = "write"
    /\ deadline' = now + BumpAmount
    /\ kept' = Later(kept, now + BumpThreshold)
    /\ bump' = [bump EXCEPT ![b] = "done"]
    /\ UNCHANGED <<protocol, now, traffic, report, lastReport, served, failed>>

\* The transaction fails, or the 15 seconds are over.
BumpFails(b) ==
    /\ bump[b] \in {"begin", "write"} /\ failed < MaxFailures
    /\ failed' = failed + 1
    /\ bump' = [bump EXCEPT ![b] = "done"]
    /\ UNCHANGED <<protocol, now, deadline, traffic, report, lastReport, served, kept>>

\* putExtendWorkspace sets another deadline, a nearer one too.
Extend(d) ==
    /\ deadline # 0 /\ d >= now + Soon
    /\ deadline' = d /\ kept' = Earlier(kept, d)
    /\ UNCHANGED <<protocol, now, traffic, report, lastReport, served, bump, failed>>

Next ==
    \/ Tick \/ Use \/ getStats \/ PostFails \/ ReportStats
    \/ \E b \in Bumps : BumpRead(b) \/ BumpWrite(b) \/ BumpFails(b)
    \/ \E d \in Soon .. MaxTime + BumpAmount : Extend(d)

\* The report timer fires, requests are answered and bumps run.
Spec ==
    /\ Init /\ [][Next]_vars
    /\ WF_vars(getStats) /\ WF_vars(PostFails \/ ReportStats)
    /\ \A b \in Bumps : WF_vars(BumpRead(b) \/ BumpWrite(b) \/ BumpFails(b))

-----------------------------------------------------------------------------

\* Once a bump has been through, the workspace stays on for at least the
\* threshold, whatever the bumps and the extensions that overlap it write,
\* unless the user asked for less.
ActivityKeepsOn == deadline # 0 => deadline >= kept

\* Traffic reaches coderd as activity, unless the report that carried it
\* failed: its counters were reset when they were read.
ActivityReported ==
    \A n \in 1 .. MaxTraffic :
        (traffic = n) ~> (served > 0 \/ failed > 0 \/ \A b \in Bumps : bump[b] # "idle")
=============================================================================
