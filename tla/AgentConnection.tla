-------------------------- MODULE AgentConnection --------------------------
(***************************************************************************)
(* The row of one workspace agent as coderd keeps it while the agent's     *)
(* websockets come and go (workspaceAgentCoordinate in                     *)
(* coderd/workspaceagents.go), and the status read from it                 *)
(* (convertWorkspaceAgent).  A dropped agent dials again before its old    *)
(* session, maybe on another replica, has noticed.                         *)
(*                                                                         *)
(* Of the times in the row only their order matters: disc says whether     *)
(* disconnected_at is null, before or after last_connected_at.             *)
(***************************************************************************)
EXTENDS Naturals, FiniteSets

CONSTANTS
    Sessions,      \* the agent's websockets
    MaxBuild       \* bounds the builds of the workspace; the agent is of build 1

VARIABLES
    row,           \* workspace_agents
    latest,        \* the build_number of the workspace's latest build
    session        \* where each workspaceAgentCoordinate is

vars == <<row, latest, session>>

TypeOK ==
    /\ row \in [first : BOOLEAN, disc : {"null", "before", "after"}, recent : BOOLEAN, timely : BOOLEAN]
    /\ latest \in 1 .. MaxBuild
    /\ session \in [Sessions -> [at : {"off", "read", "checked", "up", "ending", "gone"}, disc : BOOLEAN]]

Init ==
    /\ row = [first |-> FALSE, disc |-> "null", recent |-> FALSE, timely |-> TRUE]
    /\ latest = 1
    /\ session = [s \in Sessions |-> [at |-> "off", disc |-> FALSE]]

----------------------------------------------------------------------------
Move(s, at) == session' = [session EXCEPT ![s].at = at]

\* ExtractWorkspaceAgent: the row is read with the request.
Read(s) ==
    /\ session[s].at = "off"
    /\ session' = [session EXCEPT ![s] = [at |-> "read", disc |-> row.disc # "null"]]
    /\ UNCHANGED <<row, latest>>

\* ensureLatestBuild: an agent of an older build is refused.
Check(s) ==
    /\ session[s].at = "read"
    /\ Move(s, IF latest = 1 THEN "checked" ELSE "gone")
    /\ UNCHANGED <<row, latest>>

\* updateConnectionTimes: last_connected_at is now, disconnected_at what was read.
Beaten(s) == [row EXCEPT !.first = TRUE, !.recent = TRUE,
                         !.disc = IF session[s].disc THEN "before" ELSE "null"]

Connect(s) ==
    /\ session[s].at = "checked"
    /\ row' = Beaten(s)
    /\ Move(s, "up")
    /\ UNCHANGED latest

\* Mutant of Beat: only the first look at the build counts.
BeatUnchecked(s) ==
    /\ session[s].at = "up"
    /\ row' = Beaten(s)
    /\ UNCHANGED <<latest, session>>

\* Mutant of Beat: the ticker looks at the build and leaves the row alone.
BeatChecks(s) ==
    /\ session[s].at = "up"
    /\ Move(s, IF latest = 1 THEN "up" ELSE "ending")
    /\ UNCHANGED <<row, latest>>

\* The ticker: the row is written, then an agent of an older build is disconnected.
Beat(s) ==
    /\ session[s].at = "up"
    /\ row' = Beaten(s)
    /\ Move(s, IF latest = 1 THEN "up" ELSE "ending")
    /\ UNCHANGED latest

\* ServeAgent returns: the websocket broke, or the coordinator closed it for a newer one.
Break(s) ==
    /\ session[s].at = "up"
    /\ Move(s, "ending")
    /\ UNCHANGED <<row, latest>>

Disconnected(s) == [row EXCEPT !.first = TRUE, !.disc = "after"]

\* The deferred write, with the session's own last_connected_at.
Disconnect(s) ==
    /\ session[s].at = "ending"
    /\ row' = Disconnected(s)
    /\ Move(s, "gone")
    /\ UNCHANGED latest

\* The coderd of the session dies, or its database does not take the last write.
Vanish(s) ==
    /\ session[s].at \in {"read", "checked", "up", "ending"}
    /\ Move(s, "gone")
    /\ UNCHANGED <<row, latest>>

NewBuild ==
    /\ latest < MaxBuild
    /\ latest' = latest + 1
    /\ UNCHANGED <<row, session>>

\* agentInactiveDisconnectTimeout passes without an update, which a session would make.
Inactive ==
    /\ row.recent /\ \A s \in Sessions : session[s].at # "up"
    /\ row' = [row EXCEPT !.recent = FALSE]
    /\ UNCHANGED <<latest, session>>

\* The agent's connection timeout passes.
Late ==
    /\ row.timely
    /\ row' = [row EXCEPT !.timely = FALSE]
    /\ UNCHANGED <<latest, session>>

\* convertWorkspaceAgent
Status ==
    IF ~row.first THEN (IF row.timely THEN "connecting" ELSE "timeout")
    ELSE IF row.disc = "after" \/ ~row.recent THEN "disconnected"
    ELSE "connected"

Next ==
    \/ \E s \in Sessions :
        Read(s) \/ Check(s) \/ Connect(s) \/ Beat(s) \/ Break(s) \/ Disconnect(s) \/ Vanish(s)
    \/ NewBuild \/ Inactive \/ Late

Spec == Init /\ [][Next]_vars

\* Handlers go on, tickers fire and time passes.
Fairness ==
    /\ \A s \in Sessions : WF_vars(Check(s)) /\ WF_vars(Connect(s)) /\ WF_vars(Beat(s)) /\ WF_vars(Disconnect(s))
    /\ WF_vars(Inactive)

FairSpec == Spec /\ Fairness

----------------------------------------------------------------------------
\* "Disconnect agents that are no longer valid.": a session of an older build ends, also one
\* that was checked before the new build came.
OutdatedAgentsGo == \A s \in Sessions : (latest > 1) ~> (latest > 1 /\ session[s].at # "up")

\* The row catches up with the sessions whatever the order of their writes: a session that
\* stays makes the status connected again after an older one has written its disconnect,
\* and an agent without a session is disconnected.
StatusCatchesUp ==
    /\ \A s \in Sessions :
        <>[](session[s].at = "up" /\ \A t \in Sessions \ {s} : session[t].at \in {"off", "gone"})
            => <>[](Status = "connected")
    /\ <>[](\A s \in Sessions : session[s].at \in {"off", "gone"})
            => <>[](Status \in {"connecting", "timeout", "disconnected"})
============================================================================
