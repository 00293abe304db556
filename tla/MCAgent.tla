----------------------------- MODULE MCAgent -----------------------------
(***************************************************************************)
(* The components of the workspace agent, and the licenses: a behaviour is *)
(* of one of them, and the others stay as they begin.                      *)
(***************************************************************************)
EXTENDS Naturals, Sequences

CONSTANTS
    MaxErrors, MaxSessions,                                                   \* of Agent
    Conns, MaxPTYs, MaxOutput, BufferSize,                                    \* of ReconnectingPTY
    Apps, Threshold, MaxFlips, MaxReports,                                    \* of AppHealth
    Licenses, Grants, AllFeatures, LicenseExpires, Exp, Knows, Requests,      \* of Entitlements
    MaxTime, MaxFaults, MaxPeerChanges, MaxCalls

VARIABLES
    part,   \* which component the behaviour is of
    loop_agent, errors, metadata, scripts, reporter, network, accept, wait, speedtests, ptys,
    statsCloser, closer, closed, entry, pty, conn, kind, up, health, failures, lastHealth, streak,
    post, late, server, disturbed, flips, faults_health, now, table, entitlements, entitlementsMu,
    computed, committer, coordinator, unable, callback, calls, meshed, peer, loop_licenses, notified,
    updates, request, faults_licenses, peerChanges

\* For TLC: one license gives way to another with other features.
OldAndNew == [l \in Licenses |-> IF l = "old" THEN {"ha", "rbac"} ELSE {"ha", "git"}]
AtOnce == [l \in Licenses |-> 0]
OldFirst == [l \in Licenses |-> IF l = "old" THEN 1 ELSE 2]

\* An agent some of whose calls fail.
A == INSTANCE Agent WITH loop <- loop_agent

\* Connections to one reconnecting PTY.
P == INSTANCE ReconnectingPTY

\* The health of apps.
H == INSTANCE AppHealth WITH MaxFaults <- MaxReports, faults <- faults_health

\* Licenses, their uploads and deletions.
E == INSTANCE Entitlements WITH loop <- loop_licenses, faults <- faults_licenses

\* The variables of each component, and all.
varsA == <<loop_agent, errors, metadata, scripts, reporter, network, accept, wait, speedtests, ptys,
           statsCloser, closer, closed>>
varsP == <<entry, pty, conn>>
varsH == <<kind, up, health, failures, lastHealth, streak, post, late, server, disturbed, flips,
           faults_health>>
varsE == <<now, table, entitlements, entitlementsMu, computed, committer, coordinator, unable,
           callback, calls, meshed, peer, loop_licenses, notified, updates, request, faults_licenses,
           peerChanges>>
vars == <<part, varsA, varsP, varsH, varsE>>

Init ==
    /\ part \in {"agent", "pty", "health", "licenses"}
    /\ A!Init
    /\ P!Init
    /\ H!Init /\ (part # "health" => (\A a \in Apps : kind[a] = "checked" /\ up[a]))
    /\ E!Init /\ (part # "licenses" => table = <<>>)

Next ==
    \/ part = "agent" /\ A!Next /\ UNCHANGED <<part, varsP, varsH, varsE>>
    \/ part = "pty" /\ P!Next /\ UNCHANGED <<part, varsA, varsH, varsE>>
    \/ part = "health" /\ H!Next /\ UNCHANGED <<part, varsA, varsP, varsE>>
    \/ part = "licenses" /\ E!Next /\ UNCHANGED <<part, varsA, varsP, varsH>>

\* The fairness each module states, for the behaviours of that component.
Fairness ==
    /\ WF_varsA(part = "agent" /\ A!Run) /\ WF_varsA(part = "agent" /\ closed /\ A!CoordinatorEnds)
    /\ \A p \in A!PortSet : WF_varsA(part = "agent" /\ A!AcceptEnds(p))
    /\ WF_varsA(part = "agent" /\ A!StartSpeedtest) /\ WF_varsA(part = "agent" /\ closed /\ A!SpeedtestEnds)
    /\ WF_varsA(part = "agent" /\ A!CountPTY) /\ WF_varsA(part = "agent" /\ closed /\ A!EndPTY)
    /\ WF_varsA(part = "agent" /\ A!FinishInit) /\ WF_varsA(part = "agent" /\ A!CloseStats)
    /\ WF_varsA(part = "agent" /\ A!CloseNetwork) /\ WF_varsA(part = "agent" /\ A!CloseReturn)
    /\ \A c \in Conns :
          WF_varsP(part = "pty" /\ (P!Create(c) \/ P!CreateFails(c) \/ P!Replay(c) \/ P!Register(c) \/ P!EndServing(c)))
    /\ \A i \in P!PTYs : WF_varsP(part = "pty" /\ P!Goroutines(i))
    /\ \A a \in Apps : WF_varsH(part = "health" /\ H!Check(a))
    /\ WF_varsH(part = "health" /\ H!Report) /\ WF_varsH(part = "health" /\ (H!Deliver \/ H!Lose))
    /\ WF_varsE(part = "licenses" /\ E!Store) /\ WF_varsE(part = "licenses" /\ E!Subscribe)
    /\ WF_varsE(part = "licenses" /\ E!Tick) /\ WF_varsE(part = "licenses" /\ E!SyncReplicas(peer))
    /\ SF_varsE(part = "licenses" /\ E!Lock([by |-> "loop", ctx |-> "loop"]))
    /\ \A c \in E!Calls : /\ WF_varsE(part = "licenses" /\ E!Callback(c))
                            /\ SF_varsE(part = "licenses" /\ E!Lock([by |-> "callback", ctx |-> c.ctx]))

Spec == Init /\ [][Next]_vars /\ Fairness

-----------------------------------------------------------------------------

\* What the agent runs, and what the server installs, is what it should be.
AgentSafe ==
    \* However often the agent reconnects, the startup script is started once; when Close has
    \* returned, the tailnet is closed and nothing that Close waits for still runs.
    /\ part = "agent" => A!TypeOK /\ A!ScriptOnce /\ A!NothingLeftAfterClose
    \* What the reporter of app health keeps and sends are healths of the apps there are.
    /\ part = "health" => H!TypeOK
    \* Whenever the mutex is free, what is installed is what the entitlements say, and what
    \* the replica computes after an upload has every feature it had before.
    /\ part = "licenses" => E!TypeOK /\ E!ServerFollows /\ E!UploadKeepsFeatures

\* What should happen in the end, does.
AgentLive ==
    \* Close returns, unless it meets one of the two waits that nobody ends; once calls stop
    \* failing the agent serves a coordinator again, with all its ports open.
    /\ part = "agent" => A!CloseReturns /\ A!ComesBack
    \* A PTY that nobody is connected to is killed, unless somebody connects to it.
    /\ part = "pty" => P!IdleIsKilled
    \* An app that stays up, or down, is shown so for good, unless a request was lost and no
    \* later one followed, or the report is refused because of another app.
    /\ part = "health" => H!HealthReported
    \* Whatever notifications are lost, a replica ends with the entitlements of the licenses
    \* that are left, and with the mesh of the peers that replica sync knows.
    /\ part = "licenses" => E!EntitlementsConverge /\ E!MeshFollowsPeers
=============================================================================
