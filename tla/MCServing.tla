---------------------------- MODULE MCServing ----------------------------
(***************************************************************************)
(* Components of the server that serve builds and those who watch them: a  *)
(* behaviour is of one of them, and the others stay as they begin.         *)
(***************************************************************************)
EXTENDS Naturals, Sequences

CONSTANTS
    FirstID, MaxLines, BatchSizes, BufferSize,                                        \* of LogStream
    Readers, MaxBuilds, MaxVersions, MaxChanges, MaxLost,                             \* of WorkspaceWatch
    Bumps, BumpAmount, BumpThreshold, Soon, MaxTime, MaxTraffic, MaxFailures,         \* of Activity
    Provisions, Configs, MaxLongLines                                                 \* of TerraformProvision

VARIABLES
    part,   \* which component the behaviour is of
    rows, producer, completed, notes, handlers, closed, buffer, reader_logs, done, pending, sent,
    dropped, deleted, tpl, builds, out, watch, spawned, reader_watch, heard, since, clock, lost,
    panics, protocol, now, deadline, traffic, report, lastReport, served, bump, kept, failed, config,
    pc, proc, canceled, ended, killed, stuck, initMut, world, tfstate, outcome

\* For TLC: one of the provisions asks for anything, the others for a plan.
AskAnything ==
    LET first == CHOOSE p \in Provisions : TRUE
    IN  {[p \in Provisions |-> IF p = first THEN c ELSE [kind |-> "plan", destroy |-> FALSE, state |-> 0]] :
            c \in [kind : {"plan", "apply"}, destroy : BOOLEAN, state : {0, 1}]}

\* A request that follows the logs of a job.
L == INSTANCE LogStream WITH reader <- reader_logs

\* A request that watches a workspace through changes.
W == INSTANCE WorkspaceWatch WITH reader <- reader_watch

\* Reports of a workspace's activity, some of which bump its deadline at a time.
A == INSTANCE Activity

\* Provisions that run at a time.
P == INSTANCE TerraformProvision

\* The variables of each component, and all.
varsL == <<rows, producer, completed, notes, handlers, closed, buffer, reader_logs, done, pending,
           sent, dropped>>
varsW == <<deleted, tpl, builds, out, watch, spawned, reader_watch, heard, since, clock, lost, panics>>
varsA == <<protocol, now, deadline, traffic, report, lastReport, served, bump, kept, failed>>
varsP == <<config, pc, proc, canceled, ended, killed, stuck, initMut, world, tfstate, outcome>>
vars == <<part, varsL, varsW, varsA, varsP>>

Init ==
    /\ part \in {"logs", "watch", "activity", "terraform"}
    /\ L!Init
    /\ W!Init /\ (part # "watch" => watch = "none" /\ Len(builds) = 1 /\ builds[1].status = "pending")
    /\ A!Init /\ (part # "activity" => protocol = "websocket" /\ deadline = 0)
    /\ P!Init /\ (part # "terraform" => config = CHOOSE c \in Configs : TRUE)

Next ==
    \/ part = "logs" /\ L!Next /\ UNCHANGED <<part, varsW, varsA, varsP>>
    \/ part = "watch" /\ W!Next /\ UNCHANGED <<part, varsL, varsA, varsP>>
    \/ part = "activity" /\ A!Next /\ UNCHANGED <<part, varsL, varsW, varsP>>
    \/ part = "terraform" /\ P!Next /\ UNCHANGED <<part, varsL, varsW, varsA>>

\* The fairness each module states, for the behaviours of that component.
Fairness ==
    /\ WF_varsL(part = "logs" /\ L!PublishLogs) /\ WF_varsL(part = "logs" /\ L!PublishEnd)
    /\ WF_varsL(part = "logs" /\ L!Receive) /\ WF_varsL(part = "logs" /\ L!Request)
    /\ WF_varsL(part = "logs" /\ \E h \in handlers : L!Handler(h))
    /\ \A c \in W!Channels : WF_varsW(part = "watch" /\ W!Publish(c))
    /\ \A r \in Readers : WF_varsW(part = "watch" /\ W!ReaderStep(r))
    /\ WF_varsW(part = "watch" /\ W!SenderClosed)
    /\ WF_varsA(part = "activity" /\ A!getStats) /\ WF_varsA(part = "activity" /\ (A!PostFails \/ A!ReportStats))
    /\ \A b \in Bumps : WF_varsA(part = "activity" /\ (A!BumpRead(b) \/ A!BumpWrite(b) \/ A!BumpFails(b)))
    /\ \A p \in Provisions :
          /\ WF_varsP(part = "terraform" /\ P!checkMinVersion(p)) /\ WF_varsP(part = "terraform" /\ P!WriteState(p))
          /\ WF_varsP(part = "terraform" /\ P!LockInit(p)) /\ WF_varsP(part = "terraform" /\ P!Start(p))
          /\ WF_varsP(part = "terraform" /\ P!interruptCommandOnCancel(p)) /\ WF_varsP(part = "terraform" /\ P!Killed(p))
          /\ WF_varsP(part = "terraform" /\ P!Wait(p)) /\ WF_varsP(part = "terraform" /\ P!ExitTimeout(p))
          /\ WF_varsP(part = "terraform" /\ (pc[p] = "init" \/ proc[p] = "interrupted") /\ \E ok \in BOOLEAN : P!Exit(p, ok))

Spec == Init /\ [][Next]_vars /\ Fairness

-----------------------------------------------------------------------------

\* What clients are shown is what there is.
ServingSafe ==
    \* The log stream leaves no gap behind the query it starts with, sends nothing of that
    \* query again, and has everything when it finds the job complete.
    /\ part = "logs" => L!TypeOK /\ L!NoGap /\ L!HistoryOnce /\ L!CompleteHistory
    \* A watcher that is told a start has succeeded is shown its resources, which come from
    \* another query.
    /\ part = "watch" => W!TypeOK /\ W!SucceededShowsResources
    \* Once a bump has been through, the workspace stays on for at least the threshold,
    \* whatever the bumps and the extensions that overlap it write.
    /\ part = "activity" => A!TypeOK /\ A!ActivityKeepsOn
    \* A caller that hears from terraform can tell which resources exist, whatever failed or
    \* was canceled and when.
    /\ part = "terraform" => P!TypeOK /\ P!StateReported

\* Nobody is left waiting.
ServingLive ==
    \* Neither a completion between the subscription and the look at the job, nor a full
    \* channel, loses the end of the logs.
    /\ part = "logs" => L!StreamEnds
    \* What changes after a watcher has subscribed is sent in a view no older than it, unless
    \* a notification is lost.
    /\ part = "watch" => W!WatcherHears
    \* Traffic reaches coderd as activity, unless the report that carried it failed.
    /\ part = "activity" => A!ActivityReported
    \* Once the stream has ended no terraform process of it runs for ever, and a canceled
    \* provision returns, unless output that nobody reads blocks it or the one it waits for.
    /\ part = "terraform" => P!ProcessesCleanedUp /\ P!CancelReturns
=============================================================================
