--------------------------- MODULE ServicesProofs ---------------------------
(***************************************************************************)
(* Proofs about what several requests or goroutines keep together, as      *)
(* MCServer composes it: the builds of workspaces (WorkspaceBuilds), the   *)
(* DERP mesh (DerpMesh), the tokens of git (GitAuth), reconnecting         *)
(* terminals (ReconnectingPTY) and templates (Templates), each for any     *)
(* number of requests, calls, connections and rows.  The components share  *)
(* nothing: each has an inductive invariant of its own, and ServiceInv     *)
(* says which one a behaviour of the server keeps.                         *)
(***************************************************************************)
EXTENDS MCServer, Integers, FiniteSetTheorems, SequenceTheorems, WellFoundedInduction, TLAPS

-----------------------------------------------------------------------------
(* The builds of workspaces.  Whoever decides to build has seen the latest *)
(* build over, and a build that is over stays so and keeps the state it    *)
(* ended with; the number that was read is free only as long as that build *)
(* is still the latest one.  PlanOK says so of every request and executor  *)
(* between its read and its write.                                         *)

Over(b) == Phase(b) = "over"

\* The job ended well, and nobody gave it up before.
EndedWell(b) == b.completed /\ ~b.failed /\ ~b.canceled /\ ~b.lapsed

BuildOK(b) ==
    /\ b \in Build
    /\ b.working => b.started
    /\ b.working /\ (b.completed \/ ~b.fresh) => b.lapsed
    /\ b.saving => b.failed
    /\ b.failed => b.started /\ ~b.working

\* c may follow b as the same row: what is over stays over, and a build that is
\* settled afterwards was so before, with the same state.
RowFollows(b, c) ==
    /\ BuildOK(c)
    /\ c.trans = b.trans /\ c.from = b.from /\ c.reason = b.reason
    /\ Over(b) => Over(c) /\ (EndedWell(c) => EndedWell(b) /\ c.state = b.state)
    /\ Phase(b) = "running" => Phase(c) # "waiting"

\* The state a build may start from when b is its predecessor.
MayInherit(b, t, s) == EndedWell(b) => s = b.state \/ (t = "delete" /\ s = 0)

States == 0 .. MaxBuilds

BuildPlans == [step : {"build"}, ws : Workspaces, trans : Transitions, number : Nat, state : States]
CancelPlans == [step : {"cancel"}, ws : Workspaces, number : Nat, running : BOOLEAN]
ExtendPlans == [step : {"extend"}, ws : Workspaces, number : Nat, state : States, deadline : 1 .. MaxTime]
Plans == {NoPlan, Answered} \union BuildPlans \union CancelPlans \union ExtendPlans

LatestOf(rows, w) == rows[w][Len(rows[w])]

BuildPlanOK(p, rows) ==
    p.step = "build" =>
        /\ p \in BuildPlans
        /\ p.number \in 2 .. Len(rows[p.ws]) + 1
        /\ p.number = Len(rows[p.ws]) + 1 =>
            Over(LatestOf(rows, p.ws)) /\ MayInherit(LatestOf(rows, p.ws), p.trans, p.state)

CancelPlanOK(p, rows) ==
    p.step = "cancel" => p \in CancelPlans /\ p.number \in 1 .. Len(rows[p.ws])

ExtendPlanOK(p, rows) ==
    p.step = "extend" =>
        /\ p \in ExtendPlans
        /\ p.number \in 1 .. Len(rows[p.ws])
        /\ Over(rows[p.ws][p.number])
        /\ EndedWell(rows[p.ws][p.number]) => p.state = rows[p.ws][p.number].state

\* An executor stops what was started and starts what was stopped.
TurnOK(p, rows) ==
    p.step = "build" =>
        \/ p.trans = "stop" /\ rows[p.ws][p.number - 1].trans = "start"
        \/ p.trans = "start" /\ rows[p.ws][p.number - 1].trans = "stop"

UserPlanOK(p, rows) == BuildPlanOK(p, rows) /\ CancelPlanOK(p, rows) /\ ExtendPlanOK(p, rows)
ExecPlanOK(p, rows) == BuildPlanOK(p, rows) /\ TurnOK(p, rows)

\* What was read from rows is still good for rows2.
PlansSurvive(rows, rows2) ==
    \A p : /\ UserPlanOK(p, rows) => UserPlanOK(p, rows2)
           /\ ExecPlanOK(p, rows) => ExecPlanOK(p, rows2)

PlansOK ==
    /\ request \in [Requests -> Plans]
    /\ exec \in [Executors -> {NoPlan} \union BuildPlans]
    /\ \A q \in Requests : UserPlanOK(request[q], builds)
    /\ \A e \in Executors : ExecPlanOK(exec[e], builds)

SettingsOK ==
    /\ clock \in 0 .. MaxTime
    /\ deleted \in [Workspaces -> BOOLEAN] /\ autostart \in [Workspaces -> BOOLEAN]
    /\ ttl \in [Workspaces -> {0, TTL}]

\* c may come after b: b is over, and an executor takes turns.
LinkOK(b, c) ==
    /\ Over(b)
    /\ MayInherit(b, c.trans, c.from)
    /\ c.reason = "autostop" => b.trans = "start"
    /\ c.reason = "autostart" => b.trans = "stop"

RowsOK(rows) ==
    /\ rows \in [Workspaces -> Seq(Build)]
    /\ \A w \in Workspaces :
        /\ Len(rows[w]) <= MaxBuilds
        /\ \A i \in 1 .. Len(rows[w]) : BuildOK(rows[w][i])
        /\ \A i \in 1 .. Len(rows[w]) - 1 : LinkOK(rows[w][i], rows[w][i + 1])
        /\ rows[w] # <<>> => rows[w][1].reason = "initiator"

HistoryInv == SettingsOK /\ RowsOK(builds) /\ PlansOK

\* What the constants are: a number of builds, a last instant, a duration.
Bounds == MaxBuilds \in Nat /\ MaxTime \in Nat /\ TTL \in Nat

----------------------------------------------------------------------------
(* One row changes, or one is added.                                       *)

\* A row that follows its old self leaves the history in order.
LEMMA RowChanges ==
  ASSUME Bounds, NEW rows, RowsOK(rows), NEW w \in Workspaces, NEW i \in 1 .. Len(rows[w]),
         NEW c, RowFollows(rows[w][i], c),
         NEW rows2, rows2 = [rows EXCEPT ![w][i] = c]
  PROVE  RowsOK(rows2)
<1>1. /\ rows \in [Workspaces -> Seq(Build)] /\ rows[w] \in Seq(Build) /\ c \in Build
      /\ rows[w] # <<>>
  BY DEF RowsOK, RowFollows, BuildOK
<1>2. rows2 = [rows EXCEPT ![w] = [rows[w] EXCEPT ![i] = c]]
  BY <1>1
<1>3. /\ rows2[w] \in Seq(Build) /\ Len(rows2[w]) = Len(rows[w])
      /\ rows2[w][i] = c
      /\ \A k \in 1 .. Len(rows[w]) : k # i => rows2[w][k] = rows[w][k]
      /\ \A v \in Workspaces : v # w => rows2[v] = rows[v]
      /\ rows2 \in [Workspaces -> Seq(Build)]
  BY <1>1, <1>2
<1>4. ASSUME NEW k \in 1 .. Len(rows[w])
      PROVE  BuildOK(rows2[w][k])
  BY <1>3 DEF RowsOK, RowFollows
<1>5. ASSUME NEW k \in 1 .. Len(rows[w]) - 1
      PROVE  LinkOK(rows2[w][k], rows2[w][k + 1])
  <2>1. LinkOK(rows[w][k], rows[w][k + 1])
    BY DEF RowsOK
  <2>2. Len(rows[w]) \in Nat
    BY <1>1
  <2>3. CASE k = i
    BY <2>1, <2>2, <2>3, <1>3 DEF LinkOK, RowFollows, MayInherit
  <2>4. CASE k + 1 = i
    BY <2>1, <2>2, <2>4, <1>3 DEF LinkOK, RowFollows, MayInherit
  <2>5. CASE k # i /\ k + 1 # i
    BY <2>1, <2>2, <2>5, <1>3
  <2> QED BY <2>3, <2>4, <2>5
<1>6. rows2[w][1].reason = "initiator"
  <2>1. rows[w][1].reason = "initiator" /\ 1 \in 1 .. Len(rows[w])
    BY <1>1 DEF RowsOK
  <2> QED BY <2>1, <1>3 DEF RowFollows
<1>7. Len(rows2[w]) <= MaxBuilds
  BY <1>3 DEF RowsOK
<1> QED BY <1>3, <1>4, <1>5, <1>6, <1>7 DEF RowsOK

\* Nor does it disturb what anybody has read.
LEMMA PlansSurviveChange ==
  ASSUME Bounds, NEW rows, RowsOK(rows), NEW w \in Workspaces, NEW i \in 1 .. Len(rows[w]),
         NEW c, RowFollows(rows[w][i], c),
         NEW rows2, rows2 = [rows EXCEPT ![w][i] = c]
  PROVE  PlansSurvive(rows, rows2)
<1> SUFFICES ASSUME NEW p
             PROVE  /\ UserPlanOK(p, rows) => UserPlanOK(p, rows2)
                    /\ ExecPlanOK(p, rows) => ExecPlanOK(p, rows2)
  BY DEF PlansSurvive
<1>1. /\ rows \in [Workspaces -> Seq(Build)] /\ rows[w] \in Seq(Build) /\ rows[w] # <<>>
      /\ Len(rows[w]) \in Nat
  BY DEF RowsOK
<1>2. /\ Len(rows2[w]) = Len(rows[w])
      /\ rows2[w][i] = c
      /\ \A k \in 1 .. Len(rows[w]) : k # i => rows2[w][k] = rows[w][k]
      /\ \A v \in Workspaces : v # w => rows2[v] = rows[v]
  BY <1>1
<1>3. ASSUME p.step = "build", BuildPlanOK(p, rows)
      PROVE  BuildPlanOK(p, rows2)
  <2>1. p.ws \in Workspaces
    BY <1>3 DEF BuildPlanOK, BuildPlans
  <2>2. CASE p.ws # w
    BY <2>1, <2>2, <1>2, <1>3 DEF BuildPlanOK, LatestOf
  <2>3. CASE p.ws = w /\ i # Len(rows[w])
    <3>1. LatestOf(rows2, w) = LatestOf(rows, w)
      BY <2>3, <1>1, <1>2 DEF LatestOf
    <3> QED BY <3>1, <2>3, <1>2, <1>3 DEF BuildPlanOK
  <2>4. CASE p.ws = w /\ i = Len(rows[w])
    <3>1. LatestOf(rows2, w) = c /\ LatestOf(rows, w) = rows[w][i]
      BY <2>4, <1>1, <1>2 DEF LatestOf
    <3> QED BY <3>1, <2>4, <1>2, <1>3 DEF BuildPlanOK, RowFollows, MayInherit
  <2> QED BY <2>2, <2>3, <2>4
<1>4. CancelPlanOK(p, rows) => CancelPlanOK(p, rows2)
  BY <1>2 DEF CancelPlanOK, CancelPlans
<1>5. ASSUME p.step = "extend", ExtendPlanOK(p, rows)
      PROVE  ExtendPlanOK(p, rows2)
  <2>1. p.ws \in Workspaces
    BY <1>5 DEF ExtendPlanOK, ExtendPlans
  <2>2. CASE p.ws # w
    BY <2>1, <2>2, <1>2, <1>5 DEF ExtendPlanOK
  <2>3. CASE p.ws = w /\ p.number # i
    BY <2>3, <1>2, <1>5 DEF ExtendPlanOK
  <2>4. CASE p.ws = w /\ p.number = i
    BY <2>4, <1>2, <1>5 DEF ExtendPlanOK, RowFollows
  <2> QED BY <2>2, <2>3, <2>4
<1>6. ASSUME p.step = "build", BuildPlanOK(p, rows), TurnOK(p, rows)
      PROVE  TurnOK(p, rows2)
  <2>1. p.ws \in Workspaces /\ p.number - 1 \in 1 .. Len(rows[p.ws])
    BY <1>6, <1>1 DEF BuildPlanOK, BuildPlans
  <2>2. rows2[p.ws][p.number - 1].trans = rows[p.ws][p.number - 1].trans
    BY <2>1, <1>2 DEF RowFollows
  <2> QED BY <2>2, <1>6 DEF TurnOK
<1>7. BuildPlanOK(p, rows) => BuildPlanOK(p, rows2)
  BY <1>3 DEF BuildPlanOK
<1>8. ExtendPlanOK(p, rows) => ExtendPlanOK(p, rows2)
  BY <1>5 DEF ExtendPlanOK
<1>9. BuildPlanOK(p, rows) /\ TurnOK(p, rows) => TurnOK(p, rows2)
  BY <1>6 DEF TurnOK
<1> QED BY <1>4, <1>7, <1>8, <1>9 DEF UserPlanOK, ExecPlanOK

\* A build that is added behind builds that are over leaves the history in order.
LEMMA RowAdded ==
  ASSUME Bounds, NEW rows, RowsOK(rows), NEW w \in Workspaces,
         NEW c, BuildOK(c), Len(rows[w]) < MaxBuilds,
         rows[w] = <<>> => c.reason = "initiator",
         rows[w] # <<>> => LinkOK(LatestOf(rows, w), c),
         NEW rows2, rows2 = [rows EXCEPT ![w] = Append(@, c)]
  PROVE  RowsOK(rows2)
<1>1. /\ rows \in [Workspaces -> Seq(Build)] /\ rows[w] \in Seq(Build) /\ c \in Build
      /\ Len(rows[w]) \in Nat /\ MaxBuilds \in Nat
  BY DEF RowsOK, BuildOK, Bounds
<1>2. /\ rows2[w] \in Seq(Build) /\ Len(rows2[w]) = Len(rows[w]) + 1
      /\ rows2[w][Len(rows[w]) + 1] = c
      /\ \A k \in 1 .. Len(rows[w]) : rows2[w][k] = rows[w][k]
      /\ \A v \in Workspaces : v # w => rows2[v] = rows[v]
      /\ rows2 \in [Workspaces -> Seq(Build)]
  BY <1>1
<1>3. ASSUME NEW k \in 1 .. Len(rows2[w])
      PROVE  BuildOK(rows2[w][k])
  BY <1>1, <1>2 DEF RowsOK
<1>4. ASSUME NEW k \in 1 .. Len(rows2[w]) - 1
      PROVE  LinkOK(rows2[w][k], rows2[w][k + 1])
  <2>1. CASE k = Len(rows[w])
    <3>1. rows[w] # <<>>
      BY <2>1, <1>1
    <3> QED BY <3>1, <2>1, <1>1, <1>2 DEF LatestOf
  <2>2. CASE k \in 1 .. Len(rows[w]) - 1
    BY <2>2, <1>1, <1>2 DEF RowsOK
  <2> QED BY <2>1, <2>2, <1>1, <1>2
<1>5. rows2[w][1].reason = "initiator"
  <2>1. CASE rows[w] = <<>>
    BY <2>1, <1>1, <1>2
  <2>2. CASE rows[w] # <<>>
    <3>1. 1 \in 1 .. Len(rows[w])
      BY <2>2, <1>1
    <3> QED BY <3>1, <2>2, <1>2 DEF RowsOK
  <2> QED BY <2>1, <2>2
<1>6. Len(rows2[w]) <= MaxBuilds
  BY <1>1, <1>2
<1> QED BY <1>2, <1>3, <1>4, <1>5, <1>6 DEF RowsOK

\* Whoever planned to add a build of that number finds it taken.
LEMMA PlansSurviveAddition ==
  ASSUME Bounds, NEW rows, RowsOK(rows), NEW w \in Workspaces, NEW c \in Build,
         NEW rows2, rows2 = [rows EXCEPT ![w] = Append(@, c)]
  PROVE  PlansSurvive(rows, rows2)
<1> SUFFICES ASSUME NEW p
             PROVE  /\ UserPlanOK(p, rows) => UserPlanOK(p, rows2)
                    /\ ExecPlanOK(p, rows) => ExecPlanOK(p, rows2)
  BY DEF PlansSurvive
<1>1. /\ rows \in [Workspaces -> Seq(Build)] /\ rows[w] \in Seq(Build) /\ Len(rows[w]) \in Nat
  BY DEF RowsOK
<1>2. /\ Len(rows2[w]) = Len(rows[w]) + 1
      /\ \A k \in 1 .. Len(rows[w]) : rows2[w][k] = rows[w][k]
      /\ \A v \in Workspaces : v # w => rows2[v] = rows[v]
  BY <1>1
<1>3. ASSUME p.step = "build", BuildPlanOK(p, rows)
      PROVE  BuildPlanOK(p, rows2)
  <2>1. p.ws \in Workspaces
    BY <1>3 DEF BuildPlanOK, BuildPlans
  <2>2. CASE p.ws # w
    BY <2>1, <2>2, <1>2, <1>3 DEF BuildPlanOK, LatestOf
  <2>3. CASE p.ws = w
    BY <2>3, <1>1, <1>2, <1>3 DEF BuildPlanOK
  <2> QED BY <2>2, <2>3
<1>4. CancelPlanOK(p, rows) => CancelPlanOK(p, rows2)
  BY <1>1, <1>2 DEF CancelPlanOK, CancelPlans
<1>5. ASSUME p.step = "extend", ExtendPlanOK(p, rows)
      PROVE  ExtendPlanOK(p, rows2)
  <2>1. p.ws \in Workspaces
    BY <1>5 DEF ExtendPlanOK, ExtendPlans
  <2>2. CASE p.ws # w
    BY <2>1, <2>2, <1>2, <1>5 DEF ExtendPlanOK
  <2>3. CASE p.ws = w
    BY <2>3, <1>1, <1>2, <1>5 DEF ExtendPlanOK
  <2> QED BY <2>2, <2>3
<1>6. ASSUME p.step = "build", BuildPlanOK(p, rows), TurnOK(p, rows)
      PROVE  TurnOK(p, rows2)
  <2>1. p.ws \in Workspaces /\ p.number - 1 \in 1 .. Len(rows[p.ws])
    BY <1>6, <1>1 DEF BuildPlanOK, BuildPlans
  <2>2. rows2[p.ws][p.number - 1] = rows[p.ws][p.number - 1]
    BY <2>1, <1>2
  <2> QED BY <2>2, <1>6 DEF TurnOK
<1>7. BuildPlanOK(p, rows) => BuildPlanOK(p, rows2)
  BY <1>3 DEF BuildPlanOK
<1>8. ExtendPlanOK(p, rows) => ExtendPlanOK(p, rows2)
  BY <1>5 DEF ExtendPlanOK
<1>9. BuildPlanOK(p, rows) /\ TurnOK(p, rows) => TurnOK(p, rows2)
  BY <1>6 DEF TurnOK
<1> QED BY <1>4, <1>7, <1>8, <1>9 DEF UserPlanOK, ExecPlanOK

\* A build that coderd does not call active is over.
LEMMA InactiveIsOver ==
  ASSUME NEW b, BuildOK(b), ~Active(b)
  PROVE  Over(b)
<1>1. /\ b.canceled \in BOOLEAN /\ b.completed \in BOOLEAN /\ b.failed \in BOOLEAN
      /\ b.started \in BOOLEAN /\ b.fresh \in BOOLEAN /\ b.working \in BOOLEAN /\ b.lapsed \in BOOLEAN
  BY DEF BuildOK, Build
<1> QED BY <1>1 DEF Active, Status, Over, Phase, BuildOK

\* So is one that an executor takes for completed.
LEMMA CompletedIsOver ==
  ASSUME NEW b, BuildOK(b), b.completed
  PROVE  Over(b)
  BY DEF BuildOK, Build, Over, Phase

----------------------------------------------------------------------------
(* The steps of a job.                                                     *)

\* What each handler, or the silence of a daemon, makes of a row follows the row.
LEMMA JobFollows ==
  ASSUME Bounds, HistoryInv, NEW w \in Workspaces, NEW i \in 1 .. Len(builds[w]), JobStep(w, i)
  PROVE  \E c : RowFollows(builds[w][i], c) /\ builds' = [builds EXCEPT ![w][i] = c]
<1> DEFINE b == builds[w][i]
<1>1. /\ BuildOK(b) /\ b \in Build /\ i \in States /\ MaxBuilds \in Nat
      /\ clock \in 0 .. MaxTime /\ ttl[w] \in {0, TTL} /\ TTL \in Nat /\ MaxTime \in Nat
  <2>1. builds[w] \in Seq(Build) /\ Len(builds[w]) \in Nat /\ Len(builds[w]) <= MaxBuilds
    BY DEF HistoryInv, RowsOK
  <2> QED BY <2>1 DEF HistoryInv, RowsOK, SettingsOK, Bounds, States, BuildOK
<1>2. CASE Acquire(w, i)
  <2> DEFINE c == [b EXCEPT !.started = TRUE, !.fresh = TRUE, !.working = TRUE]
  <2>1. ~b.started /\ ~b.canceled /\ ~b.completed
    BY <1>2 DEF Acquire
  <2>2. builds' = [builds EXCEPT ![w][i] = c]
    BY <1>2 DEF Acquire, Job
  <2>3. RowFollows(b, c)
    <3> HIDE DEF b
    <3> QED BY <1>1, <2>1 DEF RowFollows, BuildOK, Build, Over, Phase, EndedWell, States
  <2> QED BY <2>2, <2>3
<1>3. CASE Heartbeat(w, i)
  <2> DEFINE c == [b EXCEPT !.fresh = TRUE]
  <2>1. b.working /\ ~b.fresh
    BY <1>3 DEF Heartbeat
  <2>2. builds' = [builds EXCEPT ![w][i] = c]
    BY <1>3 DEF Heartbeat, Job
  <2>3. RowFollows(b, c)
    <3> HIDE DEF b
    <3> QED BY <1>1, <2>1 DEF RowFollows, BuildOK, Build, Over, Phase, EndedWell, States
  <2> QED BY <2>2, <2>3
<1>4. CASE Silence(w, i)
  <2> DEFINE c == [b EXCEPT !.fresh = FALSE, !.lapsed = @ \/ b.working]
  <2>1. b.started /\ ~b.completed /\ b.fresh
    BY <1>4 DEF Silence
  <2>2. builds' = [builds EXCEPT ![w][i] = c]
    BY <1>4 DEF Silence, Job
  <2>3. RowFollows(b, c)
    <3> HIDE DEF b
    <3> QED BY <1>1, <2>1 DEF RowFollows, BuildOK, Build, Over, Phase, EndedWell, States
  <2> QED BY <2>2, <2>3
<1>5. CASE DaemonDies(w, i)
  <2> DEFINE c == [b EXCEPT !.working = FALSE]
  <2>1. b.working
    BY <1>5 DEF DaemonDies
  <2>2. builds' = [builds EXCEPT ![w][i] = c]
    BY <1>5 DEF DaemonDies, Job
  <2>3. RowFollows(b, c)
    <3> HIDE DEF b
    <3> QED BY <1>1, <2>1 DEF RowFollows, BuildOK, Build, Over, Phase, EndedWell, States
  <2> QED BY <2>2, <2>3
<1>6. CASE CompleteJob(w, i)
  <2> DEFINE d == IF ttl[w] > 0 THEN clock + ttl[w] ELSE 0
             c == [b EXCEPT !.completed = TRUE, !.failed = FALSE, !.working = FALSE,
                            !.state = i, !.deadline = d]
  <2>1. b.working
    BY <1>6 DEF CompleteJob
  <2>2. builds' = [builds EXCEPT ![w][i] = c]
    BY <1>6 DEF CompleteJob, Job
  <2>3. d \in 0 .. MaxTime + TTL
    BY <1>1
  <2>4. RowFollows(b, c)
    <3> HIDE DEF b, d
    <3>1. c \in Build
      BY <1>1, <2>3 DEF Build, States
    <3> QED BY <1>1, <2>1, <3>1 DEF RowFollows, BuildOK, Over, Phase, EndedWell
  <2> QED BY <2>2, <2>4
<1>7. CASE FailJob(w, i)
  <2>1. PICK s \in BOOLEAN :
            builds' = [builds EXCEPT ![w][i] =
                [b EXCEPT !.completed = TRUE, !.failed = TRUE, !.working = FALSE, !.saving = s]]
    BY <1>7, Zenon DEF FailJob, Job
  <2> DEFINE c == [b EXCEPT !.completed = TRUE, !.failed = TRUE, !.working = FALSE, !.saving = s]
  <2>2. b.working /\ ~b.completed
    BY <1>7 DEF FailJob
  <2>3. RowFollows(b, c)
    <3> HIDE DEF b
    <3> QED BY <1>1, <2>2 DEF RowFollows, BuildOK, Build, Over, Phase, EndedWell
  <2> QED BY <2>1, <2>3
<1>8. CASE FailSave(w, i)
  <2> DEFINE c == [b EXCEPT !.saving = FALSE, !.state = i, !.deadline = 0]
  <2>1. b.saving
    BY <1>8 DEF FailSave
  <2>2. builds' = [builds EXCEPT ![w][i] = c]
    BY <1>8 DEF FailSave, Job
  <2>3. RowFollows(b, c)
    <3> HIDE DEF b
    <3>1. 0 \in 0 .. MaxTime + TTL
      BY <1>1
    <3>2. c \in Build
      BY <1>1, <3>1 DEF Build, States
    <3> QED BY <1>1, <2>1, <3>2 DEF RowFollows, BuildOK, Over, Phase, EndedWell
  <2> QED BY <2>2, <2>3
<1>9. CASE FailLost(w, i)
  <2> DEFINE c == [b EXCEPT !.saving = FALSE]
  <2>1. b.saving
    BY <1>9 DEF FailLost
  <2>2. builds' = [builds EXCEPT ![w][i] = c]
    BY <1>9 DEF FailLost, Job
  <2>3. RowFollows(b, c)
    <3> HIDE DEF b
    <3> QED BY <1>1, <2>1 DEF RowFollows, BuildOK, Build, Over, Phase, EndedWell, States
  <2> QED BY <2>2, <2>3
<1>10. CASE FailRefused(w, i)
  <2> DEFINE c == [b EXCEPT !.working = FALSE]
  <2>1. b.working /\ b.completed
    BY <1>10 DEF FailRefused
  <2>2. builds' = [builds EXCEPT ![w][i] = c]
    BY <1>10 DEF FailRefused, Job
  <2>3. RowFollows(b, c)
    <3> HIDE DEF b
    <3> QED BY <1>1, <2>1, Zenon DEF RowFollows, BuildOK, Build, Over, Phase, EndedWell, States
  <2> QED BY <2>2, <2>3
<1> QED BY <1>2, <1>3, <1>4, <1>5, <1>6, <1>7, <1>8, <1>9, <1>10 DEF JobStep

\* CancelWrite and ExtendWrite write back a row that was read earlier.
LEMMA CancelFollows ==
  ASSUME Bounds, HistoryInv, NEW q \in Requests, CancelWrite(q)
  PROVE  \E w \in Workspaces : \E i \in 1 .. Len(builds[w]) : \E c :
            RowFollows(builds[w][i], c) /\ builds' = [builds EXCEPT ![w][i] = c]
<1> DEFINE p == request[q]
           b == builds[p.ws][p.number]
           c == [b EXCEPT !.canceled = TRUE, !.completed = ~p.running,
                          !.lapsed = @ \/ (b.working /\ ~p.running)]
<1>1. p.ws \in Workspaces /\ p.number \in 1 .. Len(builds[p.ws]) /\ p.running \in BOOLEAN
  BY DEF HistoryInv, PlansOK, UserPlanOK, CancelPlanOK, CancelPlans, CancelWrite
<1>2. BuildOK(b)
  BY <1>1 DEF HistoryInv, RowsOK
<1>3. builds' = [builds EXCEPT ![p.ws][p.number] = c]
  BY DEF CancelWrite
<1>4. RowFollows(b, c)
  <2> HIDE DEF b, p
  <2> QED BY <1>1, <1>2, ZenonT(30) DEF RowFollows, BuildOK, Build, Over, Phase, EndedWell
<1> QED BY <1>1, <1>3, <1>4, Zenon

\* putExtendWorkspace writes a state back that is the row's own if the row is settled.
LEMMA ExtendFollows ==
  ASSUME Bounds, HistoryInv, NEW q \in Requests, ExtendWrite(q)
  PROVE  \E w \in Workspaces : \E i \in 1 .. Len(builds[w]) : \E c :
            RowFollows(builds[w][i], c) /\ builds' = [builds EXCEPT ![w][i] = c]
<1> DEFINE p == request[q]
           b == builds[p.ws][p.number]
           c == [b EXCEPT !.state = p.state, !.deadline = p.deadline]
<1>1. /\ p.ws \in Workspaces /\ p.number \in 1 .. Len(builds[p.ws])
      /\ p.state \in States /\ p.deadline \in 1 .. MaxTime
      /\ Over(b) /\ (EndedWell(b) => p.state = b.state)
  BY DEF HistoryInv, PlansOK, UserPlanOK, ExtendPlanOK, ExtendPlans, ExtendWrite
<1>2. BuildOK(b)
  BY <1>1 DEF HistoryInv, RowsOK
<1>3. builds' = [builds EXCEPT ![p.ws][p.number] = c]
  BY DEF ExtendWrite
<1>4. p.deadline \in 0 .. MaxTime + TTL
  BY <1>1 DEF Bounds
<1>5. RowFollows(b, c)
  <2> HIDE DEF b, p
  <2>1. c \in Build
    BY <1>1, <1>2, <1>4 DEF BuildOK, Build, States
  <2> QED BY <1>1, <1>2, <2>1 DEF RowFollows, BuildOK, Over, Phase, EndedWell
<1> QED BY <1>1, <1>3, <1>5

\* A plan whose number is still free makes a build that may come next.
LEMMA InsertLinks ==
  ASSUME Bounds, HistoryInv, NEW p, NEW r \in Reasons,
         p.step = "build", BuildPlanOK(p, builds), Insertable(p), Len(builds[p.ws]) < MaxBuilds,
         r = "autostop" => p.trans = "stop" /\ TurnOK(p, builds),
         r = "autostart" => p.trans = "start" /\ TurnOK(p, builds),
         InsertBuild(p, r)
  PROVE  \E w \in Workspaces : \E c :
            /\ BuildOK(c) /\ Len(builds[w]) < MaxBuilds /\ builds[w] # <<>>
            /\ LinkOK(LatestOf(builds, w), c)
            /\ ~c.started /\ ~c.canceled /\ ~c.completed /\ ~c.working /\ ~c.lapsed
            /\ builds' = [builds EXCEPT ![w] = Append(@, c)]
<1> DEFINE c == NewBuild(p.trans, r, p.state)
<1>1. /\ p.ws \in Workspaces /\ p.trans \in Transitions /\ p.state \in States
      /\ p.number = Len(builds[p.ws]) + 1 /\ p.number \in 2 .. Len(builds[p.ws]) + 1
      /\ Over(LatestOf(builds, p.ws))
      /\ MayInherit(LatestOf(builds, p.ws), p.trans, p.state)
  BY DEF BuildPlanOK, BuildPlans, Insertable
<1>2. builds[p.ws] \in Seq(Build) /\ Len(builds[p.ws]) \in Nat
  BY <1>1 DEF HistoryInv, RowsOK
<1>3. builds[p.ws] # <<>> /\ p.number - 1 = Len(builds[p.ws])
  BY <1>1, <1>2
<1>4. BuildOK(c)
  BY <1>1 DEF NewBuild, BuildOK, Build, HistoryInv, SettingsOK, Bounds, States
<1>5. LinkOK(LatestOf(builds, p.ws), c)
  BY <1>1, <1>3 DEF LinkOK, NewBuild, TurnOK, LatestOf
<1>6. ~c.started /\ ~c.canceled /\ ~c.completed /\ ~c.working /\ ~c.lapsed
  BY DEF NewBuild
<1>7. builds' = [builds EXCEPT ![p.ws] = Append(@, c)]
  BY DEF InsertBuild
<1> HIDE DEF c
<1> QED BY <1>1, <1>3, <1>4, <1>5, <1>6, <1>7

----------------------------------------------------------------------------
(* Every step changes no row, one row, or adds one.                        *)

RowStep ==
    \E w \in Workspaces : \E i \in 1 .. Len(builds[w]) : \E c :
        RowFollows(builds[w][i], c) /\ builds' = [builds EXCEPT ![w][i] = c]

AddStep ==
    \E w \in Workspaces : \E c :
        /\ BuildOK(c) /\ Len(builds[w]) < MaxBuilds
        /\ builds[w] = <<>> => c.reason = "initiator"
        /\ builds[w] # <<>> => LinkOK(LatestOf(builds, w), c)
        /\ Phase(c) = "waiting"
        /\ builds' = [builds EXCEPT ![w] = Append(@, c)]

\* Every step is one of the three kinds.
LEMMA StepShape ==
  ASSUME Bounds, HistoryInv, [Next]_vars
  PROVE  UNCHANGED builds \/ RowStep \/ AddStep
<1>1. ASSUME NEW w \in Workspaces, CreateWorkspace(w)
      PROVE  AddStep
  <2> DEFINE c == NewBuild("start", "initiator", 0)
  <2>1. BuildOK(c)
    BY DEF NewBuild, BuildOK, Build, HistoryInv, SettingsOK, Bounds, Transitions, Reasons
  <2>2. Phase(c) = "waiting" /\ c.reason = "initiator"
    BY DEF NewBuild, Phase
  <2>3. builds[w] = <<>> /\ Len(builds[w]) < MaxBuilds /\ builds \in [Workspaces -> Seq(Build)]
    BY <1>1 DEF CreateWorkspace, HistoryInv, RowsOK, Bounds
  <2> HIDE DEF c
  <2>4. <<c>> = Append(<<>>, c)
    OBVIOUS
  <2>5. builds' = [builds EXCEPT ![w] = Append(@, c)]
    BY <1>1, <2>3, <2>4 DEF CreateWorkspace, c
  <2> QED BY <2>1, <2>2, <2>3, <2>5 DEF AddStep
<1>2. ASSUME NEW p, NEW r \in Reasons,
             p.step = "build", BuildPlanOK(p, builds), Insertable(p), Len(builds[p.ws]) < MaxBuilds,
             r = "autostop" => p.trans = "stop" /\ TurnOK(p, builds),
             r = "autostart" => p.trans = "start" /\ TurnOK(p, builds),
             InsertBuild(p, r)
      PROVE  AddStep
  <2>1. PICK w \in Workspaces : \E c :
            /\ BuildOK(c) /\ Len(builds[w]) < MaxBuilds /\ builds[w] # <<>>
            /\ LinkOK(LatestOf(builds, w), c)
            /\ ~c.started /\ ~c.canceled /\ ~c.completed /\ ~c.working /\ ~c.lapsed
            /\ builds' = [builds EXCEPT ![w] = Append(@, c)]
    BY <1>2, InsertLinks
  <2>2. PICK c :
            /\ BuildOK(c) /\ Len(builds[w]) < MaxBuilds /\ builds[w] # <<>>
            /\ LinkOK(LatestOf(builds, w), c)
            /\ ~c.started /\ ~c.canceled /\ ~c.completed /\ ~c.working /\ ~c.lapsed
            /\ builds' = [builds EXCEPT ![w] = Append(@, c)]
    BY <2>1
  <2>3. Phase(c) = "waiting"
    BY <2>2 DEF Phase
  <2> QED BY <2>2, <2>3 DEF AddStep
<1>3. ASSUME NEW q \in Requests, PostInsert(q)
      PROVE  AddStep
  <2>1. BuildPlanOK(request[q], builds) /\ "initiator" \in Reasons
    BY DEF HistoryInv, PlansOK, UserPlanOK, Reasons
  <2> QED BY <2>1, <1>2, <1>3 DEF PostInsert
<1>4. ASSUME NEW e \in Executors, ExecInsert(e)
      PROVE  AddStep
  <2> DEFINE r == IF exec[e].trans = "start" THEN "autostart" ELSE "autostop"
  <2>1. BuildPlanOK(exec[e], builds) /\ TurnOK(exec[e], builds) /\ exec[e].step = "build"
    BY <1>4 DEF HistoryInv, PlansOK, ExecPlanOK, ExecInsert
  <2>2. /\ r \in Reasons
        /\ r = "autostop" => exec[e].trans = "stop"
        /\ r = "autostart" => exec[e].trans = "start"
    BY <2>1 DEF Reasons, TurnOK
  <2>3. InsertBuild(exec[e], r) /\ Insertable(exec[e]) /\ Len(builds[exec[e].ws]) < MaxBuilds
    BY <1>4 DEF ExecInsert
  <2> HIDE DEF r
  <2> QED BY <2>1, <2>2, <2>3, <1>2
<1>5. ASSUME NEW q \in Requests, CancelWrite(q)
      PROVE  RowStep
  BY <1>5, CancelFollows DEF RowStep
<1>6. ASSUME NEW q \in Requests, ExtendWrite(q)
      PROVE  RowStep
  BY <1>6, ExtendFollows DEF RowStep
<1>7. ASSUME NEW w \in Workspaces, NEW i \in 1 .. Len(builds[w]), JobStep(w, i)
      PROVE  RowStep
  BY <1>7, JobFollows DEF RowStep
<1>8. CASE UNCHANGED vars
  BY <1>8 DEF vars
<1>9. CASE UserStep
  BY <1>9, <1>1, <1>3, <1>5, <1>6
     DEF UserStep, PostConflict, PutTTL, PutAutostart, PostRead, CancelRead, ExtendRead
<1>10. ASSUME NEW e \in Executors, ExecutorStep(e)
       PROVE  UNCHANGED builds \/ AddStep
  BY <1>10, <1>4 DEF ExecutorStep, ExecConflict, ExecRead
<1>11. CASE Tick
  BY <1>11 DEF Tick
<1> QED BY <1>7, <1>8, <1>9, <1>10, <1>11 DEF Next

\* Whatever it is, the history stays in order and the plans stay good.
LEMMA RowsNext ==
  ASSUME Bounds, HistoryInv, [Next]_vars
  PROVE  RowsOK(builds') /\ PlansSurvive(builds, builds')
<1>1. RowsOK(builds)
  BY DEF HistoryInv
<1>2. CASE UNCHANGED builds
  BY <1>1, <1>2 DEF PlansSurvive
<1>3. CASE RowStep
  <2>1. PICK w \in Workspaces : \E i \in 1 .. Len(builds[w]) : \E c :
            RowFollows(builds[w][i], c) /\ builds' = [builds EXCEPT ![w][i] = c]
    BY <1>3 DEF RowStep
  <2>2. PICK i \in 1 .. Len(builds[w]) : \E c :
            RowFollows(builds[w][i], c) /\ builds' = [builds EXCEPT ![w][i] = c]
    BY <2>1
  <2>3. PICK c : RowFollows(builds[w][i], c) /\ builds' = [builds EXCEPT ![w][i] = c]
    BY <2>2
  <2>4. RowsOK(builds')
    BY <1>1, <2>3, RowChanges
  <2>5. PlansSurvive(builds, builds')
    BY <1>1, <2>3, PlansSurviveChange
  <2> QED BY <2>4, <2>5
<1>4. CASE AddStep
  <2>1. PICK w \in Workspaces : \E c :
            /\ BuildOK(c) /\ Len(builds[w]) < MaxBuilds
            /\ builds[w] = <<>> => c.reason = "initiator"
            /\ builds[w] # <<>> => LinkOK(LatestOf(builds, w), c)
            /\ builds' = [builds EXCEPT ![w] = Append(@, c)]
    BY <1>4 DEF AddStep
  <2>2. PICK c :
            /\ BuildOK(c) /\ Len(builds[w]) < MaxBuilds
            /\ builds[w] = <<>> => c.reason = "initiator"
            /\ builds[w] # <<>> => LinkOK(LatestOf(builds, w), c)
            /\ builds' = [builds EXCEPT ![w] = Append(@, c)]
    BY <2>1
  <2>3. RowsOK(builds')
    BY <1>1, <2>2, RowAdded
  <2>4. c \in Build
    BY <2>2 DEF BuildOK
  <2>5. PlansSurvive(builds, builds')
    BY <1>1, <2>2, <2>4, PlansSurviveAddition
  <2> QED BY <2>3, <2>5
<1> QED BY <1>2, <1>3, <1>4, StepShape

----------------------------------------------------------------------------
(* What requests and executors read is a good plan.                        *)

\* Requests: what one reads is a good plan, and a plan that was good stays so.
LEMMA RequestsNext ==
  ASSUME Bounds, HistoryInv, [Next]_vars, PlansSurvive(builds, builds')
  PROVE  request' \in [Requests -> Plans] /\ \A q \in Requests : UserPlanOK(request'[q], builds')
<1> DEFINE Good == request' \in [Requests -> Plans] /\ \A q \in Requests : UserPlanOK(request'[q], builds')
<1>1. request \in [Requests -> Plans] /\ \A q \in Requests : UserPlanOK(request[q], builds)
  BY DEF HistoryInv, PlansOK
<1>2. ASSUME NEW q \in Requests, NEW p \in Plans, UserPlanOK(p, builds'),
             request' = [request EXCEPT ![q] = p]
      PROVE  Good
  BY <1>1, <1>2 DEF PlansSurvive
<1>3. CASE UNCHANGED request
  BY <1>1, <1>3 DEF PlansSurvive
<1>4. ASSUME NEW q \in Requests, request' = [request EXCEPT ![q] = Answered]
      PROVE  Good
  <2>1. Answered \in Plans /\ UserPlanOK(Answered, builds')
    BY DEF Plans, Answered, UserPlanOK, BuildPlanOK, CancelPlanOK, ExtendPlanOK
  <2> QED BY <2>1, <1>4, <1>2
<1>5. ASSUME NEW q \in Requests, NEW w \in Workspaces, NEW t \in Transitions, PostRead(q, w, t)
      PROVE  Good
  <2>1. PICK s \in {Latest(w).state} \union (IF t = "delete" THEN {0} ELSE {}) :
            request' = [request EXCEPT ![q] =
                [step |-> "build", ws |-> w, trans |-> t, number |-> Len(builds[w]) + 1, state |-> s]]
    BY <1>5 DEF PostRead
  <2> DEFINE p == [step |-> "build", ws |-> w, trans |-> t, number |-> Len(builds[w]) + 1, state |-> s]
  <2>2. /\ builds[w] \in Seq(Build) /\ builds[w] # <<>> /\ Len(builds[w]) \in Nat
        /\ ~Active(Latest(w)) /\ UNCHANGED builds
    BY <1>5 DEF PostRead, HistoryInv, RowsOK
  <2>3. Len(builds[w]) \in 1 .. Len(builds[w])
    BY <2>2
  <2>4. BuildOK(Latest(w))
    BY <2>3 DEF Latest, HistoryInv, RowsOK
  <2>5. Over(Latest(w))
    BY <2>2, <2>4, InactiveIsOver
  <2>6. s \in States /\ MayInherit(Latest(w), t, s)
    BY <2>1, <2>4 DEF BuildOK, Build, States, MayInherit, Bounds
  <2>7. p \in BuildPlans /\ p.step = "build"
    BY <2>2, <2>6 DEF BuildPlans
  <2>8. UserPlanOK(p, builds)
    <3>1. BuildPlanOK(p, builds)
      BY <2>2, <2>3, <2>5, <2>6, <2>7 DEF BuildPlanOK, LatestOf, Latest
    <3> QED BY <3>1 DEF UserPlanOK, CancelPlanOK, ExtendPlanOK
  <2>9. p \in Plans /\ UserPlanOK(p, builds')
    BY <2>2, <2>7, <2>8 DEF Plans
  <2> HIDE DEF p
  <2> QED BY <2>1, <2>9, <1>2 DEF p
<1>6. ASSUME NEW q \in Requests, NEW w \in Workspaces, NEW i \in 1 .. Len(builds[w]), CancelRead(q, w, i)
      PROVE  Good
  <2> DEFINE p == [step |-> "cancel", ws |-> w, number |-> i, running |-> builds[w][i].started]
  <2>1. request' = [request EXCEPT ![q] = p] /\ UNCHANGED builds
    BY <1>6 DEF CancelRead
  <2>2. builds[w][i] \in Build /\ i \in Nat
    BY DEF HistoryInv, RowsOK, BuildOK
  <2>3. p \in CancelPlans
    BY <2>2 DEF CancelPlans, Build
  <2>4. UserPlanOK(p, builds')
    BY <2>1, <2>3 DEF UserPlanOK, BuildPlanOK, CancelPlanOK, ExtendPlanOK
  <2>5. p \in Plans
    BY <2>3 DEF Plans
  <2> HIDE DEF p
  <2> QED BY <2>1, <2>4, <2>5, <1>2
<1>7. ASSUME NEW q \in Requests, NEW w \in Workspaces, NEW d \in 1 .. MaxTime, ExtendRead(q, w, d)
      PROVE  Good
  <2> DEFINE p == [step |-> "extend", ws |-> w, number |-> Len(builds[w]),
                   state |-> Latest(w).state, deadline |-> d]
  <2>1. request' = [request EXCEPT ![q] = p] /\ UNCHANGED builds
    BY <1>7 DEF ExtendRead
  <2>2. /\ builds[w] \in Seq(Build) /\ builds[w] # <<>> /\ Len(builds[w]) \in Nat
        /\ Latest(w).completed
    BY <1>7 DEF ExtendRead, HistoryInv, RowsOK
  <2>3. Len(builds[w]) \in 1 .. Len(builds[w])
    BY <2>2
  <2>4. BuildOK(Latest(w))
    BY <2>3 DEF Latest, HistoryInv, RowsOK
  <2>5. Over(Latest(w)) /\ Latest(w).state \in States
    BY <2>2, <2>4, CompletedIsOver DEF BuildOK, Build, States
  <2>6. p \in ExtendPlans
    BY <2>2, <2>5 DEF ExtendPlans
  <2>7. UserPlanOK(p, builds')
    BY <2>1, <2>3, <2>5, <2>6 DEF UserPlanOK, BuildPlanOK, CancelPlanOK, ExtendPlanOK, Latest
  <2>8. p \in Plans
    BY <2>6 DEF Plans
  <2> HIDE DEF p
  <2> QED BY <2>1, <2>7, <2>8, <1>2
<1>8. CASE UNCHANGED vars
  BY <1>3, <1>8 DEF vars
<1>9. CASE UserStep
  BY <1>9, <1>3, <1>4, <1>5, <1>6, <1>7, Zenon
     DEF UserStep, CreateWorkspace, PostInsert, PostConflict, CancelWrite, ExtendWrite, PutTTL, PutAutostart
<1>10. ASSUME NEW e \in Executors, ExecutorStep(e)
       PROVE  UNCHANGED request
  BY <1>10 DEF ExecutorStep, ExecInsert, ExecConflict, ExecRead
<1>11. ASSUME NEW w \in Workspaces, NEW i \in 1 .. Len(builds[w]), JobStep(w, i)
       PROVE  UNCHANGED request
  BY <1>11, Zenon DEF JobStep, Acquire, Heartbeat, Silence, DaemonDies, CompleteJob, FailJob, FailSave, FailLost,
               FailRefused, Job
<1>12. CASE Tick
  BY <1>3, <1>12 DEF Tick
<1> QED BY <1>3, <1>8, <1>9, <1>10, <1>11, <1>12 DEF Next

\* Executors: the same, and the transition that is due is the other one.
LEMMA ExecutorsNext ==
  ASSUME Bounds, HistoryInv, [Next]_vars, PlansSurvive(builds, builds')
  PROVE  exec' \in [Executors -> {NoPlan} \union BuildPlans] /\ \A e \in Executors : ExecPlanOK(exec'[e], builds')
<1> DEFINE Good == exec' \in [Executors -> {NoPlan} \union BuildPlans] /\ \A e \in Executors : ExecPlanOK(exec'[e], builds')
<1>1. exec \in [Executors -> {NoPlan} \union BuildPlans] /\ \A e \in Executors : ExecPlanOK(exec[e], builds)
  BY DEF HistoryInv, PlansOK
<1>2. ASSUME NEW e \in Executors, NEW p \in {NoPlan} \union BuildPlans, ExecPlanOK(p, builds'),
             exec' = [exec EXCEPT ![e] = p]
      PROVE  Good
  BY <1>1, <1>2 DEF PlansSurvive
<1>3. CASE UNCHANGED exec
  BY <1>1, <1>3 DEF PlansSurvive
<1>4. ASSUME NEW e \in Executors, exec' = [exec EXCEPT ![e] = NoPlan]
      PROVE  Good
  <2>1. ExecPlanOK(NoPlan, builds')
    BY DEF NoPlan, ExecPlanOK, BuildPlanOK, TurnOK
  <2> QED BY <2>1, <1>4, <1>2
<1>5. ASSUME NEW e \in Executors, NEW w \in Workspaces, ExecRead(e, w)
      PROVE  Good
  <2> DEFINE p == [step |-> "build", ws |-> w, trans |-> NextTransition(w),
                   number |-> Len(builds[w]) + 1, state |-> Latest(w).state]
  <2>1. exec' = [exec EXCEPT ![e] = p] /\ UNCHANGED builds
    BY <1>5 DEF ExecRead
  <2>2. /\ builds[w] \in Seq(Build) /\ builds[w] # <<>> /\ Len(builds[w]) \in Nat
        /\ NextTransition(w) # "none"
    BY <1>5 DEF ExecRead, HistoryInv, RowsOK
  <2>3. Len(builds[w]) \in 1 .. Len(builds[w])
    BY <2>2
  <2>4. BuildOK(Latest(w))
    BY <2>3 DEF Latest, HistoryInv, RowsOK
  <2>5. /\ Latest(w).completed
        /\ \/ NextTransition(w) = "stop" /\ Latest(w).trans = "start"
           \/ NextTransition(w) = "start" /\ Latest(w).trans = "stop"
    BY <2>2 DEF NextTransition
  <2>6. Over(Latest(w)) /\ Latest(w).state \in States
    BY <2>4, <2>5, CompletedIsOver DEF BuildOK, Build, States
  <2>7. p \in BuildPlans
    BY <2>2, <2>5, <2>6 DEF BuildPlans, Transitions
  <2>8. BuildPlanOK(p, builds)
    BY <2>2, <2>3, <2>6, <2>7 DEF BuildPlanOK, LatestOf, Latest, MayInherit
  <2>9. TurnOK(p, builds)
    BY <2>2, <2>5 DEF TurnOK, Latest
  <2>10. ExecPlanOK(p, builds')
    BY <2>1, <2>8, <2>9 DEF ExecPlanOK
  <2> HIDE DEF p
  <2> QED BY <2>1, <2>7, <2>10, <1>2
<1>6. CASE UNCHANGED vars
  BY <1>3, <1>6 DEF vars
<1>7. CASE UserStep
  <2>1. UNCHANGED exec
    BY <1>7, ZenonT(60) DEF UserStep, CreateWorkspace, PostRead, PostInsert, PostConflict, CancelRead, CancelWrite,
                ExtendRead, ExtendWrite, PutTTL, PutAutostart
  <2> QED BY <2>1, <1>3
<1>8. ASSUME NEW e \in Executors, ExecutorStep(e)
      PROVE  Good
  BY <1>8, <1>4, <1>5 DEF ExecutorStep, ExecInsert, ExecConflict
<1>9. ASSUME NEW w \in Workspaces, NEW i \in 1 .. Len(builds[w]), JobStep(w, i)
      PROVE  UNCHANGED exec
  BY <1>9, Zenon DEF JobStep, Acquire, Heartbeat, Silence, DaemonDies, CompleteJob, FailJob, FailSave, FailLost,
              FailRefused, Job
<1>10. CASE Tick
  BY <1>3, <1>10 DEF Tick
<1> QED BY <1>3, <1>6, <1>7, <1>8, <1>9, <1>10 DEF Next

\* The clock and the columns of a workspace keep their types.
LEMMA SettingsNext ==
  ASSUME Bounds, HistoryInv, [Next]_vars
  PROVE  SettingsOK'
<1> USE DEF HistoryInv, SettingsOK
<1>1. CASE UNCHANGED vars
  BY <1>1 DEF vars, settings
<1>2. CASE UserStep
  BY <1>2, ZenonT(60) DEF UserStep, CreateWorkspace, PostRead, PostInsert, PostConflict, CancelRead, CancelWrite,
              ExtendRead, ExtendWrite, PutTTL, PutAutostart, settings
<1>3. ASSUME NEW e \in Executors, ExecutorStep(e)
      PROVE  UNCHANGED <<clock, settings>>
  BY <1>3 DEF ExecutorStep, ExecInsert, ExecConflict, ExecRead
<1>4. ASSUME NEW w \in Workspaces, NEW i \in 1 .. Len(builds[w]), JobStep(w, i)
      PROVE  SettingsOK'
  <2>1. UNCHANGED <<clock, autostart, ttl>>
    BY <1>4, Zenon DEF JobStep, Acquire, Heartbeat, Silence, DaemonDies, CompleteJob, FailJob, FailSave, FailLost,
                FailRefused, Job
  <2>2. CASE CompleteJob(w, i)
    <3>1. deleted' \in [Workspaces -> BOOLEAN]
      BY <2>2 DEF CompleteJob
    <3> QED BY <2>1, <3>1
  <2>3. CASE UNCHANGED deleted
    BY <2>1, <2>3
  <2> QED BY <1>4, <2>2, <2>3, Zenon DEF JobStep, Acquire, Heartbeat, Silence, DaemonDies, FailJob, FailSave,
                                  FailLost, FailRefused
<1>5. CASE Tick
  BY <1>5 DEF Tick, settings, Bounds
<1> QED BY <1>1, <1>2, <1>3, <1>4, <1>5 DEF Next, settings

\* Initially there are no rows and no plans.
LEMMA InitHistoryInv ==
  ASSUME Bounds, Init
  PROVE  HistoryInv
<1>1. SettingsOK
  BY DEF Init, SettingsOK, Bounds
<1>2. RowsOK(builds)
  BY DEF Init, RowsOK, Bounds
<1>3. PlansOK
  BY DEF Init, PlansOK, Plans, NoPlan, UserPlanOK, ExecPlanOK, BuildPlanOK, CancelPlanOK, ExtendPlanOK, TurnOK
<1> QED BY <1>1, <1>2, <1>3 DEF HistoryInv

\* The inductive invariant: the rows are in order, and whoever has read them has a plan
\* that is still good or will be refused by the constraint on build numbers.
THEOREM HistoryInvariant ==
  ASSUME Bounds
  PROVE  Spec => []HistoryInv
<1>1. Init => HistoryInv
  BY InitHistoryInv
<1>2. HistoryInv /\ [Next]_vars => HistoryInv'
  <2> SUFFICES ASSUME HistoryInv, [Next]_vars
               PROVE  HistoryInv'
    OBVIOUS
  <2>1. RowsOK(builds') /\ PlansSurvive(builds, builds')
    BY RowsNext
  <2>2. /\ request' \in [Requests -> Plans]
        /\ \A q \in Requests : UserPlanOK(request'[q], builds')
    BY <2>1, RequestsNext
  <2>3. /\ exec' \in [Executors -> {NoPlan} \union BuildPlans]
        /\ \A e \in Executors : ExecPlanOK(exec'[e], builds')
    BY <2>1, ExecutorsNext
  <2>4. PlansOK'
    BY <2>2, <2>3 DEF PlansOK
  <2>5. RowsOK(builds)'
    BY <2>1
  <2>6. SettingsOK'
    BY SettingsNext
  <2> QED BY <2>4, <2>5, <2>6 DEF HistoryInv
<1> QED BY <1>1, <1>2, PTL DEF Spec

\* Every variable of WorkspaceBuilds keeps its type.
THEOREM BuildsTypeCorrect ==
  ASSUME Bounds
  PROVE  Spec => []TypeOK
<1>1. HistoryInv => TypeOK
  <2> SUFFICES ASSUME HistoryInv
               PROVE  TypeOK
    OBVIOUS
  <2>1. \A w \in Workspaces :
            /\ Len(builds[w]) <= MaxBuilds
            /\ \A i \in 1 .. Len(builds[w]) : builds[w][i] \in Build
    BY DEF HistoryInv, RowsOK, BuildOK
  <2>2. \A p \in Plans : p.step \in {"idle", "build", "cancel", "extend", "done"}
    BY DEF Plans, NoPlan, Answered, BuildPlans, CancelPlans, ExtendPlans
  <2>3. /\ \A q \in Requests : request[q].step \in {"idle", "build", "cancel", "extend", "done"}
        /\ \A e \in Executors : exec[e].step \in {"idle", "build", "cancel", "extend", "done"}
    BY <2>2 DEF HistoryInv, PlansOK, Plans
  <2> QED BY <2>1, <2>3 DEF HistoryInv, SettingsOK, TypeOK
<1> QED BY <1>1, HistoryInvariant, PTL

\* Two daemons work on one workspace only if the older job was given up
\* (postWorkspaceBuilds' check that the prior build is not active, the 30 seconds of
\* ConvertProvisionerJobStatus and the constraint on build numbers taken together).
THEOREM OneWorker ==
  ASSUME Bounds
  PROVE  Spec => []NoConcurrentWorkers
<1>1. HistoryInv => NoConcurrentWorkers
  <2> SUFFICES ASSUME HistoryInv, NEW w \in Workspaces, NEW i \in 1 .. Len(builds[w]), NEW k \in 1 .. Len(builds[w]),
                      i < k, builds[w][i].working, builds[w][k].working
               PROVE  builds[w][i].lapsed
    BY DEF NoConcurrentWorkers
  <2>1. builds[w] \in Seq(Build) /\ Len(builds[w]) \in Nat
    BY DEF HistoryInv, RowsOK
  <2>2. i \in 1 .. Len(builds[w]) - 1
    BY <2>1
  <2>3. Over(builds[w][i]) /\ builds[w][i] \in Build
    BY <2>2 DEF HistoryInv, RowsOK, LinkOK, BuildOK
  <2> QED BY <2>3 DEF Over, Phase
<1> QED BY <1>1, HistoryInvariant, PTL

\* A build starts from the state its predecessor completed with, however requests,
\* extensions and executors interleave.
THEOREM StateIsInherited ==
  ASSUME Bounds
  PROVE  Spec => []StateInherited
<1>1. HistoryInv => StateInherited
  <2> SUFFICES ASSUME HistoryInv, NEW w \in Workspaces, NEW i \in 1 .. Len(builds[w]), i > 1,
                      EndedWell(builds[w][i - 1])
               PROVE  \/ builds[w][i].from = builds[w][i - 1].state
                      \/ builds[w][i].trans = "delete" /\ builds[w][i].from = 0
    BY DEF StateInherited, EndedWell
  <2>1. builds[w] \in Seq(Build) /\ Len(builds[w]) \in Nat
    BY DEF HistoryInv, RowsOK
  <2>2. i - 1 \in 1 .. Len(builds[w]) - 1 /\ (i - 1) + 1 = i
    BY <2>1
  <2>3. LinkOK(builds[w][i - 1], builds[w][i])
    BY <2>2 DEF HistoryInv, RowsOK
  <2> QED BY <2>3 DEF LinkOK, MayInherit
<1> QED BY <1>1, HistoryInvariant, PTL

\* An automatic stop follows a start and an automatic start follows a stop, whatever
\* the number of coderd replicas whose executors race (executor's runOnce and build).
THEOREM AutobuildsTakeTurns ==
  ASSUME Bounds
  PROVE  Spec => []AutobuildsAlternate
<1>1. HistoryInv => AutobuildsAlternate
  <2> SUFFICES ASSUME HistoryInv, NEW w \in Workspaces, NEW i \in 1 .. Len(builds[w])
               PROVE  /\ builds[w][i].reason = "autostop" => i > 1 /\ builds[w][i - 1].trans = "start"
                      /\ builds[w][i].reason = "autostart" => i > 1 /\ builds[w][i - 1].trans = "stop"
    BY DEF AutobuildsAlternate
  <2>1. builds[w] \in Seq(Build) /\ Len(builds[w]) \in Nat
    BY DEF HistoryInv, RowsOK
  <2>2. CASE i = 1
    <3>1. builds[w] # <<>>
      BY <2>1, <2>2
    <3> QED BY <3>1, <2>2 DEF HistoryInv, RowsOK
  <2>3. CASE i > 1
    <3>1. i - 1 \in 1 .. Len(builds[w]) - 1 /\ (i - 1) + 1 = i
      BY <2>1, <2>3
    <3>2. LinkOK(builds[w][i - 1], builds[w][i])
      BY <3>1 DEF HistoryInv, RowsOK
    <3> QED BY <3>2, <2>3 DEF LinkOK
  <2> QED BY <2>2, <2>3
<1> QED BY <1>1, HistoryInvariant, PTL

----------------------------------------------------------------------------
(* The rows implement the abstract history.                                *)

\* One row changes: nothing happens to the history, a build begins, or one ends.
LEMMA RowStepRefines ==
  ASSUME HistoryInv, RowStep
  PROVE  Abstract!HistoryNext \/ UNCHANGED History
<1>1. PICK w \in Workspaces : \E i \in 1 .. Len(builds[w]) : \E c :
            RowFollows(builds[w][i], c) /\ builds' = [builds EXCEPT ![w][i] = c]
  BY DEF RowStep
<1>2. PICK i \in 1 .. Len(builds[w]) : \E c :
            RowFollows(builds[w][i], c) /\ builds' = [builds EXCEPT ![w][i] = c]
  BY <1>1
<1>3. PICK c : RowFollows(builds[w][i], c) /\ builds' = [builds EXCEPT ![w][i] = c]
  BY <1>2
<1>4. builds \in [Workspaces -> Seq(Build)] /\ builds[w] \in Seq(Build)
  BY DEF HistoryInv, RowsOK
<1>5. /\ \A v \in Workspaces : Len(builds'[v]) = Len(builds[v])
      /\ \A v \in Workspaces : v # w => builds'[v] = builds[v]
      /\ \A k \in 1 .. Len(builds[w]) : k # i => builds'[w][k] = builds[w][k]
      /\ builds'[w][i] = c
  BY <1>3, <1>4
<1> DEFINE H == [v \in Workspaces |-> [k \in 1 .. Len(builds[v]) |-> Phase(builds[v][k])]]
           H2 == [v \in Workspaces |-> [k \in 1 .. Len(builds'[v]) |-> Phase(builds'[v][k])]]
<1>6. History = H /\ History' = H2
  BY DEF History
<1>7. H2 = [H EXCEPT ![w][i] = Phase(c)]
  <2>1. ASSUME NEW v \in Workspaces
        PROVE  H2[v] = [H EXCEPT ![w][i] = Phase(c)][v]
    <3>1. CASE v # w
      BY <3>1, <1>5
    <3>2. CASE v = w
      BY <3>2, <1>5
    <3> QED BY <3>1, <3>2
  <2> QED BY <2>1
<1>8. H[w][i] = Phase(builds[w][i]) /\ Len(H[w]) = Len(builds[w])
  <2>1. Len(builds[w]) \in Nat
    BY <1>4
  <2> QED BY <2>1
<1>9. CASE Phase(c) = Phase(builds[w][i])
  <2>1. ASSUME NEW v \in Workspaces
        PROVE  H2[v] = H[v]
    <3>1. CASE v # w
      BY <3>1, <1>5
    <3>2. CASE v = w
      <4>1. \A k \in 1 .. Len(builds[w]) : Phase(builds'[w][k]) = Phase(builds[w][k])
        BY <1>5, <1>9
      <4> QED BY <3>2, <4>1, <1>5
    <3> QED BY <3>1, <3>2
  <2> QED BY <2>1, <1>6
<1>10. CASE Phase(c) # Phase(builds[w][i])
  <2>1. \/ Phase(builds[w][i]) = "waiting" /\ Phase(c) = "running"
        \/ Phase(builds[w][i]) # "over" /\ Phase(c) = "over"
    BY <1>3, <1>10 DEF RowFollows, Over, Phase
  <2>2. Abstract!Begin(w, i) \/ Abstract!End(w, i)
    <3> HIDE DEF H, H2
    <3> QED BY <2>1, <1>6, <1>7, <1>8 DEF Abstract!Begin, Abstract!End
  <2>3. i \in 1 .. Len(History[w])
    BY <1>6, <1>8
  <2> QED BY <2>2, <2>3 DEF Abstract!HistoryNext
<1> QED BY <1>9, <1>10

\* A row is added: a build is added, behind builds that are all over.
LEMMA AddStepRefines ==
  ASSUME HistoryInv, AddStep
  PROVE  Abstract!HistoryNext
<1>1. PICK w \in Workspaces : \E c :
        /\ BuildOK(c) /\ (builds[w] # <<>> => LinkOK(LatestOf(builds, w), c))
        /\ Phase(c) = "waiting" /\ builds' = [builds EXCEPT ![w] = Append(@, c)]
  BY DEF AddStep
<1>2. PICK c :
        /\ BuildOK(c) /\ (builds[w] # <<>> => LinkOK(LatestOf(builds, w), c))
        /\ Phase(c) = "waiting" /\ builds' = [builds EXCEPT ![w] = Append(@, c)]
  BY <1>1
<1>3. /\ builds \in [Workspaces -> Seq(Build)] /\ builds[w] \in Seq(Build) /\ Len(builds[w]) \in Nat
      /\ c \in Build
  BY <1>2 DEF HistoryInv, RowsOK, BuildOK
<1>4. /\ Len(builds'[w]) = Len(builds[w]) + 1
      /\ \A k \in 1 .. Len(builds[w]) : builds'[w][k] = builds[w][k]
      /\ builds'[w][Len(builds[w]) + 1] = c
      /\ \A v \in Workspaces : v # w => builds'[v] = builds[v]
  BY <1>2, <1>3
<1> DEFINE H == [v \in Workspaces |-> [k \in 1 .. Len(builds[v]) |-> Phase(builds[v][k])]]
           H2 == [v \in Workspaces |-> [k \in 1 .. Len(builds'[v]) |-> Phase(builds'[v][k])]]
<1>5. History = H /\ History' = H2
  BY DEF History
<1>6. \A k \in 1 .. Len(builds[w]) : H[w][k] = "over"
  <2> SUFFICES ASSUME NEW k \in 1 .. Len(builds[w])
               PROVE  Over(builds[w][k])
    BY DEF Over
  <2>1. CASE k \in 1 .. Len(builds[w]) - 1
    BY <2>1 DEF HistoryInv, RowsOK, LinkOK
  <2>2. CASE k = Len(builds[w])
    <3>1. builds[w] # <<>>
      BY <1>3, <2>2
    <3> QED BY <1>2, <2>2, <3>1 DEF LinkOK, LatestOf
  <2> QED BY <1>3, <2>1, <2>2
<1>7. H2[w] = Append(H[w], "waiting")
  <2> DEFINE h == [k \in 1 .. Len(builds[w]) |-> Phase(builds[w][k])]
  <2>1. Len(h) = Len(builds[w]) /\ h \in Seq({"waiting", "running", "over"})
    BY <1>3 DEF Phase
  <2>2. H2[w] = [k \in 1 .. Len(builds[w]) + 1 |-> Phase(builds'[w][k])]
    BY <1>4
  <2>3. \A k \in 1 .. Len(builds[w]) : Phase(builds'[w][k]) = h[k]
    BY <1>4
  <2>4. Phase(builds'[w][Len(builds[w]) + 1]) = "waiting"
    BY <1>2, <1>4
  <2>5. H[w] = h
    OBVIOUS
  <2> HIDE DEF H, H2, h
  <2>6. Append(h, "waiting") = [k \in 1 .. Len(builds[w]) + 1 |-> IF k = Len(builds[w]) + 1 THEN "waiting" ELSE h[k]]
    <3> DEFINE s == Append(h, "waiting")
    <3>1. /\ s \in Seq({"waiting", "running", "over"}) /\ Len(s) = Len(h) + 1
          /\ \A k \in 1 .. Len(h) : s[k] = h[k]
          /\ s[Len(h) + 1] = "waiting"
      BY <2>1, <1>3
    <3> HIDE DEF s
    <3>2. s = [k \in 1 .. Len(s) |-> s[k]]
      BY <3>1
    <3> QED BY <2>1, <3>1, <3>2, <1>3 DEF s
  <2> QED BY <1>3, <2>2, <2>3, <2>4, <2>5, <2>6
<1>8. H2 = [H EXCEPT ![w] = Append(@, "waiting")]
  BY <1>4, <1>7
<1>9. Len(H[w]) = Len(builds[w])
  BY <1>3
<1>10. Abstract!Add(w)
  <2> HIDE DEF H, H2
  <2> QED BY <1>5, <1>6, <1>8, <1>9 DEF Abstract!Add
<1> QED BY <1>10 DEF Abstract!HistoryNext

\* coderd's rows of builds and jobs implement BuildHistory: builds are added one at a
\* time, each when all earlier ones are over, and none begins twice.
THEOREM BuildsRefineHistory ==
  ASSUME Bounds
  PROVE  Spec => OneBuildAtATime
<1>1. Init => Abstract!HistoryInit
  <2> SUFFICES ASSUME Init
               PROVE  History = [w \in Workspaces |-> <<>>]
    BY DEF Abstract!HistoryInit
  <2>1. \A w \in Workspaces : [i \in 1 .. Len(builds[w]) |-> Phase(builds[w][i])] = <<>>
    BY DEF Init
  <2> QED BY <2>1 DEF History
<1>2. HistoryInv /\ [Next]_vars => [Abstract!HistoryNext]_History
  <2> SUFFICES ASSUME HistoryInv, [Next]_vars
               PROVE  Abstract!HistoryNext \/ UNCHANGED History
    OBVIOUS
  <2>1. CASE UNCHANGED builds
    BY <2>1 DEF History
  <2> QED BY <2>1, StepShape, RowStepRefines, AddStepRefines
<1> QED BY <1>1, <1>2, HistoryInvariant, PTL DEF Spec, OneBuildAtATime, Abstract!HistorySpec

-----------------------------------------------------------------------------
(* The DERP mesh.                                                          *)

AddingCall == [at : {"adding"}, total : SUBSET Addresses, left : SUBSET Addresses]

\* A connection loop runs for addresses that are active, one each, and none of a closed mesh.
MeshInv ==
    /\ peers \subseteq Addresses /\ active \subseteq Addresses /\ closed \in BOOLEAN
    /\ call \in [Calls -> {M!NotBegun, M!Done} \cup AddingCall]
    /\ loops \in [Addresses -> {0, 1}]
    /\ \A a \in Addresses : loops[a] = 1 => a \in active /\ ~closed /\ Calls # {}

LEMMA InitMesh == ASSUME M!Init PROVE MeshInv
<1>1. peers = {} /\ active = {} /\ closed = FALSE
  BY DEF M!Init
<1>2. call \in [Calls -> {M!NotBegun, M!Done} \cup AddingCall]
  BY DEF M!Init
<1>3. loops \in [Addresses -> {0, 1}] /\ \A a \in Addresses : ~(loops[a] = 1)
  BY DEF M!Init
<1> QED BY Zenon, <1>1, <1>2, <1>3 DEF MeshInv

LEMMA NextMesh == ASSUME MeshInv, [M!Next]_(M!vars) PROVE MeshInv'
<1>0. M!Done.at = "done" /\ M!NotBegun.at = "begin"
  BY DEF M!Done, M!NotBegun
<1>1. ASSUME NEW set \in SUBSET Addresses, M!PeersChange(set) PROVE MeshInv'
  BY <1>1 DEF M!PeersChange, MeshInv
<1>2. ASSUME NEW k \in Calls, M!Begin(k) PROVE MeshInv'
  <2>1. [at |-> "adding", total |-> peers, left |-> peers] \in AddingCall
    BY DEF MeshInv, AddingCall
  <2> QED BY <1>2, <2>1 DEF M!Begin, MeshInv
<1>3. ASSUME NEW k \in Calls, M!Remove(k) PROVE MeshInv'
  <2>1. loops' \in [Addresses -> {0, 1}] /\ \A a \in Addresses : loops'[a] = 1 => loops[a] = 1
    BY <1>3 DEF M!Remove, MeshInv
  <2> QED BY <1>3, <2>1 DEF M!Remove, MeshInv
<1>4. ASSUME NEW k \in Calls, NEW a \in Addresses, M!Add(k, a) PROVE MeshInv'
  <2>1. call[k] \in AddingCall
    BY <1>0, <1>4 DEF M!Add, MeshInv
  <2>2. [call[k] EXCEPT !.left = @ \ {a}] \in AddingCall
    BY <2>1 DEF AddingCall
  <2>3. call' \in [Calls -> {M!NotBegun, M!Done} \cup AddingCall]
    BY <1>4, <2>2 DEF M!Add, MeshInv
  <2>4. M!Meshes(a) => loops[a] = 0
    BY DEF M!Meshes, MeshInv
  <2>5. CASE M!Meshes(a)
    <3>1. active' = active \cup {a} /\ loops' = [loops EXCEPT ![a] = 1]
      BY <1>4, <2>4, <2>5 DEF M!Add, MeshInv
    <3>2. ~closed
      BY <2>5 DEF M!Meshes
    <3> QED BY <1>4, <2>3, <3>1, <3>2 DEF M!Add, MeshInv
  <2>6. CASE ~M!Meshes(a)
    BY <1>4, <2>3, <2>6 DEF M!Add, MeshInv
  <2> QED BY <2>5, <2>6
<1>5. CASE M!Close
  BY <1>5 DEF M!Close, MeshInv
<1>6. CASE UNCHANGED M!vars
  BY <1>6 DEF M!vars, MeshInv
<1> QED BY <1>1, <1>2, <1>3, <1>4, <1>5, <1>6 DEF M!Next

LEMMA MeshSafe ==
  ASSUME IsFiniteSet(Calls), MeshInv
  PROVE  M!TypeOK /\ M!OneLoopEach /\ M!ClosedIsQuiet
<1>1. Cardinality(Calls) \in Nat /\ (Calls # {} => Cardinality(Calls) > 0)
  BY FS_CardinalityType, FS_EmptySet
<1>2. loops \in [Addresses -> 0 .. Cardinality(Calls)]
  <2>1. ASSUME NEW a \in Addresses PROVE loops[a] \in 0 .. Cardinality(Calls)
    <3>1. loops[a] = 0 \/ (loops[a] = 1 /\ Calls # {})
      BY DEF MeshInv
    <3> QED BY <1>1, <3>1
  <2> QED BY <2>1 DEF MeshInv
<1>3. M!TypeOK
  <2>1. \A k \in Calls : call[k] \in {M!NotBegun, M!Done} \cup AddingCall
    BY DEF MeshInv
  <2>2. peers \subseteq Addresses /\ active \subseteq Addresses /\ closed \in BOOLEAN
    BY DEF MeshInv
  <2>3. M!Cardinality(Calls) = Cardinality(Calls)
    BY DEF M!Cardinality, Cardinality
  <2> QED BY <1>2, <2>1, <2>2, <2>3, Zenon DEF M!TypeOK, AddingCall
<1>4. M!OneLoopEach
  <2>1. \A a \in Addresses : loops[a] <= 1
    <3>1. ASSUME NEW a \in Addresses PROVE loops[a] <= 1
      <4>1. loops[a] = 0 \/ loops[a] = 1
        BY DEF MeshInv
      <4> QED BY <4>1
    <3> QED BY <3>1
  <2> QED BY <2>1 DEF M!OneLoopEach, MeshInv
<1>5. M!ClosedIsQuiet
  BY DEF M!ClosedIsQuiet, MeshInv
<1> QED BY <1>3, <1>4, <1>5

(* However calls of SetAddresses overlap with each other and with Close,   *)
(* the mesh runs one connection loop at most for an address, one that      *)
(* active knows of, and none once it is closed.                            *)
THEOREM MeshIsSafe ==
  ASSUME IsFiniteSet(Calls) PROVE M!Spec => [](M!TypeOK /\ M!OneLoopEach /\ M!ClosedIsQuiet)
<1>1. M!Init => MeshInv
  BY InitMesh
<1>2. MeshInv /\ [M!Next]_(M!vars) => MeshInv'
  BY NextMesh
<1>3. MeshInv => M!TypeOK /\ M!OneLoopEach /\ M!ClosedIsQuiet
  BY MeshSafe
<1> QED BY <1>1, <1>2, <1>3, PTL DEF M!Spec

-----------------------------------------------------------------------------
(* Git authentication.                                                     *)

\* What the proofs need to know of the constants.
Provider == MaxTokens \in Nat /\ MaxTokens >= 1 /\ MaxFaults \in Nat

AskRow ==
    [step : {"ask", "source", "validate", "update", "open", "listen", "check", "listenValidate",
             "answered", "failed"}, read : Nat, token : Nat]
LoginRow ==
    [step : {"idle", "read", "insert", "update", "publish", "done", "failed"}, read : Nat, token : Nat]

AskOK(row) == row \in AskRow /\ row.read <= issued /\ row.token <= issued
              /\ (row.step = "source" => row.token = row.read)
LoginOK(row) == row \in LoginRow /\ row.read <= issued /\ row.token <= issued

GitTyped ==
    /\ config \in [noRefresh : BOOLEAN, validate : BOOLEAN]
    /\ issued \in 0 .. MaxTokens /\ link_gitauths \in 0 .. issued
    /\ expired \subseteq 1 .. issued /\ revoked \subseteq 1 .. issued
    /\ refreshed \subseteq 1 .. issued /\ dropped \subseteq 1 .. issued
    /\ ask = [a \in Asks |-> ask[a]] /\ \A a \in Asks : AskOK(ask[a])
    /\ login = [l \in Logins |-> login[l]] /\ \A l \in Logins : LoginOK(login[l])
    /\ faults \in 0 .. MaxFaults

\* A request or a login has a token that it has still to store.
Refreshes(row) == row.step \in {"validate", "update"} /\ row.token # row.read
Carries(row) == row.step \in {"read", "insert", "update"}

\* Nobody but who has it knows of that token.
Unstored(t) == t >= 1 /\ t \notin refreshed /\ t # link_gitauths /\ \A b \in Asks : ask[b].read # t

GitInv ==
    /\ GitTyped
    /\ \A a \in Asks : Refreshes(ask[a]) =>
          /\ Unstored(ask[a].token)
          /\ \A b \in Asks \ {a} : Refreshes(ask[b]) => ask[b].token # ask[a].token
          /\ \A l \in Logins : Carries(login[l]) => login[l].token # ask[a].token
    /\ \A l \in Logins : Carries(login[l]) =>
          /\ Unstored(login[l].token)
          /\ \A m \in Logins \ {l} : Carries(login[m]) => login[m].token # login[l].token
    /\ G!LinkRefreshable

LEMMA InitGit == ASSUME Provider, G!Init PROVE GitInv
<1>1. ASSUME NEW step PROVE G!At(step) = [step |-> step, read |-> 0, token |-> 0]
  BY DEF G!At
<1>2. PICK cast : /\ ask = [a \in Asks |-> G!At(IF a \in cast THEN "ask" ELSE "failed")]
                  /\ login = [l \in Logins |-> G!At(IF l \in cast THEN "idle" ELSE "failed")]
  BY DEF G!Init
<1>3. issued \in Nat /\ issued \in 0 .. MaxTokens /\ link_gitauths \in 0 .. issued /\ 0 <= issued
  BY DEF G!Init, G!NoLink, Provider
<1>4. expired \subseteq 1 .. issued
  <2>1. CASE link_gitauths = 1 /\ issued = 1 /\ expired \in SUBSET {1}
    BY <2>1
  <2> QED BY <2>1 DEF G!Init
<1>5. \A a \in Asks : AskOK(ask[a]) /\ ~Refreshes(ask[a])
  <2>1. ASSUME NEW a \in Asks PROVE AskOK(ask[a]) /\ ~Refreshes(ask[a])
    <3>1. ask[a].read = 0 /\ ask[a].token = 0 /\ ask[a].step \in {"ask", "failed"} /\ ask[a] \in AskRow
      BY <1>1, <1>2 DEF AskRow
    <3> QED BY <1>3, <3>1 DEF AskOK, Refreshes
  <2> QED BY <2>1
<1>6. \A l \in Logins : LoginOK(login[l]) /\ ~Carries(login[l])
  <2>1. ASSUME NEW l \in Logins PROVE LoginOK(login[l]) /\ ~Carries(login[l])
    <3>1. login[l].read = 0 /\ login[l].token = 0 /\ login[l].step \in {"idle", "failed"} /\ login[l] \in LoginRow
      BY <1>1, <1>2 DEF LoginRow
    <3> QED BY <1>3, <3>1 DEF LoginOK, Carries
  <2> QED BY <2>1
<1>7. /\ config \in [noRefresh : BOOLEAN, validate : BOOLEAN]
      /\ revoked = {} /\ refreshed = {} /\ dropped = {} /\ faults \in 0 .. MaxFaults
      /\ ask = [a \in Asks |-> ask[a]] /\ login = [l \in Logins |-> login[l]]
  <2>1. config \in [noRefresh : BOOLEAN, validate : BOOLEAN] /\ revoked = {} /\ refreshed = {} /\ dropped = {}
    BY Zenon DEF G!Init
  <2>2. faults \in 0 .. MaxFaults
    BY DEF G!Init, Provider
  <2>3. ask = [a \in Asks |-> ask[a]] /\ login = [l \in Logins |-> login[l]]
    BY <1>2
  <2> QED BY <2>1, <2>2, <2>3
<1>8. GitTyped
  BY <1>3, <1>4, <1>5, <1>6, <1>7 DEF GitTyped
<1>9. G!LinkRefreshable
  BY <1>7 DEF G!LinkRefreshable
<1> QED BY <1>5, <1>6, <1>8, <1>9 DEF GitInv

\* A step that stores and issues no token: a request or a login goes on with what it has,
\* reads what is stored, or ends.
LEMMA CalmKeeps ==
  ASSUME GitInv, GitTyped', UNCHANGED <<link_gitauths, issued, refreshed>>, dropped \subseteq dropped',
         ASSUME NEW b \in Asks
         PROVE  /\ ask'[b].read \in {0, link_gitauths, ask[b].read}
                /\ Refreshes(ask'[b]) => Refreshes(ask[b]) /\ ask'[b].token = ask[b].token
                /\ Refreshes(ask[b]) => Refreshes(ask'[b]) \/ dropped' # {},
         ASSUME NEW l \in Logins
         PROVE  Carries(login'[l]) => Carries(login[l]) /\ login'[l].token = login[l].token
  PROVE  GitInv'
<1>1. ASSUME NEW t \in Nat, Unstored(t) PROVE Unstored(t)'
  BY <1>1 DEF Unstored
<1>2. \A a \in Asks : ask[a].token \in Nat
  BY DEF GitInv, GitTyped, AskOK, AskRow
<1>3. \A l \in Logins : login[l].token \in Nat
  BY DEF GitInv, GitTyped, LoginOK, LoginRow
<1>4. ASSUME NEW a \in Asks, Refreshes(ask'[a])
      PROVE  /\ Unstored(ask[a].token)' /\ ask'[a].token = ask[a].token
             /\ \A b \in Asks \ {a} : Refreshes(ask'[b]) => ask'[b].token # ask'[a].token
             /\ \A l \in Logins : Carries(login'[l]) => login'[l].token # ask'[a].token
  BY <1>1, <1>2, <1>4 DEF GitInv
<1>5. ASSUME NEW l \in Logins, Carries(login'[l])
      PROVE  /\ Unstored(login[l].token)' /\ login'[l].token = login[l].token
             /\ \A m \in Logins \ {l} : Carries(login'[m]) => login'[m].token # login'[l].token
  BY <1>1, <1>3, <1>5 DEF GitInv
<1>6. G!LinkRefreshable'
  BY DEF GitInv, G!LinkRefreshable, Refreshes, G!NoLink
<1> QED BY <1>4, <1>5, <1>6 DEF GitInv, Unstored

\* A token that nobody else knows of is stored.
LEMMA StoreKeeps ==
  ASSUME GitInv, GitTyped', UNCHANGED <<issued, refreshed, dropped>>, link_gitauths' \notin refreshed,
         ASSUME NEW b \in Asks
         PROVE  /\ ask'[b].read \in {0, ask[b].read}
                /\ Refreshes(ask'[b]) =>
                      Refreshes(ask[b]) /\ ask'[b].token = ask[b].token /\ ask[b].token # link_gitauths',
         ASSUME NEW l \in Logins
         PROVE  Carries(login'[l]) =>
                   Carries(login[l]) /\ login'[l].token = login[l].token /\ login[l].token # link_gitauths'
  PROVE  GitInv'
<1>1. ASSUME NEW t \in Nat, Unstored(t), t # link_gitauths' PROVE Unstored(t)'
  BY <1>1 DEF Unstored
<1>2. \A a \in Asks : ask[a].token \in Nat
  BY DEF GitInv, GitTyped, AskOK, AskRow
<1>3. \A l \in Logins : login[l].token \in Nat
  BY DEF GitInv, GitTyped, LoginOK, LoginRow
<1>4. ASSUME NEW a \in Asks, Refreshes(ask'[a])
      PROVE  /\ Unstored(ask[a].token)'
             /\ \A b \in Asks \ {a} : Refreshes(ask'[b]) => ask'[b].token # ask'[a].token
             /\ \A l \in Logins : Carries(login'[l]) => login'[l].token # ask'[a].token
  BY <1>1, <1>2, <1>4 DEF GitInv
<1>5. ASSUME NEW l \in Logins, Carries(login'[l])
      PROVE  /\ Unstored(login[l].token)'
             /\ \A m \in Logins \ {l} : Carries(login'[m]) => login'[m].token # login'[l].token
  BY <1>1, <1>3, <1>5 DEF GitInv
<1>6. G!LinkRefreshable'
  BY DEF G!LinkRefreshable
<1> QED BY <1>4, <1>5, <1>6 DEF GitInv

\* Bounds that a step may raise.
LEMMA GitFields ==
  ASSUME GitInv
  PROVE  /\ issued \in Nat /\ link_gitauths \in Nat /\ link_gitauths <= issued
         /\ \A a \in Asks : ask[a].read \in Nat /\ ask[a].token \in Nat /\ ask[a] \in AskRow
                            /\ ask[a].read <= issued /\ ask[a].token <= issued
         /\ \A l \in Logins : login[l].read \in Nat /\ login[l].token \in Nat /\ login[l] \in LoginRow
                              /\ login[l].read <= issued /\ login[l].token <= issued
<1>1. issued \in 0 .. MaxTokens /\ link_gitauths \in 0 .. issued
  BY DEF GitInv, GitTyped
<1>2. issued \in Nat
  BY <1>1
<1>3. link_gitauths \in Nat /\ link_gitauths <= issued
  BY <1>1, <1>2
<1>4. \A a \in Asks : ask[a] \in AskRow /\ ask[a].read <= issued /\ ask[a].token <= issued
  BY DEF GitInv, GitTyped, AskOK
<1>5. \A l \in Logins : login[l] \in LoginRow /\ login[l].read <= issued /\ login[l].token <= issued
  BY DEF GitInv, GitTyped, LoginOK
<1> QED BY <1>2, <1>3, <1>4, <1>5 DEF AskRow, LoginRow

\* A request moves, and the tokens stay.
LEMMA AskMoves ==
  ASSUME GitInv, NEW a \in Asks, NEW row, AskOK(row), ask' = [ask EXCEPT ![a] = row],
         UNCHANGED <<config, link_gitauths, issued, expired, revoked, refreshed, login>>,
         dropped \subseteq dropped', dropped' \subseteq 1 .. issued, faults' \in 0 .. MaxFaults,
         row.read \in {0, link_gitauths, ask[a].read},
         Refreshes(row) => Refreshes(ask[a]) /\ row.token = ask[a].token,
         Refreshes(ask[a]) => Refreshes(row) \/ dropped' # {}
  PROVE  GitInv'
<1>1. ask'[a] = row /\ (\A b \in Asks \ {a} : ask'[b] = ask[b]) /\ ask' = [b \in Asks |-> ask'[b]]
  BY DEF GitInv, GitTyped
<1>2. \A b \in Asks : AskOK(ask'[b])
  BY <1>1 DEF GitInv, GitTyped
<1>3. (\A b \in Asks : AskOK(ask[b]))' /\ (\A l \in Logins : LoginOK(login[l]))'
  BY <1>2 DEF GitInv, GitTyped, AskOK, LoginOK
<1>4. GitTyped'
  BY <1>1, <1>3 DEF GitInv, GitTyped
<1>5. ASSUME NEW b \in Asks
      PROVE  /\ ask'[b].read \in {0, link_gitauths, ask[b].read}
             /\ Refreshes(ask'[b]) => Refreshes(ask[b]) /\ ask'[b].token = ask[b].token
             /\ Refreshes(ask[b]) => Refreshes(ask'[b]) \/ dropped' # {}
  <2>1. CASE b = a
    BY <1>1, <2>1
  <2>2. CASE b # a
    BY <1>1, <2>2
  <2> QED BY <2>1, <2>2
<1>6. ASSUME NEW l \in Logins
      PROVE  Carries(login'[l]) => Carries(login[l]) /\ login'[l].token = login[l].token
  OBVIOUS
<1> QED BY <1>4, <1>5, <1>6, CalmKeeps, Zenon

LEMMA AtIsOK ==
  ASSUME GitInv, NEW step \in {"ask", "open", "listen", "answered", "failed"}
  PROVE  AskOK(G!At(step)) /\ ~Refreshes(G!At(step)) /\ G!At(step).read = 0
<1>1. G!At(step) \in AskRow /\ G!At(step).read = 0 /\ G!At(step).token = 0
  BY DEF G!At, AskRow
<1> QED BY <1>1, GitFields DEF AskOK, Refreshes

\* A request goes on to a step that holds no token to store.
LEMMA AskLeaves ==
  ASSUME GitInv, NEW a \in Asks, NEW step \in {"ask", "open", "listen", "answered", "failed"},
         ask' = [ask EXCEPT ![a] = G!At(step)],
         UNCHANGED <<config, link_gitauths, issued, expired, revoked, refreshed, login>>,
         dropped \subseteq dropped', dropped' \subseteq 1 .. issued, faults' \in 0 .. MaxFaults,
         Refreshes(ask[a]) => dropped' # {}
  PROVE  GitInv'
  BY AtIsOK, AskMoves

\* A request reads the token that is stored.
LEMMA AskReads ==
  ASSUME GitInv, NEW a \in Asks, NEW step \in {"source", "listenValidate"},
         ask' = [ask EXCEPT ![a] = [step |-> step, read |-> link_gitauths, token |-> link_gitauths]],
         UNCHANGED <<config, link_gitauths, issued, expired, revoked, refreshed, login, dropped, faults>>,
         ~Refreshes(ask[a])
  PROVE  GitInv'
<1>1. PICK row : row = [step |-> step, read |-> link_gitauths, token |-> link_gitauths]
  OBVIOUS
<1>2. row \in AskRow /\ row.read = link_gitauths /\ row.token = link_gitauths
  BY <1>1, GitFields DEF AskRow
<1>3. AskOK(row) /\ ~Refreshes(row)
  BY <1>2, GitFields DEF AskOK, Refreshes
<1>4. dropped \subseteq 1 .. issued /\ faults \in 0 .. MaxFaults
  BY DEF GitInv, GitTyped
<1> QED BY <1>1, <1>2, <1>3, <1>4, AskMoves

\* A request takes its next step with the token it has.
LEMMA AskSteps ==
  ASSUME GitInv, NEW a \in Asks, NEW step \in {"validate", "update", "answered"},
         ask' = [ask EXCEPT ![a].step = step],
         UNCHANGED <<config, link_gitauths, issued, expired, revoked, refreshed, login, dropped, faults>>,
         step = "answered" => ~Refreshes(ask[a]),
         step = "validate" => ask[a].step = "source",
         step = "update" => ask[a].step = "validate"
  PROVE  GitInv'
<1>1. PICK row : row = [ask[a] EXCEPT !.step = step]
  OBVIOUS
<1>2. ask[a] \in AskRow
  BY GitFields
<1>3. row \in AskRow /\ row.read = ask[a].read /\ row.token = ask[a].token /\ row.step = step
  BY <1>1, <1>2 DEF AskRow
<1>4. AskOK(row)
  BY <1>3, GitFields DEF AskOK
<1>5. ask[a].step = "source" => ask[a].token = ask[a].read
  BY DEF GitInv, GitTyped, AskOK
<1>6. Refreshes(row) => Refreshes(ask[a])
  BY <1>3, <1>5 DEF Refreshes
<1>7. Refreshes(ask[a]) => Refreshes(row)
  BY <1>3 DEF Refreshes
<1>8. dropped \subseteq 1 .. issued /\ faults \in 0 .. MaxFaults
  BY DEF GitInv, GitTyped
<1>9. ask' = [ask EXCEPT ![a] = row]
  BY <1>1
<1> QED BY <1>3, <1>4, <1>6, <1>7, <1>8, <1>9, AskMoves

\* A token is issued: to a request that refreshes the one it read, or to a login.
LEMMA IssueTypes ==
  ASSUME Provider, GitInv, issued < MaxTokens, issued' = issued + 1
  PROVE  /\ issued' \in 0 .. MaxTokens /\ issued' \in Nat /\ issued + 1 \in Nat /\ link_gitauths \in 0 .. issued'
         /\ \A n \in Nat : n <= issued => n <= issued' /\ n # issued + 1
         /\ 1 .. issued \subseteq 1 .. issued' /\ issued + 1 >= 1
         /\ (\A row : AskOK(row) => row.token \in Nat /\ row.read \in Nat)
         /\ \A row : LoginOK(row) => row.token \in Nat /\ row.read \in Nat
<1>1. issued \in Nat /\ link_gitauths \in Nat /\ link_gitauths <= issued /\ MaxTokens \in Nat
  BY GitFields DEF Provider
<1>2. \A row : AskOK(row) => row.token \in Nat /\ row.read \in Nat
  BY DEF AskOK, AskRow
<1>3. \A row : LoginOK(row) => row.token \in Nat /\ row.read \in Nat
  BY DEF LoginOK, LoginRow
<1> QED BY <1>1, <1>2, <1>3

LEMMA RefreshKeeps ==
  ASSUME Provider, GitInv, NEW a \in Asks, ask[a].step = "source",
         ask[a].read \in expired \ (refreshed \union revoked), issued < MaxTokens,
         issued' = issued + 1, refreshed' = refreshed \union {ask[a].read},
         ask' = [ask EXCEPT ![a].step = "validate", ![a].token = issued + 1],
         UNCHANGED <<config, link_gitauths, expired, revoked, login, dropped, faults>>
  PROVE  GitInv'
<1>0. /\ issued' \in 0 .. MaxTokens /\ issued' \in Nat /\ issued + 1 \in Nat /\ link_gitauths \in 0 .. issued'
      /\ \A n \in Nat : n <= issued => n <= issued' /\ n # issued + 1
      /\ 1 .. issued \subseteq 1 .. issued' /\ issued + 1 >= 1
  BY IssueTypes
<1>1. ask[a] \in AskRow /\ ask[a].read \in Nat /\ ask[a].read <= issued
  BY GitFields
<1>2. PICK row : row = [ask[a] EXCEPT !.step = "validate", !.token = issued + 1]
  OBVIOUS
<1>3. row \in AskRow /\ row.read = ask[a].read /\ row.token = issued + 1 /\ row.step = "validate"
  BY <1>0, <1>1, <1>2 DEF AskRow
<1>4. Refreshes(row)
  BY <1>0, <1>1, <1>3 DEF Refreshes
<1>5. ask' = [ask EXCEPT ![a] = row]
  BY <1>2
<1>6. ask'[a] = row /\ (\A b \in Asks \ {a} : ask'[b] = ask[b]) /\ ask' = [b \in Asks |-> ask'[b]]
  BY <1>5 DEF GitInv, GitTyped
<1>7. \A b \in Asks : ask'[b].read = ask[b].read
  BY <1>3, <1>6
<1>8. GitTyped'
  <2>1. ASSUME NEW b \in Asks PROVE AskOK(ask[b])'
    <3>1. CASE b = a
      BY <1>0, <1>1, <1>3, <1>6, <3>1 DEF AskOK
    <3>2. CASE b # a
      <4>1. ask'[b] = ask[b] /\ AskOK(ask[b])
        BY <1>6, <3>2 DEF GitInv, GitTyped
      <4> QED BY <1>0, <4>1 DEF AskOK, AskRow
    <3> QED BY <3>1, <3>2
  <2>2. (\A b \in Asks : AskOK(ask[b]))'
    BY <2>1
  <2>3. ASSUME NEW l \in Logins PROVE LoginOK(login[l])'
    <3>1. LoginOK(login[l])
      BY DEF GitInv, GitTyped
    <3> QED BY <1>0, <3>1 DEF LoginOK, LoginRow
  <2>4. expired' \subseteq 1 .. issued' /\ revoked' \subseteq 1 .. issued' /\ dropped' \subseteq 1 .. issued'
    BY <1>0 DEF GitInv, GitTyped
  <2>5. refreshed' \subseteq 1 .. issued'
    <3>1. ask[a].read \in 1 .. issued /\ refreshed \subseteq 1 .. issued
      BY DEF GitInv, GitTyped
    <3> QED BY <1>0, <3>1
  <2>6. /\ config' \in [noRefresh : BOOLEAN, validate : BOOLEAN] /\ faults' \in 0 .. MaxFaults
        /\ login' = [l \in Logins |-> login'[l]]
    BY DEF GitInv, GitTyped
  <2> QED BY <1>0, <1>6, <2>2, <2>3, <2>4, <2>5, <2>6 DEF GitTyped
<1>9. ASSUME NEW t \in Nat, Unstored(t) PROVE Unstored(t)'
  BY <1>7, <1>9 DEF Unstored
<1>10. Unstored(issued + 1) /\ Unstored(row.token)'
  <2>1. issued + 1 \notin refreshed
    <3>1. refreshed \subseteq 1 .. issued /\ issued \in Nat
      BY GitFields DEF GitInv, GitTyped
    <3> QED BY <3>1
  <2>2. issued + 1 # link_gitauths /\ \A b \in Asks : ask[b].read # issued + 1
    BY <1>0, GitFields
  <2>3. Unstored(issued + 1)
    BY <1>0, <2>1, <2>2 DEF Unstored
  <2>4. PICK t \in Nat : t = issued + 1
    BY <1>0
  <2>5. Unstored(t)'
    BY <1>9, <2>3, <2>4
  <2> QED BY <1>3, <2>3, <2>4, <2>5
<1>11. (\A b \in Asks : ask[b].token # issued + 1) /\ \A l \in Logins : login[l].token # issued + 1
  BY <1>0, GitFields
<1>12. ~Refreshes(ask[a])
  BY DEF Refreshes
<1>13. ASSUME NEW b \in Asks, Refreshes(ask'[b])
       PROVE  /\ Unstored(ask[b].token)'
              /\ \A c \in Asks \ {b} : Refreshes(ask'[c]) => ask'[c].token # ask'[b].token
              /\ \A l \in Logins : Carries(login'[l]) => login'[l].token # ask'[b].token
  <2>1. CASE b = a
    <3>1. Unstored(ask[b].token)'
      BY <1>6, <1>10, <2>1
    <3>2. \A c \in Asks \ {a} : ask'[c].token # issued + 1
      BY <1>6, <1>11
    <3> QED BY <1>3, <1>6, <1>11, <2>1, <3>1, <3>2
  <2>2. CASE b # a
    <3>1. ask'[b] = ask[b] /\ Refreshes(ask[b])
      BY <1>6, <1>13, <2>2
    <3>2. Unstored(ask[b].token)'
      BY <1>9, <3>1, GitFields DEF GitInv
    <3>3. ASSUME NEW c \in Asks \ {b}, Refreshes(ask'[c]) PROVE ask'[c].token # ask'[b].token
      <4>1. CASE c = a
        BY <1>3, <1>6, <1>11, <3>1, <4>1
      <4>2. CASE c # a
        <5>1. ask'[c] = ask[c] /\ Refreshes(ask[c])
          BY <1>6, <3>3, <4>2
        <5>2. ask[c].token # ask[b].token
          BY <3>1, <5>1 DEF GitInv
        <5> QED BY <3>1, <5>1, <5>2
      <4> QED BY <4>1, <4>2
    <3> QED BY <3>1, <3>2, <3>3 DEF GitInv
  <2> QED BY <2>1, <2>2
<1>14. ASSUME NEW l \in Logins, Carries(login'[l])
       PROVE  /\ Unstored(login[l].token)'
              /\ \A m \in Logins \ {l} : Carries(login'[m]) => login'[m].token # login'[l].token
  BY <1>9, <1>14, GitFields DEF GitInv
<1>15. G!LinkRefreshable'
  BY <1>4, <1>6 DEF G!LinkRefreshable, Refreshes
<1> QED BY <1>8, <1>13, <1>14, <1>15 DEF GitInv

LEMMA BeginKeeps ==
  ASSUME Provider, GitInv, NEW l \in Logins, G!Begin(l)
  PROVE  GitInv'
<1>0. /\ issued < MaxTokens /\ issued' = issued + 1
      /\ login' = [login EXCEPT ![l] = [step |-> "read", read |-> 0, token |-> issued + 1]]
      /\ UNCHANGED <<config, link_gitauths, expired, revoked, refreshed, ask, dropped, faults>>
  BY DEF G!Begin
<1>1. /\ issued' \in 0 .. MaxTokens /\ issued' \in Nat /\ issued + 1 \in Nat /\ link_gitauths \in 0 .. issued'
      /\ \A n \in Nat : n <= issued => n <= issued' /\ n # issued + 1
      /\ 1 .. issued \subseteq 1 .. issued' /\ issued + 1 >= 1
  BY <1>0, IssueTypes
<1>2. PICK row : row = [step |-> "read", read |-> 0, token |-> issued + 1]
  OBVIOUS
<1>3. row \in LoginRow /\ row.read = 0 /\ row.token = issued + 1
  BY <1>1, <1>2 DEF LoginRow
<1>4. login'[l] = row /\ (\A m \in Logins \ {l} : login'[m] = login[m]) /\ login' = [m \in Logins |-> login'[m]]
  BY <1>0, <1>2 DEF GitInv, GitTyped
<1>5. GitTyped'
  <2>1. ASSUME NEW m \in Logins PROVE LoginOK(login[m])'
    <3>1. CASE m = l
      BY <1>0, <1>1, <1>3, <1>4, <3>1 DEF LoginOK
    <3>2. CASE m # l
      <4>1. login'[m] = login[m] /\ LoginOK(login[m])
        BY <1>4, <3>2 DEF GitInv, GitTyped
      <4> QED BY <1>1, <4>1 DEF LoginOK, LoginRow
    <3> QED BY <3>1, <3>2
  <2>2. (\A m \in Logins : LoginOK(login[m]))'
    BY <2>1
  <2>3. ASSUME NEW a \in Asks PROVE AskOK(ask[a])'
    <3>1. AskOK(ask[a])
      BY DEF GitInv, GitTyped
    <3> QED BY <1>0, <1>1, <3>1 DEF AskOK, AskRow
  <2>4. /\ expired' \subseteq 1 .. issued' /\ revoked' \subseteq 1 .. issued'
        /\ dropped' \subseteq 1 .. issued' /\ refreshed' \subseteq 1 .. issued'
    BY <1>0, <1>1 DEF GitInv, GitTyped
  <2>5. /\ config' \in [noRefresh : BOOLEAN, validate : BOOLEAN] /\ faults' \in 0 .. MaxFaults
        /\ ask' = [a \in Asks |-> ask'[a]] /\ link_gitauths' \in 0 .. issued'
    BY <1>0, <1>1 DEF GitInv, GitTyped
  <2> QED BY <1>1, <1>4, <2>2, <2>3, <2>4, <2>5 DEF GitTyped
<1>6. ASSUME NEW t \in Nat, Unstored(t) PROVE Unstored(t)'
  BY <1>0, <1>6 DEF Unstored
<1>7. Unstored(row.token)'
  <2>1. issued + 1 \notin refreshed
    <3>1. refreshed \subseteq 1 .. issued /\ issued \in Nat
      BY GitFields DEF GitInv, GitTyped
    <3> QED BY <3>1
  <2>2. issued + 1 # link_gitauths /\ \A b \in Asks : ask[b].read # issued + 1
    BY <1>1, GitFields
  <2>3. Unstored(issued + 1)
    BY <1>1, <2>1, <2>2 DEF Unstored
  <2>4. PICK t \in Nat : t = issued + 1
    BY <1>1
  <2>5. Unstored(t)'
    BY <1>6, <2>3, <2>4
  <2> QED BY <1>3, <2>4, <2>5
<1>8. (\A b \in Asks : ask[b].token # issued + 1) /\ \A m \in Logins : login[m].token # issued + 1
  BY <1>1, GitFields
<1>9. ASSUME NEW a \in Asks, Refreshes(ask'[a])
      PROVE  /\ Unstored(ask[a].token)'
             /\ \A b \in Asks \ {a} : Refreshes(ask'[b]) => ask'[b].token # ask'[a].token
             /\ \A m \in Logins : Carries(login'[m]) => login'[m].token # ask'[a].token
  <2>1. ask' = ask /\ Refreshes(ask[a])
    BY <1>0, <1>9
  <2>2. Unstored(ask[a].token)'
    BY <1>6, <2>1, GitFields DEF GitInv
  <2>3. ASSUME NEW m \in Logins, Carries(login'[m]) PROVE login'[m].token # ask'[a].token
    <3>1. CASE m = l
      BY <1>3, <1>4, <1>8, <2>1, <3>1
    <3>2. CASE m # l
      BY <1>4, <2>1, <2>3, <3>2 DEF GitInv
    <3> QED BY <3>1, <3>2
  <2> QED BY <2>1, <2>2, <2>3 DEF GitInv
<1>10. ASSUME NEW m \in Logins, Carries(login'[m])
       PROVE  /\ Unstored(login[m].token)'
              /\ \A n \in Logins \ {m} : Carries(login'[n]) => login'[n].token # login'[m].token
  <2>1. CASE m = l
    BY <1>3, <1>4, <1>7, <1>8, <2>1
  <2>2. CASE m # l
    <3>1. login'[m] = login[m] /\ Carries(login[m])
      BY <1>4, <1>10, <2>2
    <3>2. Unstored(login[m].token)'
      BY <1>6, <3>1, GitFields DEF GitInv
    <3>3. ASSUME NEW n \in Logins \ {m}, Carries(login'[n]) PROVE login'[n].token # login'[m].token
      <4>1. CASE n = l
        BY <1>3, <1>4, <1>8, <3>1, <4>1
      <4>2. CASE n # l
        BY <1>4, <3>1, <3>3, <4>2 DEF GitInv
      <4> QED BY <4>1, <4>2
    <3> QED BY <3>2, <3>3
  <2> QED BY <2>1, <2>2
<1>11. G!LinkRefreshable'
  BY <1>0 DEF GitInv, G!LinkRefreshable
<1> QED BY <1>5, <1>9, <1>10, <1>11 DEF GitInv

LEMMA FaultCounts ==
  ASSUME Provider, GitInv, faults < MaxFaults
  PROVE  faults + 1 \in 0 .. MaxFaults
<1>1. faults \in 0 .. MaxFaults /\ MaxFaults \in Nat
  BY DEF GitInv, GitTyped, Provider
<1> QED BY <1>1

LEMMA DroppedTyped ==
  ASSUME GitInv, NEW a \in Asks, ask[a].step \in {"validate", "update"}
  PROVE  /\ dropped \subseteq G!Dropped(a) /\ G!Dropped(a) \subseteq 1 .. issued
         /\ Refreshes(ask[a]) => G!Dropped(a) # {}
<1>1. dropped \subseteq 1 .. issued /\ issued \in Nat
  BY GitFields DEF GitInv, GitTyped
<1>2. ASSUME Refreshes(ask[a]) PROVE ask[a].token \in 1 .. issued
  <2>1. ask[a].token \in Nat /\ ask[a].token <= issued /\ ask[a].token >= 1
    BY <1>2, GitFields DEF GitInv, Unstored
  <2> QED BY <1>1, <2>1
<1>3. Refreshes(ask[a]) <=> ask[a].token # ask[a].read
  BY DEF Refreshes
<1> QED BY <1>1, <1>2, <1>3 DEF G!Dropped

LEMMA CommandKeeps == ASSUME Provider, GitInv, NEW a \in Asks, G!Command(a) PROVE GitInv'
<1>0. dropped \subseteq 1 .. issued /\ faults \in 0 .. MaxFaults
  BY DEF GitInv, GitTyped
<1>1. CASE G!Ask(a)
  <2>1. ask[a].step = "ask" /\ UNCHANGED <<config, link_gitauths, issued, expired, revoked, refreshed, login, dropped, faults>>
    BY <1>1 DEF G!Ask, G!provider
  <2>2. ~Refreshes(ask[a])
    BY <2>1 DEF Refreshes
  <2>3. CASE G!NeedsLogin
    <3>1. ask' = [ask EXCEPT ![a] = G!At("open")]
      BY <1>1, <2>3 DEF G!Ask
    <3> QED BY <1>0, <2>1, <2>2, <3>1, AskLeaves
  <2>4. CASE ~G!NeedsLogin
    <3>1. ask' = [ask EXCEPT ![a] = [step |-> "source", read |-> link_gitauths, token |-> link_gitauths]]
      BY <1>1, <2>4 DEF G!Ask
    <3> QED BY <2>1, <2>2, <3>1, AskReads
  <2> QED BY <2>3, <2>4
<1>2. CASE G!TokenSource(a)
  <2>1. ask[a].step = "source" /\ UNCHANGED <<config, link_gitauths, login, dropped, faults>>
    BY <1>2 DEF G!TokenSource
  <2>2. ~Refreshes(ask[a])
    BY <2>1 DEF Refreshes
  <2>3. CASE ask' = [ask EXCEPT ![a].step = "validate"] /\ UNCHANGED G!provider
    <3>1. UNCHANGED <<issued, expired, revoked, refreshed>>
      BY <2>3 DEF G!provider
    <3> QED BY <2>1, <2>3, <3>1, AskSteps
  <2>4. CASE /\ ask[a].read \in expired \ (refreshed \union revoked) /\ issued < MaxTokens
             /\ issued' = issued + 1 /\ refreshed' = refreshed \union {ask[a].read}
             /\ ask' = [ask EXCEPT ![a].step = "validate", ![a].token = issued + 1]
             /\ UNCHANGED <<expired, revoked>>
    BY <2>1, <2>4, RefreshKeeps
  <2>5. CASE ask' = [ask EXCEPT ![a] = G!At("open")] /\ UNCHANGED G!provider
    <3>1. UNCHANGED <<issued, expired, revoked, refreshed>>
      BY <2>5 DEF G!provider
    <3> QED BY <1>0, <2>1, <2>2, <2>5, <3>1, AskLeaves
  <2> QED BY <1>2, <2>3, <2>4, <2>5 DEF G!TokenSource
<1>3. CASE G!Validate(a)
  <2>1. ask[a].step = "validate" /\ UNCHANGED <<config, link_gitauths, issued, expired, revoked, refreshed, login>>
    BY <1>3 DEF G!Validate, G!provider
  <2>2. CASE ask' = [ask EXCEPT ![a].step = "update"] /\ UNCHANGED <<dropped, faults>>
    BY <2>1, <2>2, AskSteps
  <2>3. CASE ask' = [ask EXCEPT ![a] = G!At("open")] /\ dropped' = G!Dropped(a) /\ UNCHANGED faults
    BY <1>0, <2>1, <2>3, DroppedTyped, AskLeaves
  <2>4. CASE /\ faults < MaxFaults /\ ask' = [ask EXCEPT ![a] = G!At("failed")]
             /\ dropped' = G!Dropped(a) /\ faults' = faults + 1
    BY <2>1, <2>4, DroppedTyped, FaultCounts, AskLeaves
  <2> QED BY <1>3, <2>2, <2>3, <2>4 DEF G!Validate
<1>4. CASE G!Update(a)
  <2>1. /\ ask[a].step = "update" /\ UNCHANGED <<config, issued, expired, revoked, refreshed, login, dropped, faults>>
        /\ ask' = [ask EXCEPT ![a] = [G!At("answered") EXCEPT !.token = ask[a].token]]
        /\ link_gitauths' = IF ask[a].token # ask[a].read THEN ask[a].token ELSE link_gitauths
    BY <1>4 DEF G!Update, G!provider, G!UpdatedLink
  <2>2. PICK row : row = [G!At("answered") EXCEPT !.token = ask[a].token]
    OBVIOUS
  <2>3. row \in AskRow /\ row.read = 0 /\ row.token = ask[a].token /\ row.step = "answered"
    BY <2>2, GitFields DEF G!At, AskRow
  <2>4. AskOK(row) /\ ~Refreshes(row)
    BY <2>3, GitFields DEF AskOK, Refreshes
  <2>5. ask' = [ask EXCEPT ![a] = row]
    BY <2>1, <2>2
  <2>6. CASE ask[a].token = ask[a].read
    <3>1. ~Refreshes(ask[a]) /\ link_gitauths' = link_gitauths
      BY <2>1, <2>6 DEF Refreshes
    <3> QED BY <1>0, <2>1, <2>3, <2>4, <2>5, <3>1, AskMoves
  <2>7. CASE ask[a].token # ask[a].read
    <3>1. link_gitauths' = ask[a].token /\ Refreshes(ask[a])
      BY <2>1, <2>7 DEF Refreshes
    <3>2. Unstored(ask[a].token)
      BY <3>1 DEF GitInv
    <3>3. ask'[a] = row /\ (\A b \in Asks \ {a} : ask'[b] = ask[b]) /\ ask' = [b \in Asks |-> ask'[b]]
      BY <2>5 DEF GitInv, GitTyped
    <3>4. link_gitauths' \in 0 .. issued'
      BY <2>1, <3>1, GitFields
    <3>5. GitTyped'
      <4>1. \A b \in Asks : AskOK(ask'[b])
        BY <2>4, <3>3 DEF GitInv, GitTyped
      <4>2. (\A b \in Asks : AskOK(ask[b]))' /\ (\A l \in Logins : LoginOK(login[l]))'
        BY <2>1, <4>1 DEF GitInv, GitTyped, AskOK, LoginOK
      <4> QED BY <2>1, <3>3, <3>4, <4>2 DEF GitInv, GitTyped
    <3>6. link_gitauths' \notin refreshed
      BY <3>1, <3>2 DEF Unstored
    <3>7. ASSUME NEW b \in Asks
          PROVE  /\ ask'[b].read \in {0, ask[b].read}
                 /\ Refreshes(ask'[b]) =>
                       Refreshes(ask[b]) /\ ask'[b].token = ask[b].token /\ ask[b].token # link_gitauths'
      <4>1. CASE b = a
        BY <2>3, <2>4, <3>3, <4>1
      <4>2. CASE b # a
        BY <3>1, <3>3, <4>2 DEF GitInv
      <4> QED BY <4>1, <4>2
    <3>8. ASSUME NEW l \in Logins
          PROVE  Carries(login'[l]) =>
                    Carries(login[l]) /\ login'[l].token = login[l].token /\ login[l].token # link_gitauths'
      BY <2>1, <3>1 DEF GitInv
    <3> QED BY <2>1, <3>5, <3>6, <3>7, <3>8, StoreKeeps, Zenon
  <2> QED BY <2>6, <2>7
<1>5. CASE G!Open(a)
  <2>1. ask[a].step = "open" /\ ask' = [ask EXCEPT ![a] = G!At("listen")]
        /\ UNCHANGED <<config, link_gitauths, issued, expired, revoked, refreshed, login, dropped, faults>>
    BY <1>5 DEF G!Open, G!provider
  <2>2. ~Refreshes(ask[a])
    BY <2>1 DEF Refreshes
  <2> QED BY <1>0, <2>1, <2>2, AskLeaves
<1>6. CASE G!Wake(a)
  <2>1. ask[a].step = "listen" /\ ask' = [ask EXCEPT ![a] = [step |-> "listenValidate", read |-> link_gitauths, token |-> link_gitauths]]
        /\ UNCHANGED <<config, link_gitauths, issued, expired, revoked, refreshed, login, dropped, faults>>
    BY <1>6 DEF G!Wake, G!Ticked, G!provider
  <2>2. ~Refreshes(ask[a])
    BY <2>1 DEF Refreshes
  <2> QED BY <2>1, <2>2, AskReads
<1>7. CASE G!ListenValidate(a)
  <2>1. ask[a].step = "listenValidate" /\ UNCHANGED <<config, link_gitauths, issued, expired, revoked, refreshed, login, dropped>>
    BY <1>7 DEF G!ListenValidate, G!provider
  <2>2. ~Refreshes(ask[a])
    BY <2>1 DEF Refreshes
  <2>3. CASE ask' = [ask EXCEPT ![a].step = "answered"] /\ UNCHANGED faults
    BY <2>1, <2>2, <2>3, AskSteps
  <2>4. CASE ask' = [ask EXCEPT ![a] = G!At("listen")] /\ UNCHANGED faults
    BY <1>0, <2>1, <2>2, <2>4, AskLeaves
  <2>5. CASE faults < MaxFaults /\ ask' = [ask EXCEPT ![a] = G!At("listen")] /\ faults' = faults + 1
    BY <1>0, <2>1, <2>2, <2>5, FaultCounts, AskLeaves
  <2> QED BY <1>7, <2>3, <2>4, <2>5 DEF G!ListenValidate
<1> QED BY <1>1, <1>2, <1>3, <1>4, <1>5, <1>6, <1>7 DEF G!Command

\* A login moves; what it has to store, if anything, stays with it.
LEMMA LoginMoves ==
  ASSUME GitInv, NEW l \in Logins, NEW row, LoginOK(row), login' = [login EXCEPT ![l] = row],
         Carries(row) => Carries(login[l]) /\ row.token = login[l].token,
         UNCHANGED <<config, issued, expired, revoked, refreshed, dropped>>, faults' \in 0 .. MaxFaults,
         \/ UNCHANGED <<link_gitauths, ask>>
         \/ /\ UNCHANGED link_gitauths
            /\ ask' = [a \in Asks |-> IF ask[a].step = "listen" /\ link_gitauths \notin expired
                                      THEN [step |-> "listenValidate", read |-> link_gitauths, token |-> link_gitauths] ELSE ask[a]]
         \/ link_gitauths' = login[l].token /\ Carries(login[l]) /\ ~Carries(row) /\ UNCHANGED ask
  PROVE  GitInv'
<1>1. login'[l] = row /\ (\A m \in Logins \ {l} : login'[m] = login[m]) /\ login' = [m \in Logins |-> login'[m]]
  BY DEF GitInv, GitTyped
<1>2. (\A m \in Logins : LoginOK(login[m]))'
  <2>1. \A m \in Logins : LoginOK(login'[m])
    BY <1>1 DEF GitInv, GitTyped
  <2> QED BY <2>1 DEF LoginOK
<1>3. ASSUME NEW m \in Logins
      PROVE  Carries(login'[m]) => Carries(login[m]) /\ login'[m].token = login[m].token
  <2>1. CASE m = l
    BY <1>1, <2>1
  <2>2. CASE m # l
    BY <1>1, <2>2
  <2> QED BY <2>1, <2>2
<1>4. link_gitauths' \in 0 .. issued'
  BY GitFields DEF GitInv, GitTyped
<1>5. PICK heard : heard = [step |-> "listenValidate", read |-> link_gitauths, token |-> link_gitauths]
  OBVIOUS
<1>6. heard \in AskRow /\ heard.read = link_gitauths /\ heard.token = link_gitauths /\ AskOK(heard) /\ ~Refreshes(heard)
  <2>1. heard \in AskRow /\ heard.read = link_gitauths /\ heard.token = link_gitauths /\ heard.step = "listenValidate"
    BY <1>5, GitFields DEF AskRow
  <2> QED BY <2>1, GitFields DEF AskOK, Refreshes
<1>7. ASSUME NEW a \in Asks PROVE ask'[a] = ask[a] \/ (ask'[a] = heard /\ ask[a].step = "listen" /\ link_gitauths' = link_gitauths)
  BY <1>5
<1>8. ask' = [a \in Asks |-> ask'[a]]
  BY DEF GitInv, GitTyped
<1>9. (\A a \in Asks : AskOK(ask[a]))'
  <2>1. \A a \in Asks : AskOK(ask'[a])
    BY <1>6, <1>7 DEF GitInv, GitTyped
  <2> QED BY <2>1 DEF AskOK
<1>10. GitTyped'
  BY <1>1, <1>2, <1>4, <1>8, <1>9 DEF GitInv, GitTyped
<1>11. ASSUME NEW b \in Asks
       PROVE  /\ ask'[b].read \in {0, link_gitauths, ask[b].read}
              /\ Refreshes(ask'[b]) => Refreshes(ask[b]) /\ ask'[b].token = ask[b].token
              /\ Refreshes(ask[b]) => Refreshes(ask'[b]) \/ dropped' # {}
  <2>1. CASE ask'[b] = ask[b]
    BY <2>1
  <2>2. CASE ask'[b] = heard /\ ask[b].step = "listen"
    BY <1>6, <2>2 DEF Refreshes
  <2> QED BY <1>7, <2>1, <2>2
<1>12. CASE UNCHANGED link_gitauths
  BY <1>3, <1>10, <1>11, <1>12, CalmKeeps, Zenon
<1>13. CASE link_gitauths' = login[l].token /\ Carries(login[l]) /\ ~Carries(row) /\ UNCHANGED ask
  <2>1. Unstored(login[l].token)
    BY <1>13 DEF GitInv
  <2>2. link_gitauths' \notin refreshed
    BY <1>13, <2>1 DEF Unstored
  <2>3. ASSUME NEW b \in Asks
        PROVE  /\ ask'[b].read \in {0, ask[b].read}
               /\ Refreshes(ask'[b]) =>
                     Refreshes(ask[b]) /\ ask'[b].token = ask[b].token /\ ask[b].token # link_gitauths'
    BY <1>13 DEF GitInv
  <2>4. ASSUME NEW m \in Logins
        PROVE  Carries(login'[m]) =>
                  Carries(login[m]) /\ login'[m].token = login[m].token /\ login[m].token # link_gitauths'
    <3>1. CASE m = l
      BY <1>1, <1>13, <3>1
    <3>2. CASE m # l
      BY <1>1, <1>13, <3>2 DEF GitInv
    <3> QED BY <3>1, <3>2
  <2> QED BY <1>10, <2>2, <2>3, <2>4, StoreKeeps, Zenon
<1> QED BY <1>12, <1>13

LEMMA CallbackKeeps == ASSUME Provider, GitInv, NEW l \in Logins, G!Callback(l) PROVE GitInv'
<1>0. faults \in 0 .. MaxFaults /\ login[l] \in LoginRow
  BY GitFields DEF GitInv, GitTyped
<1>1. ASSUME NEW step \in {"insert", "update", "publish"}, NEW row, row = [login[l] EXCEPT !.step = step]
      PROVE  LoginOK(row) /\ row.token = login[l].token /\ row.step = step
  <2>1. row \in LoginRow /\ row.read = login[l].read /\ row.token = login[l].token /\ row.step = step
    BY <1>0, <1>1 DEF LoginRow
  <2> QED BY <2>1, GitFields DEF LoginOK
<1>2. ASSUME NEW step \in {"failed", "done"} PROVE LoginOK(G!At(step)) /\ ~Carries(G!At(step))
  <2>1. G!At(step) \in LoginRow /\ G!At(step).read = 0 /\ G!At(step).token = 0 /\ G!At(step).step = step
    BY DEF G!At, LoginRow
  <2> QED BY <2>1, GitFields DEF LoginOK, Carries
<1>3. CASE G!Read(l)
  <2>1. /\ login[l].step = "read" /\ UNCHANGED <<config, link_gitauths, issued, expired, revoked, refreshed, ask, dropped, faults>>
        /\ login' = [login EXCEPT ![l].step = IF link_gitauths = G!NoLink THEN "insert" ELSE "update"]
    BY <1>3 DEF G!Read, G!provider
  <2>2. PICK step \in {"insert", "update"} : step = IF link_gitauths = G!NoLink THEN "insert" ELSE "update"
    OBVIOUS
  <2>3. PICK row : row = [login[l] EXCEPT !.step = step]
    OBVIOUS
  <2>4. LoginOK(row) /\ row.token = login[l].token
    BY <1>1, <2>3
  <2>5. login' = [login EXCEPT ![l] = row] /\ Carries(login[l])
    BY <2>1, <2>2, <2>3 DEF Carries
  <2> QED BY <1>0, <2>1, <2>4, <2>5, LoginMoves
<1>4. CASE G!Insert(l)
  <2>1. login[l].step = "insert" /\ UNCHANGED <<config, issued, expired, revoked, refreshed, ask, dropped, faults>>
    BY <1>4 DEF G!Insert, G!provider
  <2>2. CASE link_gitauths = G!NoLink
    <3>1. link_gitauths' = login[l].token /\ login' = [login EXCEPT ![l].step = "publish"]
      BY <1>4, <2>2 DEF G!Insert
    <3>2. PICK row : row = [login[l] EXCEPT !.step = "publish"]
      OBVIOUS
    <3>3. LoginOK(row) /\ row.step = "publish"
      BY <1>1, <3>2
    <3>4. login' = [login EXCEPT ![l] = row] /\ Carries(login[l]) /\ ~Carries(row)
      BY <2>1, <3>1, <3>2, <3>3 DEF Carries
    <3> QED BY <1>0, <2>1, <3>1, <3>3, <3>4, LoginMoves
  <2>3. CASE link_gitauths # G!NoLink
    <3>1. UNCHANGED link_gitauths /\ login' = [login EXCEPT ![l] = G!At("failed")]
      BY <1>4, <2>3 DEF G!Insert
    <3> QED BY <1>0, <1>2, <2>1, <3>1, LoginMoves
  <2> QED BY <2>2, <2>3
<1>5. CASE G!UpdateLogin(l)
  <2>1. /\ login[l].step = "update" /\ UNCHANGED <<config, issued, expired, revoked, refreshed, ask, dropped, faults>>
        /\ link_gitauths' = login[l].token /\ login' = [login EXCEPT ![l].step = "publish"]
    BY <1>5 DEF G!UpdateLogin, G!provider
  <2>2. PICK row : row = [login[l] EXCEPT !.step = "publish"]
    OBVIOUS
  <2>3. LoginOK(row) /\ row.step = "publish"
    BY <1>1, <2>2
  <2>4. login' = [login EXCEPT ![l] = row] /\ Carries(login[l]) /\ ~Carries(row)
    BY <2>1, <2>2, <2>3 DEF Carries
  <2> QED BY <1>0, <2>1, <2>3, <2>4, LoginMoves
<1>6. CASE G!Publish(l)
  <2>1. /\ UNCHANGED <<config, link_gitauths, issued, expired, revoked, refreshed, dropped>>
        /\ login' = [login EXCEPT ![l] = G!At("done")]
    BY <1>6 DEF G!Publish, G!provider
  <2>2. CASE /\ ask' = [a \in Asks |-> IF ask[a].step = "listen" /\ link_gitauths \notin expired
                                       THEN [step |-> "listenValidate", read |-> link_gitauths, token |-> link_gitauths] ELSE ask[a]]
             /\ UNCHANGED faults
    BY <1>0, <1>2, <2>1, <2>2, LoginMoves
  <2>3. CASE faults < MaxFaults /\ faults' = faults + 1 /\ UNCHANGED ask
    BY <1>2, <2>1, <2>3, FaultCounts, LoginMoves
  <2> QED BY <1>6, <2>2, <2>3 DEF G!Publish
<1> QED BY <1>3, <1>4, <1>5, <1>6 DEF G!Callback

\* The provider lets a token expire, or revokes it.
LEMMA ProviderKeeps ==
  ASSUME Provider, GitInv, UNCHANGED <<config, link_gitauths, issued, refreshed, ask, login, dropped>>,
         expired' \subseteq 1 .. issued, revoked' \subseteq 1 .. issued, faults' \in 0 .. MaxFaults
  PROVE  GitInv'
<1>1. (\A a \in Asks : AskOK(ask[a]))' /\ (\A l \in Logins : LoginOK(login[l]))'
  BY DEF GitInv, GitTyped, AskOK, LoginOK
<1>2. GitTyped'
  BY <1>1 DEF GitInv, GitTyped
<1> QED BY <1>2, CalmKeeps, Zenon

LEMMA NextGit == ASSUME Provider, GitInv, [G!Next]_(G!vars) PROVE GitInv'
<1>0. expired \subseteq 1 .. issued /\ revoked \subseteq 1 .. issued /\ faults \in 0 .. MaxFaults
  BY DEF GitInv, GitTyped
<1>1. ASSUME NEW t \in G!Tokens, G!Expire(t) PROVE GitInv'
  <2>1. expired' \subseteq 1 .. issued
    BY <1>0, <1>1 DEF G!Expire
  <2> QED BY <1>0, <1>1, <2>1, ProviderKeeps DEF G!Expire
<1>2. ASSUME NEW t \in G!Tokens, G!Revoke(t) PROVE GitInv'
  <2>1. revoked' \subseteq 1 .. issued
    BY <1>0, <1>2 DEF G!Revoke
  <2> QED BY <1>0, <1>2, <2>1, FaultCounts, ProviderKeeps DEF G!Revoke
<1>3. CASE UNCHANGED G!vars
  BY <1>0, <1>3, ProviderKeeps DEF G!vars
<1> QED BY <1>1, <1>2, <1>3, CommandKeeps, BeginKeeps, CallbackKeeps DEF G!Next

LEMMA GitSafe == ASSUME Provider, GitInv PROVE G!TypeOK /\ G!LinkRefreshable
<1>1. issued \in Nat /\ issued <= MaxTokens /\ MaxTokens \in Nat
  BY DEF GitInv, GitTyped, Provider
<1>2. \A n \in Nat : n <= issued => n \in 0 .. MaxTokens
  BY <1>1
<1>3. link_gitauths \in 0 .. MaxTokens /\ issued \in 0 .. MaxTokens
  BY <1>1, <1>2, GitFields
<1>4. ask \in [Asks -> [step : {"ask", "source", "validate", "update", "open", "listen",
                                "check", "listenValidate", "answered", "failed"},
                        read : 0 .. MaxTokens, token : 0 .. MaxTokens]]
  <2>1. ASSUME NEW a \in Asks
        PROVE  ask[a] \in [step : {"ask", "source", "validate", "update", "open", "listen",
                                   "check", "listenValidate", "answered", "failed"},
                           read : 0 .. MaxTokens, token : 0 .. MaxTokens]
    <3>1. ask[a].read \in 0 .. MaxTokens /\ ask[a].token \in 0 .. MaxTokens /\ ask[a] \in AskRow
      BY <1>2, GitFields
    <3> QED BY <3>1 DEF AskRow
  <2> QED BY <2>1 DEF GitInv, GitTyped
<1>5. login \in [Logins -> [step : {"idle", "read", "insert", "update", "publish", "done", "failed"},
                            read : 0 .. MaxTokens, token : 0 .. MaxTokens]]
  <2>1. ASSUME NEW l \in Logins
        PROVE  login[l] \in [step : {"idle", "read", "insert", "update", "publish", "done", "failed"},
                             read : 0 .. MaxTokens, token : 0 .. MaxTokens]
    <3>1. login[l].read \in 0 .. MaxTokens /\ login[l].token \in 0 .. MaxTokens /\ login[l] \in LoginRow
      BY <1>2, GitFields
    <3> QED BY <3>1 DEF LoginRow
  <2> QED BY <2>1 DEF GitInv, GitTyped
<1>6. G!TypeOK
  BY <1>3, <1>4, <1>5 DEF G!TypeOK, GitInv, GitTyped
<1> QED BY <1>6 DEF GitInv

(* workspaceAgentsGitAuth refreshes a token that it read before, and       *)
(* UpdateGitAuthLink and gitAuthCallback store theirs in any order: the    *)
(* token that is stored can be refreshed, or whoever refreshed it has the  *)
(* new one still to store, or failed to.                                   *)
THEOREM StoredTokenIsGood ==
  ASSUME Provider PROVE G!Spec => [](G!TypeOK /\ G!LinkRefreshable)
<1>1. G!Init => GitInv
  BY InitGit
<1>2. GitInv /\ [G!Next]_(G!vars) => GitInv'
  BY NextGit
<1>3. GitInv => G!TypeOK /\ G!LinkRefreshable
  BY GitSafe
<1> QED BY <1>1, <1>2, <1>3, PTL DEF G!Spec

-----------------------------------------------------------------------------
(* Reconnecting terminals.                                                 *)

\* What the proofs need to know of the constants.
Terminals == MaxPTYs \in Nat /\ MaxOutput \in Nat /\ BufferSize \in Nat

PTYRow ==
    [process : {"none", "running", "dead"}, waiter : {"none", "waiting", "done"},
     reader : {"none", "reading", "sending", "cleanup", "delete", "done"}, open : BOOLEAN,
     written : 0 .. MaxOutput, cleared : 0 .. MaxOutput, sent : 0 .. MaxOutput,
     activeConns : SUBSET Conns, timeout : BOOLEAN, canceled : BOOLEAN]
ConnRow ==
    [at : {"new", "create", "replay", "register", "serving", "ended"}, pty : 0 .. MaxPTYs,
     created : BOOLEAN, open : BOOLEAN, got : SUBSET (1 .. MaxOutput)]

\* The reader sends what it has read before it reads on.
PTYOK(p) ==
    /\ p \in PTYRow
    /\ p.reader = "reading" => p.sent = p.written
    /\ p.reader = "sending" => p.written = p.sent + 1

\* The handler has found its PTY.
Served(q) == q.at \in {"replay", "register", "serving"}

ConnOK(q) == q \in ConnRow /\ (Served(q) => q.pty \in P!PTYs)

\* Whoever started p is among its connections while its handler runs, has got what was sent
\* while it is open, and is closed by the cleanup.
CreatorOK(c, q, p) ==
    /\ Served(q) /\ c \in p.activeConns
    /\ q.open => 1 .. p.sent \subseteq q.got
    /\ p.reader \in {"delete", "done"} => ~q.open

TerminalInv ==
    /\ entry \in 0 .. MaxPTYs
    /\ pty = [i \in P!PTYs |-> pty[i]] /\ \A i \in P!PTYs : PTYOK(pty[i])
    /\ conn = [c \in Conns |-> conn[c]] /\ \A c \in Conns : ConnOK(conn[c])
    /\ \A c \in Conns : conn[c].created => CreatorOK(c, conn[c], pty[conn[c].pty])
    /\ P!NoDeadEntry

LEMMA UnusedOK == ASSUME Terminals PROVE PTYOK(P!Unused) /\ P!Unused.activeConns = {}
  BY DEF Terminals, P!Unused, PTYOK, PTYRow

LEMMA EndedOK == ASSUME Terminals PROVE ConnOK(P!Ended) /\ ~P!Ended.created
  BY DEF Terminals, P!Ended, ConnOK, ConnRow, Served

LEMMA InitTerminals == ASSUME Terminals, P!Init PROVE TerminalInv
<1>1. entry \in 0 .. MaxPTYs /\ entry = 0
  BY DEF P!Init, Terminals
<1>2. pty = [i \in P!PTYs |-> pty[i]] /\ \A i \in P!PTYs : PTYOK(pty[i])
  BY UnusedOK DEF P!Init
<1>3. PICK row : row = [at |-> "new", pty |-> 0, created |-> FALSE, open |-> TRUE, got |-> {}]
  OBVIOUS
<1>4. ConnOK(row) /\ ~row.created
  BY <1>3 DEF ConnOK, ConnRow, Served, Terminals
<1>5. conn = [c \in Conns |-> row]
  BY <1>3 DEF P!Init
<1>6. P!NoDeadEntry
  BY <1>1 DEF P!NoDeadEntry
<1> QED BY <1>1, <1>2, <1>4, <1>5, <1>6 DEF TerminalInv

\* A connection that has started a PTY may lose nothing but its being open.
Follows(q, r) ==
    /\ ConnOK(r)
    /\ r.created => /\ q.created /\ r.pty = q.pty /\ Served(r)
                    /\ q.got \subseteq r.got /\ (r.open => q.open)

\* The connections move, the PTYs stay.
LEMMA ConnsMove ==
  ASSUME Terminals, TerminalInv, UNCHANGED <<entry, pty>>, conn' = [c \in Conns |-> conn'[c]],
         ASSUME NEW c \in Conns PROVE Follows(conn[c], conn'[c])
  PROVE  TerminalInv'
<1>1. (\A c \in Conns : ConnOK(conn[c]))' /\ (\A i \in P!PTYs : PTYOK(pty[i]))'
  BY DEF Follows, TerminalInv
<1>2. ASSUME NEW c \in Conns, conn'[c].created PROVE CreatorOK(c, conn'[c], pty[conn'[c].pty])
  <2>1. conn[c].created /\ conn'[c].pty = conn[c].pty /\ Served(conn'[c])
    BY <1>2 DEF Follows
  <2>2. conn[c].got \subseteq conn'[c].got /\ (conn'[c].open => conn[c].open)
    BY <1>2 DEF Follows
  <2>3. CreatorOK(c, conn[c], pty[conn[c].pty])
    BY <2>1 DEF TerminalInv
  <2> QED BY <2>1, <2>2, <2>3 DEF CreatorOK
<1>3. (\A c \in Conns : conn[c].created => CreatorOK(c, conn[c], pty[conn[c].pty]))'
  BY <1>2
<1>4. P!NoDeadEntry'
  BY DEF TerminalInv, P!NoDeadEntry
<1> QED BY <1>1, <1>3, <1>4 DEF TerminalInv

\* One connection moves.
LEMMA ConnMoves ==
  ASSUME Terminals, TerminalInv, NEW c \in Conns, NEW row, Follows(conn[c], row),
         conn' = [conn EXCEPT ![c] = row], UNCHANGED <<entry, pty>>
  PROVE  TerminalInv'
<1>1. conn' = [d \in Conns |-> conn'[d]] /\ conn'[c] = row /\ \A d \in Conns \ {c} : conn'[d] = conn[d]
  BY DEF TerminalInv
<1>2. ASSUME NEW d \in Conns \ {c} PROVE Follows(conn[d], conn[d])
  BY DEF Follows, TerminalInv, CreatorOK
<1>3. ASSUME NEW d \in Conns PROVE Follows(conn[d], conn'[d])
  BY <1>1, <1>2
<1> QED BY <1>1, <1>3, ConnsMove, Zenon

\* A PTY moves, with any of its connections.
LEMMA PTYMoves ==
  ASSUME Terminals, TerminalInv, NEW i \in P!PTYs, NEW row, PTYOK(row), pty' = [pty EXCEPT ![i] = row],
         entry' \in {entry, 0}, entry' = i => row.reader # "done",
         conn' = [c \in Conns |-> conn'[c]],
         ASSUME NEW c \in Conns
         PROVE  /\ Follows(conn[c], conn'[c])
                /\ conn'[c].created /\ conn[c].pty = i => CreatorOK(c, conn'[c], row)
  PROVE  TerminalInv'
<1>1. pty' = [j \in P!PTYs |-> pty'[j]] /\ pty'[i] = row /\ \A j \in P!PTYs \ {i} : pty'[j] = pty[j]
  BY DEF TerminalInv
<1>2. \A j \in P!PTYs : PTYOK(pty'[j])
  BY <1>1 DEF TerminalInv
<1>3. ASSUME NEW c \in Conns, conn'[c].created PROVE CreatorOK(c, conn'[c], pty'[conn'[c].pty])
  <2>1. conn[c].created /\ conn'[c].pty = conn[c].pty /\ Served(conn'[c]) /\ ConnOK(conn'[c])
    BY <1>3 DEF Follows
  <2>2. conn[c].got \subseteq conn'[c].got /\ (conn'[c].open => conn[c].open)
    BY <1>3 DEF Follows
  <2>3. conn[c].pty \in P!PTYs
    BY <2>1 DEF ConnOK
  <2>4. CASE conn[c].pty = i
    BY <1>1, <1>3, <2>1, <2>4
  <2>5. CASE conn[c].pty # i
    <3>1. CreatorOK(c, conn[c], pty[conn[c].pty]) /\ pty'[conn'[c].pty] = pty[conn[c].pty]
      BY <1>1, <2>1, <2>3, <2>5 DEF TerminalInv
    <3> QED BY <2>1, <2>2, <3>1 DEF CreatorOK
  <2> QED BY <2>4, <2>5
<1>4. entry' \in 0 .. MaxPTYs
  BY DEF TerminalInv, Terminals
<1>5. P!NoDeadEntry'
  <2>1. CASE entry' = 0
    BY <2>1 DEF P!NoDeadEntry
  <2>2. CASE entry' = entry /\ entry # 0 /\ entry # i
    <3>1. entry \in P!PTYs
      BY <2>2 DEF TerminalInv, P!PTYs, Terminals
    <3> QED BY <1>1, <2>2, <3>1 DEF P!NoDeadEntry, TerminalInv
  <2>3. CASE entry' = i
    BY <1>1, <2>3 DEF P!NoDeadEntry
  <2> QED BY <2>1, <2>2, <2>3
<1>6. (\A c \in Conns : ConnOK(conn[c]))'
  BY DEF Follows
<1>7. (\A c \in Conns : conn[c].created => CreatorOK(c, conn[c], pty[conn[c].pty]))'
  BY <1>3
<1> QED BY <1>1, <1>2, <1>4, <1>5, <1>6, <1>7 DEF TerminalInv

LEMMA SameConn == ASSUME TerminalInv, NEW c \in Conns PROVE Follows(conn[c], conn[c])
  BY DEF Follows, TerminalInv, CreatorOK

\* A PTY moves alone.
LEMMA PTYAlone ==
  ASSUME Terminals, TerminalInv, NEW i \in P!PTYs, NEW row, PTYOK(row), pty' = [pty EXCEPT ![i] = row],
         entry' \in {entry, 0}, entry' = i => row.reader # "done", conn' = conn,
         row.activeConns = pty[i].activeConns, row.sent = pty[i].sent \/ row.sent = 0,
         row.reader \in {"delete", "done"} => pty[i].reader \in {"delete", "done"}
  PROVE  TerminalInv'
<1>1. ASSUME NEW c \in Conns, conn[c].created, conn[c].pty = i PROVE CreatorOK(c, conn[c], row)
  <2>1. CreatorOK(c, conn[c], pty[i])
    BY <1>1 DEF TerminalInv
  <2>2. 1 .. 0 = {}
    OBVIOUS
  <2>3. 1 .. row.sent \subseteq 1 .. pty[i].sent
    BY <2>2
  <2> QED BY <2>1, <2>3 DEF CreatorOK
<1>2. conn = [c \in Conns |-> conn[c]]
  BY DEF TerminalInv
<1> QED BY <1>1, <1>2, SameConn, PTYMoves, Zenon

\* A handler looks the map up, fails to start a process, replays the buffer or loses its user.
LEMMA LoadKeeps == ASSUME Terminals, TerminalInv, NEW c \in Conns, P!Load(c) PROVE TerminalInv'
<1>1. PICK row : row = [conn[c] EXCEPT !.at = IF entry = 0 THEN "create" ELSE "replay", !.pty = entry]
  OBVIOUS
<1>2. conn' = [conn EXCEPT ![c] = row] /\ UNCHANGED <<entry, pty>> /\ conn[c].at = "new"
  BY <1>1 DEF P!Load, TerminalInv
<1>3. ~conn[c].created /\ conn[c] \in ConnRow
  BY <1>2 DEF TerminalInv, CreatorOK, Served, ConnOK
<1>4. row \in ConnRow /\ ~row.created
  BY <1>1, <1>3 DEF ConnRow, TerminalInv
<1>5. ASSUME Served(row) PROVE row.pty \in P!PTYs
  BY <1>1, <1>3, <1>5 DEF Served, TerminalInv, P!PTYs, Terminals, ConnRow
<1>6. Follows(conn[c], row)
  BY <1>4, <1>5 DEF Follows, ConnOK
<1> QED BY <1>2, <1>6, ConnMoves

LEMMA CreateFailsKeeps == ASSUME Terminals, TerminalInv, NEW c \in Conns, P!CreateFails(c) PROVE TerminalInv'
<1>1. Follows(conn[c], P!Ended)
  BY EndedOK DEF Follows
<1> QED BY <1>1, ConnMoves DEF P!CreateFails

LEMMA ReplayKeeps == ASSUME Terminals, TerminalInv, NEW c \in Conns, P!Replay(c) PROVE TerminalInv'
<1>1. conn[c] \in ConnRow /\ conn[c].at = "replay" /\ conn[c].pty \in P!PTYs /\ UNCHANGED <<entry, pty>>
  BY DEF TerminalInv, ConnOK, Served, P!Replay
<1>2. CASE ~conn[c].open
  <2>1. conn' = [conn EXCEPT ![c] = P!Ended]
    BY <1>2 DEF P!Replay
  <2>2. Follows(conn[c], P!Ended)
    BY EndedOK DEF Follows
  <2> QED BY <1>1, <2>1, <2>2, ConnMoves
<1>3. CASE conn[c].open
  <2>1. PICK new : new = P!Buffered(pty[conn[c].pty])
    OBVIOUS
  <2>2. PICK row : row = [conn[c] EXCEPT !.at = "register", !.got = conn[c].got \union new]
    OBVIOUS
  <2>3. conn' = [conn EXCEPT ![c] = row]
    <3>1. conn' = [conn EXCEPT ![c] = [conn[c] EXCEPT !.at = "register",
                     !.got = conn[c].got \union P!Buffered(pty[conn[c].pty])]]
      BY <1>3, Zenon DEF P!Replay
    <3> QED BY <2>1, <2>2, <3>1, Zenon
  <2>4. new \subseteq 1 .. MaxOutput
    <3>1. pty[conn[c].pty] \in PTYRow
      BY <1>1 DEF TerminalInv, PTYOK
    <3>2. pty[conn[c].pty].cleared \in Nat /\ pty[conn[c].pty].written \in Nat
          /\ pty[conn[c].pty].written <= MaxOutput
      BY <3>1 DEF PTYRow, Terminals
    <3>3. new \subseteq pty[conn[c].pty].cleared + 1 .. pty[conn[c].pty].written
      BY <2>1 DEF P!Buffered
    <3> QED BY <3>2, <3>3 DEF Terminals
  <2>5. conn[c].got \union new \subseteq 1 .. MaxOutput
    BY <1>1, <2>4 DEF ConnRow
  <2>6. row \in ConnRow /\ row.pty = conn[c].pty /\ row.open = conn[c].open /\ row.created = conn[c].created
        /\ row.at = "register" /\ row.got = conn[c].got \union new
    BY <1>1, <2>2, <2>5 DEF ConnRow
  <2>7. Follows(conn[c], row)
    BY <1>1, <2>6 DEF Follows, ConnOK, Served
  <2> QED BY <1>1, <2>3, <2>7, ConnMoves
<1> QED BY <1>1, <1>2, <1>3 DEF ConnRow

LEMMA LeaveKeeps == ASSUME Terminals, TerminalInv, NEW c \in Conns, P!Leave(c) PROVE TerminalInv'
<1>1. PICK row : row = [conn[c] EXCEPT !.open = FALSE]
  OBVIOUS
<1>2. conn' = [conn EXCEPT ![c] = row] /\ UNCHANGED <<entry, pty>>
  BY <1>1 DEF P!Leave, TerminalInv
<1>3. conn[c] \in ConnRow /\ (Served(conn[c]) => conn[c].pty \in P!PTYs)
  BY DEF TerminalInv, ConnOK
<1>4. row \in ConnRow /\ row.pty = conn[c].pty /\ ~row.open /\ row.created = conn[c].created
      /\ row.at = conn[c].at /\ row.got = conn[c].got
  BY <1>1, <1>3 DEF ConnRow
<1>5. conn[c].created => Served(conn[c])
  BY DEF TerminalInv, CreatorOK
<1>6. Follows(conn[c], row)
  BY <1>3, <1>4, <1>5 DEF Follows, ConnOK, Served
<1> QED BY <1>2, <1>6, ConnMoves

\* It starts a PTY: nobody is connected to one that is not used.
LEMMA CreateKeeps == ASSUME Terminals, TerminalInv, NEW c \in Conns, P!Create(c) PROVE TerminalInv'
<1>1. PICK i \in P!PTYs :
        /\ pty[i] = P!Unused
        /\ pty' = [pty EXCEPT ![i] = [P!Unused EXCEPT
               !.process = "running", !.waiter = "waiting", !.reader = "reading",
               !.open = TRUE, !.activeConns = P!FirstConns(c), !.timeout = TRUE]]
        /\ entry' = i
        /\ conn' = [conn EXCEPT ![c].at = "replay", ![c].pty = i, ![c].created = TRUE]
  BY Zenon DEF P!Create
<1>2. PICK new : new = [P!Unused EXCEPT
               !.process = "running", !.waiter = "waiting", !.reader = "reading",
               !.open = TRUE, !.activeConns = P!FirstConns(c), !.timeout = TRUE]
  OBVIOUS
<1>3. PICK row : row = [conn[c] EXCEPT !.at = "replay", !.pty = i, !.created = TRUE]
  OBVIOUS
<1>4. /\ pty' = [j \in P!PTYs |-> pty'[j]] /\ pty'[i] = new
      /\ \A j \in P!PTYs \ {i} : pty'[j] = pty[j]
  BY <1>1, <1>2 DEF TerminalInv
<1>5. /\ conn' = [d \in Conns |-> conn'[d]] /\ conn'[c] = row
      /\ \A d \in Conns \ {c} : conn'[d] = conn[d]
  BY <1>1, <1>3 DEF TerminalInv
<1>6. /\ P!Unused \in PTYRow /\ P!Unused.activeConns = {}
      /\ P!Unused.sent = 0 /\ P!Unused.written = 0
  BY UnusedOK DEF PTYOK, P!Unused
<1>7. /\ new \in PTYRow /\ new.activeConns = {c} /\ new.sent = 0 /\ new.written = 0
      /\ new.reader = "reading"
  BY <1>2, <1>6 DEF PTYRow, P!FirstConns
<1>8. PTYOK(new)
  BY <1>7 DEF PTYOK
<1>9. conn[c] \in ConnRow /\ i \in 0 .. MaxPTYs
  BY DEF TerminalInv, ConnOK, P!PTYs, Terminals
<1>10. row \in ConnRow /\ row.at = "replay" /\ row.pty = i
  BY <1>3, <1>9 DEF ConnRow
<1>11. ConnOK(row) /\ Served(row)
  BY <1>10 DEF ConnOK, Served
<1>12. CreatorOK(c, row, new)
  <2>1. 1 .. 0 = {}
    OBVIOUS
  <2> QED BY <1>7, <1>11, <2>1 DEF CreatorOK
<1>13. ASSUME NEW d \in Conns, conn'[d].created PROVE CreatorOK(d, conn'[d], pty'[conn'[d].pty])
  <2>1. CASE d = c
    BY <1>4, <1>5, <1>10, <1>12, <2>1
  <2>2. CASE d # c
    <3>1. conn'[d] = conn[d] /\ CreatorOK(d, conn[d], pty[conn[d].pty])
      BY <1>5, <1>13, <2>2 DEF TerminalInv
    <3>2. conn[d].pty \in P!PTYs /\ conn[d].pty # i
      BY <1>1, <1>6, <3>1 DEF CreatorOK, TerminalInv, ConnOK
    <3> QED BY <1>4, <3>1, <3>2
  <2> QED BY <2>1, <2>2
<1>14. \A j \in P!PTYs : PTYOK(pty'[j])
  BY <1>4, <1>8 DEF TerminalInv
<1>15. \A d \in Conns : ConnOK(conn'[d])
  BY <1>5, <1>11 DEF TerminalInv
<1>16. P!NoDeadEntry'
  BY <1>1, <1>4, <1>7 DEF P!NoDeadEntry
<1>17. (\A d \in Conns : conn[d].created => CreatorOK(d, conn[d], pty[conn[d].pty]))'
  BY <1>13
<1> QED BY <1>1, <1>4, <1>5, <1>9, <1>14, <1>15, <1>16, <1>17 DEF TerminalInv

\* The handler joins the connections of its PTY, and leaves them.
LEMMA RegisterKeeps == ASSUME Terminals, TerminalInv, NEW c \in Conns, P!Register(c) PROVE TerminalInv'
<1>1. PICK i : i = conn[c].pty
  OBVIOUS
<1>2. conn[c] \in ConnRow /\ conn[c].at = "register" /\ i \in P!PTYs
  BY <1>1 DEF TerminalInv, ConnOK, Served, P!Register
<1>3. PICK row : row = [pty[i] EXCEPT !.activeConns = pty[i].activeConns \union {c}, !.timeout = TRUE]
  OBVIOUS
<1>4. PICK q : q = [conn[c] EXCEPT !.at = "serving"]
  OBVIOUS
<1>5. pty' = [pty EXCEPT ![i] = row]
  BY <1>1, <1>2, <1>3 DEF TerminalInv, P!Register
<1>6. /\ conn' = [d \in Conns |-> conn'[d]] /\ conn'[c] = q
      /\ \A d \in Conns \ {c} : conn'[d] = conn[d]
  BY <1>4 DEF TerminalInv, P!Register
<1>7. pty[i] \in PTYRow
  BY <1>2 DEF TerminalInv, PTYOK
<1>8. /\ row \in PTYRow /\ row.activeConns = pty[i].activeConns \union {c} /\ row.sent = pty[i].sent
      /\ row.written = pty[i].written /\ row.reader = pty[i].reader
  BY <1>3, <1>7 DEF PTYRow
<1>9. PTYOK(row)
  BY <1>2, <1>8 DEF TerminalInv, PTYOK
<1>10. /\ q \in ConnRow /\ q.at = "serving" /\ q.pty = i /\ q.got = conn[c].got
       /\ q.open = conn[c].open /\ q.created = conn[c].created
  BY <1>1, <1>2, <1>4 DEF ConnRow
<1>11. Follows(conn[c], q)
  BY <1>1, <1>2, <1>10 DEF Follows, ConnOK, Served
<1>12. entry' = entry /\ (entry' = i => row.reader # "done")
  <2>1. entry' = entry
    BY DEF P!Register
  <2>2. i # 0
    BY <1>2 DEF P!PTYs, Terminals
  <2> QED BY <1>8, <2>1, <2>2 DEF TerminalInv, P!NoDeadEntry
<1>13. ASSUME NEW d \in Conns
       PROVE  /\ Follows(conn[d], conn'[d])
              /\ conn'[d].created /\ conn[d].pty = i => CreatorOK(d, conn'[d], row)
  <2>1. Follows(conn[d], conn'[d])
    BY <1>6, <1>11, SameConn
  <2>2. ASSUME conn'[d].created, conn[d].pty = i PROVE CreatorOK(d, conn'[d], row)
    <3>1. conn[d].created /\ Served(conn'[d]) /\ conn[d].got \subseteq conn'[d].got
          /\ (conn'[d].open => conn[d].open)
      BY <2>1, <2>2 DEF Follows
    <3>2. CreatorOK(d, conn[d], pty[i])
      BY <2>2, <3>1 DEF TerminalInv
    <3> QED BY <1>8, <3>1, <3>2 DEF CreatorOK
  <2> QED BY <2>1, <2>2
<1> QED BY <1>2, <1>5, <1>6, <1>9, <1>12, <1>13, PTYMoves, Zenon

LEMMA EndServingKeeps == ASSUME Terminals, TerminalInv, NEW c \in Conns, P!EndServing(c) PROVE TerminalInv'
<1>1. PICK i : i = conn[c].pty
  OBVIOUS
<1>2. conn[c] \in ConnRow /\ conn[c].at = "serving" /\ i \in P!PTYs
  BY <1>1 DEF TerminalInv, ConnOK, Served, P!EndServing
<1>3. PICK row : row = [pty[i] EXCEPT !.activeConns = pty[i].activeConns \ {c}]
  OBVIOUS
<1>5. pty' = [pty EXCEPT ![i] = row]
  BY <1>1, <1>2, <1>3 DEF TerminalInv, P!EndServing
<1>6. /\ conn' = [d \in Conns |-> conn'[d]] /\ conn'[c] = P!Ended
      /\ \A d \in Conns \ {c} : conn'[d] = conn[d]
  BY DEF TerminalInv, P!EndServing
<1>7. pty[i] \in PTYRow
  BY <1>2 DEF TerminalInv, PTYOK
<1>8. /\ row \in PTYRow /\ row.activeConns = pty[i].activeConns \ {c} /\ row.sent = pty[i].sent
      /\ row.written = pty[i].written /\ row.reader = pty[i].reader
  BY <1>3, <1>7 DEF PTYRow
<1>9. PTYOK(row)
  BY <1>2, <1>8 DEF TerminalInv, PTYOK
<1>12. entry' = entry /\ (entry' = i => row.reader # "done")
  <2>1. entry' = entry
    BY DEF P!EndServing
  <2>2. i # 0
    BY <1>2 DEF P!PTYs, Terminals
  <2> QED BY <1>8, <2>1, <2>2 DEF TerminalInv, P!NoDeadEntry
<1>13. ASSUME NEW d \in Conns
       PROVE  /\ Follows(conn[d], conn'[d])
              /\ conn'[d].created /\ conn[d].pty = i => CreatorOK(d, conn'[d], row)
  <2>1. CASE d = c
    BY <1>6, <2>1, EndedOK DEF Follows
  <2>2. CASE d # c
    <3>1. conn'[d] = conn[d] /\ Follows(conn[d], conn[d])
      BY <1>6, <2>2, SameConn
    <3>2. ASSUME conn[d].created, conn[d].pty = i PROVE CreatorOK(d, conn[d], row)
      <4>1. CreatorOK(d, conn[d], pty[i])
        BY <3>2 DEF TerminalInv
      <4> QED BY <1>8, <2>2, <4>1 DEF CreatorOK
    <3> QED BY <3>1, <3>2
  <2> QED BY <2>1, <2>2
<1> QED BY <1>2, <1>5, <1>6, <1>9, <1>12, <1>13, PTYMoves, Zenon

\* The entry of a PTY that is not done stays alive.
LEMMA EntryAlive ==
  ASSUME Terminals, TerminalInv, NEW i \in P!PTYs, entry = i
  PROVE  pty[i].reader # "done"
<1>1. i # 0
  BY DEF P!PTYs, Terminals
<1> QED BY <1>1 DEF TerminalInv, P!NoDeadEntry

\* The goroutines of a PTY that touch no connection.
LEMMA QuietKeeps ==
  ASSUME Terminals, TerminalInv, NEW i \in P!PTYs,
         P!Output(i) \/ P!ReadFails(i) \/ P!Delete(i) \/ P!TimeoutFires(i) \/ P!Kill(i) \/ P!Exit(i)
  PROVE  TerminalInv'
<1>1. PTYOK(pty[i]) /\ pty[i] \in PTYRow
  BY DEF TerminalInv, PTYOK
<1>2. CASE P!Output(i)
  <2>1. PICK row : row = [pty[i] EXCEPT !.written = pty[i].written + 1, !.reader = "sending"]
    OBVIOUS
  <2>2. pty' = [pty EXCEPT ![i] = row] /\ conn' = conn /\ entry' = entry
    BY <1>2, <2>1 DEF P!Output, TerminalInv
  <2>3. pty[i].written \in 0 .. MaxOutput /\ pty[i].written < MaxOutput /\ pty[i].sent = pty[i].written
    BY <1>1, <1>2 DEF P!Output, PTYOK, PTYRow
  <2>4. pty[i].written + 1 \in 0 .. MaxOutput
    BY <2>3 DEF Terminals
  <2>5. /\ row \in PTYRow /\ row.activeConns = pty[i].activeConns /\ row.sent = pty[i].sent
        /\ row.written = pty[i].written + 1 /\ row.reader = "sending"
    BY <1>1, <2>1, <2>4 DEF PTYRow
  <2>6. PTYOK(row)
    BY <2>3, <2>5 DEF PTYOK
  <2> QED BY <2>2, <2>5, <2>6, PTYAlone
<1>3. CASE P!ReadFails(i)
  <2>1. PICK row : row = [pty[i] EXCEPT !.reader = "cleanup"]
    OBVIOUS
  <2>2. pty' = [pty EXCEPT ![i] = row] /\ conn' = conn /\ entry' = entry
    BY <1>3, <2>1 DEF P!ReadFails, TerminalInv
  <2>3. /\ row \in PTYRow /\ row.activeConns = pty[i].activeConns /\ row.sent = pty[i].sent
        /\ row.reader = "cleanup"
    BY <1>1, <2>1 DEF PTYRow
  <2>4. PTYOK(row)
    BY <2>3 DEF PTYOK
  <2> QED BY <2>2, <2>3, <2>4, PTYAlone
<1>4. CASE P!Delete(i)
  <2>1. PICK row : row = [P!Unused EXCEPT !.process = "dead", !.reader = "done",
                             !.waiter = pty[i].waiter, !.activeConns = pty[i].activeConns]
    OBVIOUS
  <2>2. pty' = [pty EXCEPT ![i] = row] /\ conn' = conn /\ entry' = 0 /\ pty[i].reader = "delete"
    BY <1>4, <2>1 DEF P!Delete, P!Remaining
  <2>3. P!Unused \in PTYRow /\ P!Unused.sent = 0
    BY UnusedOK DEF PTYOK, P!Unused
  <2>4. pty[i].waiter \in {"none", "waiting", "done"} /\ pty[i].activeConns \in SUBSET Conns
    BY <1>1 DEF PTYRow
  <2>5. /\ row \in PTYRow /\ row.activeConns = pty[i].activeConns /\ row.sent = 0
        /\ row.reader = "done"
    BY <2>1, <2>3, <2>4 DEF PTYRow
  <2>6. PTYOK(row)
    BY <2>5 DEF PTYOK
  <2>7. entry' # i
    BY <2>2 DEF P!PTYs, Terminals
  <2> QED BY <2>2, <2>5, <2>6, <2>7, PTYAlone
<1>5. CASE P!TimeoutFires(i)
  <2>1. PICK row : row = [pty[i] EXCEPT !.timeout = FALSE, !.canceled = TRUE]
    OBVIOUS
  <2>2. pty' = [pty EXCEPT ![i] = row] /\ conn' = conn /\ entry' = entry
    BY <1>5, <2>1 DEF P!TimeoutFires, TerminalInv
  <2>3. /\ row \in PTYRow /\ row.activeConns = pty[i].activeConns /\ row.sent = pty[i].sent
        /\ row.reader = pty[i].reader /\ row.written = pty[i].written
    BY <1>1, <2>1 DEF PTYRow
  <2>4. PTYOK(row)
    BY <1>1, <2>3 DEF PTYOK
  <2> QED BY <2>2, <2>3, <2>4, EntryAlive, PTYAlone
<1>6. CASE P!Kill(i) \/ P!Exit(i)
  <2>1. PICK row : row = [pty[i] EXCEPT !.process = "dead"]
    OBVIOUS
  <2>2. pty' = [pty EXCEPT ![i] = row] /\ conn' = conn /\ entry' = entry
    BY <1>6, <2>1 DEF P!Kill, P!Exit, TerminalInv
  <2>3. /\ row \in PTYRow /\ row.activeConns = pty[i].activeConns /\ row.sent = pty[i].sent
        /\ row.reader = pty[i].reader /\ row.written = pty[i].written
    BY <1>1, <2>1 DEF PTYRow
  <2>4. PTYOK(row)
    BY <1>1, <2>3 DEF PTYOK
  <2> QED BY <2>2, <2>3, <2>4, EntryAlive, PTYAlone
<1> QED BY <1>2, <1>3, <1>4, <1>5, <1>6

\* The reader sends what it has read to the connections of now, the creator among them.
LEMMA SendKeeps == ASSUME Terminals, TerminalInv, NEW i \in P!PTYs, P!Send(i) PROVE TerminalInv'
<1>1. PTYOK(pty[i]) /\ pty[i] \in PTYRow /\ pty[i].reader = "sending" /\ entry' = entry
  BY DEF TerminalInv, PTYOK, P!Send
<1>2. PICK row : row = [pty[i] EXCEPT !.sent = pty[i].written, !.reader = "reading"]
  OBVIOUS
<1>3. pty' = [pty EXCEPT ![i] = row]
  BY <1>2 DEF P!Send, TerminalInv
<1>4. /\ row \in PTYRow /\ row.activeConns = pty[i].activeConns /\ row.sent = pty[i].written
      /\ row.written = pty[i].written /\ row.reader = "reading"
  BY <1>1, <1>2 DEF PTYRow
<1>5. PTYOK(row)
  BY <1>4 DEF PTYOK
<1>6. /\ pty[i].written = pty[i].sent + 1 /\ pty[i].sent \in Nat
      /\ pty[i].written \in 1 .. MaxOutput
  BY <1>1 DEF PTYOK, PTYRow, Terminals
<1>7. 1 .. pty[i].written = (1 .. pty[i].sent) \union {pty[i].written}
  BY <1>6
<1>8. conn' = [c \in Conns |-> conn'[c]]
  BY DEF P!Send
<1>9. ASSUME NEW c \in Conns
      PROVE  /\ Follows(conn[c], conn'[c])
             /\ conn'[c].created /\ conn[c].pty = i => CreatorOK(c, conn'[c], row)
  <2>1. CASE c \in pty[i].activeConns /\ conn[c].open
    <3>1. conn'[c] = [conn[c] EXCEPT !.got = conn[c].got \union {pty[i].written}]
      BY <2>1 DEF P!Send
    <3>2. conn[c] \in ConnRow /\ Follows(conn[c], conn[c])
      BY SameConn DEF TerminalInv, ConnOK
    <3>3. /\ conn'[c] \in ConnRow /\ conn'[c].at = conn[c].at /\ conn'[c].pty = conn[c].pty
          /\ conn'[c].open = conn[c].open /\ conn'[c].created = conn[c].created
          /\ conn'[c].got = conn[c].got \union {pty[i].written}
      BY <1>6, <3>1, <3>2 DEF ConnRow
    <3>4. Follows(conn[c], conn'[c])
      BY <3>2, <3>3 DEF Follows, ConnOK, Served
    <3>5. ASSUME conn'[c].created, conn[c].pty = i PROVE CreatorOK(c, conn'[c], row)
      <4>1. CreatorOK(c, conn[c], pty[i])
        BY <3>3, <3>5 DEF TerminalInv
      <4>2. 1 .. row.sent \subseteq conn'[c].got
        BY <1>4, <1>7, <2>1, <3>3, <4>1 DEF CreatorOK
      <4> QED BY <1>4, <3>3, <4>1, <4>2 DEF CreatorOK, Served
    <3> QED BY <3>4, <3>5
  <2>2. CASE ~(c \in pty[i].activeConns /\ conn[c].open)
    <3>1. conn'[c] = conn[c] /\ Follows(conn[c], conn[c])
      BY <2>2, SameConn DEF P!Send
    <3>2. ASSUME conn[c].created, conn[c].pty = i PROVE CreatorOK(c, conn[c], row)
      <4>1. CreatorOK(c, conn[c], pty[i])
        BY <3>2 DEF TerminalInv
      <4>2. ~conn[c].open
        BY <2>2, <4>1 DEF CreatorOK
      <4> QED BY <1>4, <4>1, <4>2 DEF CreatorOK
    <3> QED BY <3>1, <3>2
  <2> QED BY <2>1, <2>2
<1> QED BY <1>1, <1>3, <1>4, <1>5, <1>8, <1>9, PTYMoves, Zenon

\* A PTY is closed, and its connections with it.
LEMMA CloseKeeps ==
  ASSUME Terminals, TerminalInv, NEW i \in P!PTYs, NEW row, PTYOK(row), pty' = [pty EXCEPT ![i] = row],
         UNCHANGED entry, conn' = P!Hung(pty[i].activeConns),
         row.activeConns = pty[i].activeConns, entry = i => row.reader # "done"
  PROVE  TerminalInv'
<1>1. conn' = [c \in Conns |-> conn'[c]]
  BY DEF P!Hung
<1>2. ASSUME NEW c \in Conns
      PROVE  /\ Follows(conn[c], conn'[c])
             /\ conn'[c].created /\ conn[c].pty = i => CreatorOK(c, conn'[c], row)
  <2>1. CASE c \in pty[i].activeConns
    <3>1. conn'[c] = [conn[c] EXCEPT !.open = FALSE]
      BY <2>1 DEF P!Hung
    <3>2. conn[c] \in ConnRow /\ Follows(conn[c], conn[c])
      BY SameConn DEF TerminalInv, ConnOK
    <3>3. /\ conn'[c] \in ConnRow /\ conn'[c].at = conn[c].at /\ conn'[c].pty = conn[c].pty
          /\ ~conn'[c].open /\ conn'[c].created = conn[c].created /\ conn'[c].got = conn[c].got
      BY <3>1, <3>2 DEF ConnRow
    <3>4. Follows(conn[c], conn'[c])
      BY <3>2, <3>3 DEF Follows, ConnOK, Served
    <3>5. ASSUME conn'[c].created PROVE CreatorOK(c, conn'[c], row)
      BY <2>1, <3>3, <3>4, <3>5 DEF CreatorOK, Follows
    <3> QED BY <3>4, <3>5
  <2>2. CASE c \notin pty[i].activeConns
    <3>1. conn'[c] = conn[c] /\ Follows(conn[c], conn[c])
      BY <2>2, SameConn DEF P!Hung
    <3>2. ~(conn[c].created /\ conn[c].pty = i)
      BY <2>2 DEF TerminalInv, CreatorOK
    <3> QED BY <3>1, <3>2
  <2> QED BY <2>1, <2>2
<1> QED BY <1>1, <1>2, PTYMoves, Zenon

LEMMA ClosesKeep ==
  ASSUME Terminals, TerminalInv, NEW i \in P!PTYs, P!Cleanup(i) \/ P!WaitReturns(i)
  PROVE  TerminalInv'
<1>1. PTYOK(pty[i]) /\ pty[i] \in PTYRow
  BY DEF TerminalInv, PTYOK
<1>2. PICK shut : shut = P!Closed(pty[i])
  OBVIOUS
<1>3. /\ shut \in PTYRow /\ shut.activeConns = pty[i].activeConns /\ shut.sent = pty[i].sent
      /\ shut.reader = pty[i].reader /\ shut.written = pty[i].written
  <2>1. shut = [pty[i] EXCEPT !.open = FALSE, !.cleared = pty[i].written, !.timeout = FALSE]
    BY <1>2 DEF P!Closed
  <2>2. pty[i].written \in 0 .. MaxOutput
    BY <1>1 DEF PTYRow
  <2> QED BY <1>1, <2>1, <2>2 DEF PTYRow
<1>4. CASE P!Cleanup(i)
  <2>1. PICK row : row = [shut EXCEPT !.process = "dead", !.reader = "delete"]
    OBVIOUS
  <2>2. pty' = [pty EXCEPT ![i] = row] /\ UNCHANGED entry /\ conn' = P!Hung(pty[i].activeConns)
    BY <1>2, <1>4, <2>1 DEF P!Cleanup
  <2>3. row \in PTYRow /\ row.activeConns = pty[i].activeConns /\ row.reader = "delete"
    BY <1>3, <2>1 DEF PTYRow
  <2>4. PTYOK(row)
    BY <2>3 DEF PTYOK
  <2> QED BY <2>2, <2>3, <2>4, CloseKeeps
<1>5. CASE P!WaitReturns(i)
  <2>1. PICK row : row = [shut EXCEPT !.waiter = "done"]
    OBVIOUS
  <2>2. pty' = [pty EXCEPT ![i] = row] /\ UNCHANGED entry /\ conn' = P!Hung(pty[i].activeConns)
    BY <1>2, <1>5, <2>1 DEF P!WaitReturns
  <2>3. /\ row \in PTYRow /\ row.activeConns = pty[i].activeConns /\ row.reader = pty[i].reader
        /\ row.sent = pty[i].sent /\ row.written = pty[i].written
    BY <1>3, <2>1 DEF PTYRow
  <2>4. PTYOK(row)
    BY <1>1, <2>3 DEF PTYOK
  <2> QED BY <2>2, <2>3, <2>4, EntryAlive, CloseKeeps
<1> QED BY <1>4, <1>5

\* The agent is closed: every PTY is canceled.
LEMMA ParentDoneKeeps == ASSUME Terminals, TerminalInv, P!ParentDone PROVE TerminalInv'
<1>1. /\ pty' = [i \in P!PTYs |-> pty'[i]] /\ conn' = [c \in Conns |-> conn'[c]] /\ entry' = entry
  BY DEF P!ParentDone
<1>2. ASSUME NEW i \in P!PTYs
      PROVE  /\ PTYOK(pty'[i]) /\ pty'[i].activeConns = pty[i].activeConns
             /\ pty'[i].sent = pty[i].sent /\ pty'[i].reader = pty[i].reader
  <2>1. PICK b \in BOOLEAN : b = (pty[i].process = "running")
    OBVIOUS
  <2>2. pty'[i] = [pty[i] EXCEPT !.canceled = b]
    BY <2>1 DEF P!ParentDone
  <2>3. PTYOK(pty[i]) /\ pty[i] \in PTYRow
    BY DEF TerminalInv, PTYOK
  <2>4. /\ pty'[i] \in PTYRow /\ pty'[i].activeConns = pty[i].activeConns
        /\ pty'[i].sent = pty[i].sent /\ pty'[i].reader = pty[i].reader
        /\ pty'[i].written = pty[i].written
    BY <2>2, <2>3 DEF PTYRow
  <2> QED BY <2>3, <2>4 DEF PTYOK
<1>3. ASSUME NEW c \in Conns PROVE conn'[c] \in {conn[c], P!Ended}
  BY DEF P!ParentDone
<1>4. ASSUME NEW c \in Conns PROVE ConnOK(conn'[c])
  BY <1>3, EndedOK DEF TerminalInv
<1>5. ASSUME NEW c \in Conns, conn'[c].created PROVE CreatorOK(c, conn'[c], pty'[conn'[c].pty])
  <2>1. conn'[c] = conn[c] /\ CreatorOK(c, conn[c], pty[conn[c].pty])
    BY <1>3, <1>5, EndedOK DEF TerminalInv
  <2>2. conn[c].pty \in P!PTYs
    BY <2>1 DEF CreatorOK, TerminalInv, ConnOK
  <2> QED BY <1>2, <2>1, <2>2 DEF CreatorOK
<1>6. P!NoDeadEntry'
  <2>1. entry # 0 => entry \in P!PTYs
    BY DEF TerminalInv, P!PTYs, Terminals
  <2> QED BY <1>1, <1>2, <2>1 DEF TerminalInv, P!NoDeadEntry
<1>7. (\A c \in Conns : conn[c].created => CreatorOK(c, conn[c], pty[conn[c].pty]))'
  BY <1>5
<1> QED BY <1>1, <1>2, <1>4, <1>6, <1>7 DEF TerminalInv

LEMMA NextTerminals == ASSUME Terminals, TerminalInv, [P!Next]_(P!vars) PROVE TerminalInv'
<1>1. CASE \E c \in Conns : P!Handler(c) \/ P!Leave(c)
  BY <1>1, LoadKeeps, CreateKeeps, CreateFailsKeeps, ReplayKeeps, RegisterKeeps, EndServingKeeps,
     LeaveKeeps DEF P!Handler
<1>2. CASE \E i \in P!PTYs : P!Goroutines(i) \/ P!Output(i) \/ P!Exit(i)
  BY <1>2, SendKeeps, ClosesKeep, QuietKeeps DEF P!Goroutines
<1>3. CASE P!ParentDone
  BY <1>3, ParentDoneKeeps
<1>4. CASE UNCHANGED P!vars
  <2>1. conn' = conn /\ pty' = pty /\ entry' = entry /\ conn' = [c \in Conns |-> conn'[c]]
    BY <1>4 DEF P!vars, TerminalInv
  <2>2. ASSUME NEW c \in Conns PROVE Follows(conn[c], conn'[c])
    BY <2>1, SameConn
  <2> QED BY <2>1, <2>2, ConnsMove, Zenon
<1> QED BY <1>1, <1>2, <1>3, <1>4 DEF P!Next

LEMMA TerminalSafe ==
  ASSUME Terminals, TerminalInv
  PROVE  P!TypeOK /\ P!NoDeadEntry /\ P!CreatorMissesNothing /\ P!CreatorIsClosed
<1>1. P!TypeOK
  <2>1. pty \in [P!PTYs -> PTYRow]
    BY DEF TerminalInv, PTYOK
  <2>2. conn \in [Conns -> ConnRow]
    BY DEF TerminalInv, ConnOK
  <2> QED BY <2>1, <2>2 DEF TerminalInv, P!TypeOK, PTYRow, ConnRow
<1>2. P!CreatorMissesNothing /\ P!CreatorIsClosed
  BY DEF TerminalInv, CreatorOK, P!CreatorMissesNothing, P!CreatorIsClosed
<1> QED BY <1>1, <1>2 DEF TerminalInv

\* For any number of connections and PTYs: the map of the agent never holds a PTY that has been
\* cleaned up; the connection that started a PTY gets every piece of output that was sent, what
\* came before its replay included; and it is closed once the PTY is gone
\* (agent.handleReconnectingPTY).
THEOREM CreatorIsServed ==
  ASSUME Terminals PROVE P!Spec => [](P!NoDeadEntry /\ P!CreatorMissesNothing /\ P!CreatorIsClosed)
<1>1. P!Init => TerminalInv
  BY InitTerminals
<1>2. TerminalInv /\ [P!Next]_(P!vars) => TerminalInv'
  BY NextTerminals
<1>3. TerminalInv => P!NoDeadEntry /\ P!CreatorMissesNothing /\ P!CreatorIsClosed
  BY TerminalSafe
<1> QED BY <1>1, <1>2, <1>3, PTL DEF P!Spec

-----------------------------------------------------------------------------
(* Templates, their versions and the workspaces made from them.            *)

\* What the proofs need to know of the constants.
Rows == MaxTemplates \in Nat /\ MaxVersions \in Nat /\ MaxDryRuns \in Nat /\ MaxWorkspaces \in Nat

SomeNames == TemplateNames \cup {"none"}
TemplateRow == [state : {"none", "live", "deleted"}, name : SomeNames, active : T!VersionIDs \cup {0}]
VersionRow == [there : BOOLEAN, template : T!TemplateIDs \cup {0}]
ImportRow == [there : BOOLEAN, worker : BOOLEAN, canceled : BOOLEAN, completed : BOOLEAN, failed : BOOLEAN]
WorkspaceRow ==
    [state : {"none", "live", "deleted"}, name : SomeNames, template : T!TemplateIDs \cup {0},
     version : T!VersionIDs \cup {0}]
RequestRow ==
    [op : {"idle", "post template", "delete template", "meta", "active", "cancel", "post workspace", "build"},
     id : T!TemplateIDs \cup T!JobIDs \cup T!WorkspaceIDs \cup {0}, version : T!VersionIDs \cup {0},
     name : SomeNames, worker : BOOLEAN]

\* The job is no longer pending or running, and stays so.
Settled(j) == j.canceled \/ (j.worker /\ j.completed)

\* A job that was touched exists; it is completed by its worker, or when it is canceled.
ImportOK(j) ==
    /\ j.canceled \/ j.worker \/ j.completed => j.there
    /\ j.completed => j.canceled \/ j.worker

\* Version v was made for template t or for a later one.
GoodActive(t, v, vs) == v \in T!VersionIDs /\ vs[v].there /\ vs[v].template >= t

\* What a handler has seen is still so, when it writes.
RequestOK(q, tm, vs, js) ==
    /\ q.op = "post template" => q.version \in T!VersionIDs /\ vs[q.version].there
    /\ q.op \in {"delete template", "meta", "active"} => q.id \in T!TemplateIDs /\ tm[q.id].state # "none"
    /\ q.op = "active" => GoodActive(q.id, q.version, vs)
    /\ q.op = "cancel" => q.id \in T!JobIDs /\ js[q.id].there
    /\ q.op \in {"post workspace", "build"} => q.version \in T!VersionIDs /\ Settled(js[q.version])
    /\ q.op = "post workspace" => q.id \in T!TemplateIDs
    /\ q.op = "build" => q.id \in T!WorkspaceIDs

\* Templates get their ids in order.
TemplatePart ==
    /\ template \in [T!TemplateIDs -> TemplateRow]
    /\ \A t, u \in T!TemplateIDs :
        t # u /\ template[t].state = "live" /\ template[u].state = "live" => template[t].name # template[u].name
    /\ \A t, u \in T!TemplateIDs : template[t].state # "none" /\ u < t => template[u].state # "none"
VersionPart ==
    /\ version \in [T!VersionIDs -> VersionRow]
    /\ \A v \in T!VersionIDs : version[v].template # 0 => version[v].there
ActivePart ==
    /\ \A t \in T!TemplateIDs : template[t].state # "none" => GoodActive(t, template[t].active, version)
    /\ \A v \in T!VersionIDs : version[v].template # 0 => template[version[v].template].state # "none"
JobPart ==
    /\ job_templates \in [T!JobIDs -> ImportRow] /\ \A j \in T!JobIDs : ImportOK(job_templates[j])
    /\ \A v \in T!VersionIDs : job_templates[v].there => version[v].there
DryRunPart ==
    /\ dryRun \in [T!DryRunIDs -> T!VersionIDs \cup {0}]
    /\ \A d \in T!DryRunIDs : job_templates[d].there => dryRun[d] \in T!VersionIDs /\ Settled(job_templates[dryRun[d]])
WorkspacePart ==
    /\ workspace \in [T!WorkspaceIDs -> WorkspaceRow]
    /\ \A w, x \in T!WorkspaceIDs :
        w # x /\ workspace[w].state = "live" /\ workspace[x].state = "live" => workspace[w].name # workspace[x].name
    /\ \A w \in T!WorkspaceIDs :
        workspace[w].state # "none" => workspace[w].version \in T!VersionIDs /\ Settled(job_templates[workspace[w].version])
RequestPart ==
    /\ req_templates \in [TemplateRequests -> RequestRow]
    /\ \A r \in TemplateRequests : RequestOK(req_templates[r], template, version, job_templates)

TemplatesInv ==
    /\ TemplatePart /\ VersionPart /\ ActivePart /\ JobPart /\ DryRunPart /\ WorkspacePart /\ RequestPart
    /\ values \subseteq T!Scopes

\* Rows stay, versions move to later templates only, settled jobs stay settled.
Onward ==
    /\ \A t \in T!TemplateIDs : template[t].state # "none" => template'[t].state # "none"
    /\ \A v \in T!VersionIDs : version[v].there => version'[v].there /\ version'[v].template >= version[v].template
    /\ \A j \in T!JobIDs : /\ job_templates[j].there => job_templates'[j].there
                           /\ Settled(job_templates[j]) => Settled(job_templates'[j])

\* A set of numbers has a least one.
LEMMA Least ==
  ASSUME NEW ids, ids \subseteq Nat, ids # {}
  PROVE  \E i \in ids : \A k \in ids : i <= k
<1> DEFINE less == OpToRel(<, Nat)
<1>1. IsWellFoundedOn(less, Nat)
  BY NatLessThanWellFounded, Zenon
<1>2. \A i, k \in Nat : <<k, i>> \in less <=> k < i
  BY DEF OpToRel
<1> HIDE DEF less
<1>3. PICK i \in ids : \A k \in ids : ~(<<k, i>> \in less)
  BY <1>1, WFMin
<1>4. ASSUME NEW k \in ids PROVE i <= k
  <2>1. ~(k < i)
    BY <1>2, <1>3
  <2> QED BY <2>1
<1> QED BY <1>4

LEMMA FreshIs ==
  ASSUME NEW ids, ids \subseteq Nat, NEW used, NEW i \in T!Fresh(ids, used)
  PROVE  i \in ids \ used /\ \A k \in ids \ used : i <= k
<1>1. ids \ used # {} /\ i = CHOOSE m \in ids \ used : \A k \in ids \ used : m <= k
  BY DEF T!Fresh
<1>2. \E m \in ids \ used : \A k \in ids \ used : m <= k
  BY <1>1, Least
<1> QED BY <1>1, <1>2

LEMMA SettledIs ==
  ASSUME NEW j \in ImportRow
  PROVE  T!Status(j) \notin {"pending", "running"} <=> Settled(j)
<1>0. /\ j.canceled \in BOOLEAN /\ j.completed \in BOOLEAN /\ j.worker \in BOOLEAN /\ j.failed \in BOOLEAN
  BY DEF ImportRow
<1>1. CASE j.canceled /\ ~j.completed
  BY <1>1 DEF T!Status, Settled
<1>2. CASE j.canceled /\ j.completed
  BY <1>2 DEF T!Status, Settled
<1>3. CASE ~j.canceled /\ ~j.worker
  BY <1>3 DEF T!Status, Settled
<1>4. CASE ~j.canceled /\ j.worker /\ ~j.completed
  BY <1>4 DEF T!Status, Settled
<1>5. CASE ~j.canceled /\ j.worker /\ j.completed
  BY <1>5 DEF T!Status, Settled
<1> QED BY <1>0, <1>1, <1>2, <1>3, <1>4, <1>5

LEMMA IDsAre ==
  ASSUME Rows
  PROVE  /\ T!TemplateIDs \subseteq Nat /\ T!VersionIDs \subseteq Nat /\ T!WorkspaceIDs \subseteq Nat
         /\ T!DryRunIDs \subseteq Nat /\ T!JobIDs = T!VersionIDs \cup T!DryRunIDs
         /\ T!VersionIDs \cap T!DryRunIDs = {} /\ 0 \notin T!TemplateIDs /\ 0 \notin T!VersionIDs
         /\ T!None = 0
  BY DEF Rows, T!TemplateIDs, T!VersionIDs, T!WorkspaceIDs, T!DryRunIDs, T!JobIDs, T!None

LEMMA InitTemplates == ASSUME Rows, T!Init PROVE TemplatesInv
<1>0. /\ T!NoJob \in ImportRow /\ ~Settled(T!NoJob) /\ ImportOK(T!NoJob) /\ ~T!NoJob.there
  BY DEF T!NoJob, ImportRow, Settled, ImportOK
<1>1. TemplatePart /\ VersionPart /\ ActivePart
  BY IDsAre DEF T!Init, TemplatePart, VersionPart, ActivePart, TemplateRow, VersionRow, SomeNames
<1>2. JobPart
  BY <1>0, IDsAre DEF T!Init, JobPart
<1>3. DryRunPart
  BY <1>0, IDsAre DEF T!Init, DryRunPart
<1>4. WorkspacePart
  BY IDsAre DEF T!Init, WorkspacePart, WorkspaceRow, SomeNames
<1>5. RequestPart
  BY IDsAre, Zenon DEF T!Init, RequestPart, RequestRow, T!Idle, RequestOK, SomeNames
<1>6. values \subseteq T!Scopes
  BY DEF T!Init
<1> QED BY <1>1, <1>2, <1>3, <1>4, <1>5, <1>6 DEF TemplatesInv

\* What a handler has seen stays true while the rows go onward.
LEMMA RequestAdvances ==
  ASSUME Rows, TemplatesInv, Onward, VersionPart', NEW q \in RequestRow, RequestOK(q, template, version, job_templates)
  PROVE  RequestOK(q, template', version', job_templates')
<1>1. ASSUME NEW t \in T!TemplateIDs, NEW v, GoodActive(t, v, version) PROVE GoodActive(t, v, version')
  <2>1. v \in T!VersionIDs /\ version'[v].there /\ version'[v].template >= version[v].template
        /\ version[v].template >= t
    BY <1>1 DEF GoodActive, Onward
  <2>2. version[v].template \in Nat /\ version'[v].template \in Nat /\ t \in Nat
    BY <2>1, IDsAre DEF TemplatesInv, VersionPart, VersionRow
  <2>3. version'[v].template >= t
    BY <2>1, <2>2
  <2> QED BY <2>1, <2>3 DEF GoodActive
<1>2. T!VersionIDs \subseteq T!JobIDs
  BY IDsAre
<1> QED BY <1>1, <1>2, Zenon DEF RequestOK, Onward

LEMMA ActivesAdvance ==
  ASSUME Rows, TemplatesInv, Onward, VersionPart', NEW t \in T!TemplateIDs, template[t].state # "none"
  PROVE  GoodActive(t, template[t].active, version')
<1>1. PICK v : v = template[t].active
  OBVIOUS
<1>2. GoodActive(t, v, version)
  BY <1>1 DEF TemplatesInv, ActivePart
<1>3. v \in T!VersionIDs /\ version'[v].there /\ version'[v].template >= version[v].template
      /\ version[v].template >= t
  BY <1>2 DEF GoodActive, Onward
<1>4. version[v].template \in Nat /\ version'[v].template \in Nat /\ t \in Nat
  BY <1>3, IDsAre DEF TemplatesInv, VersionPart, VersionRow
<1>5. version'[v].template >= t
  BY <1>3, <1>4
<1> QED BY <1>1, <1>3, <1>5 DEF GoodActive

\* The requests, when one moves on, and when none does.
LEMMA RequestMoves ==
  ASSUME Rows, TemplatesInv, Onward, VersionPart', NEW r \in TemplateRequests, NEW q \in RequestRow,
         RequestOK(q, template', version', job_templates'), req_templates' = [req_templates EXCEPT ![r] = q]
  PROVE  RequestPart'
<1>1. req_templates' \in [TemplateRequests -> RequestRow] /\ req_templates'[r] = q /\ \A x \in TemplateRequests \ {r} : req_templates'[x] = req_templates[x]
  BY DEF TemplatesInv, RequestPart
<1>2. ASSUME NEW x \in TemplateRequests PROVE RequestOK(req_templates[x], template', version', job_templates')
  BY RequestAdvances DEF TemplatesInv, RequestPart
<1>3. ASSUME NEW x \in TemplateRequests PROVE RequestOK(req_templates'[x], template', version', job_templates')
  BY <1>1, <1>2
<1> QED BY <1>1, <1>3 DEF RequestPart

LEMMA RequestsStay ==
  ASSUME Rows, TemplatesInv, Onward, VersionPart', UNCHANGED req_templates
  PROVE  RequestPart'
<1>1. ASSUME NEW x \in TemplateRequests PROVE RequestOK(req_templates[x], template', version', job_templates')
  BY RequestAdvances DEF TemplatesInv, RequestPart
<1> QED BY <1>1 DEF TemplatesInv, RequestPart

LEMMA IdleIs ==
  ASSUME NEW tm, NEW vs, NEW js PROVE T!Idle \in RequestRow /\ RequestOK(T!Idle, tm, vs, js)
<1>1. T!Idle.op = "idle"
  BY DEF T!Idle
<1>2. T!Idle \in RequestRow
  BY DEF T!Idle, RequestRow, SomeNames, T!None
<1> QED BY <1>1, <1>2 DEF RequestOK

LEMMA RequestEnds ==
  ASSUME Rows, TemplatesInv, Onward, VersionPart', NEW r \in TemplateRequests, T!End(r)
  PROVE  RequestPart'
<1>1. T!Idle \in RequestRow /\ RequestOK(T!Idle, template', version', job_templates')
  BY IdleIs
<1> QED BY <1>1, RequestMoves DEF T!End

\* Rows that stay go onward.
LEMMA RowsStay ==
  ASSUME Rows, TemplatesInv, UNCHANGED T!rows
  PROVE  /\ Onward /\ TemplatePart' /\ VersionPart' /\ ActivePart' /\ JobPart' /\ DryRunPart' /\ WorkspacePart'
         /\ (values \subseteq T!Scopes)'
<1>1. /\ template' = template /\ version' = version /\ job_templates' = job_templates /\ dryRun' = dryRun /\ values' = values
      /\ workspace' = workspace
  BY DEF T!rows
<1>2. /\ TemplatePart' /\ VersionPart' /\ ActivePart' /\ JobPart' /\ DryRunPart' /\ WorkspacePart'
      /\ (values \subseteq T!Scopes)'
  BY <1>1 DEF TemplatesInv, TemplatePart, VersionPart, ActivePart, JobPart, DryRunPart, WorkspacePart
<1>3. \A v \in T!VersionIDs : version[v].template \in Nat
  BY IDsAre DEF TemplatesInv, VersionPart, VersionRow
<1>4. Onward
  BY <1>1, <1>3 DEF Onward
<1> QED BY <1>2, <1>4

LEMMA RequestBegins ==
  ASSUME Rows, TemplatesInv, NEW r \in TemplateRequests, NEW q \in RequestRow, RequestOK(q, template, version, job_templates),
         T!Begin(r, q)
  PROVE  TemplatesInv'
<1>1. req_templates' = [req_templates EXCEPT ![r] = q] /\ UNCHANGED T!rows
  BY DEF T!Begin
<1>2. /\ Onward /\ TemplatePart' /\ VersionPart' /\ ActivePart' /\ JobPart' /\ DryRunPart' /\ WorkspacePart'
      /\ (values \subseteq T!Scopes)'
  BY <1>1, RowsStay
<1>3. RequestOK(q, template', version', job_templates')
  BY <1>2, RequestAdvances
<1>4. RequestPart'
  BY <1>1, <1>2, <1>3, RequestMoves
<1> QED BY <1>2, <1>4 DEF TemplatesInv

LEMMA RequestRefused ==
  ASSUME Rows, TemplatesInv, NEW r \in TemplateRequests, T!Refused(r)
  PROVE  TemplatesInv'
<1>1. T!End(r) /\ UNCHANGED T!rows
  BY DEF T!Refused
<1>2. /\ Onward /\ TemplatePart' /\ VersionPart' /\ ActivePart' /\ JobPart' /\ DryRunPart' /\ WorkspacePart'
      /\ (values \subseteq T!Scopes)'
  BY <1>1, RowsStay
<1> QED BY <1>1, <1>2, RequestEnds DEF TemplatesInv

\* A template row moves; versions may move to it.
LEMMA TemplateMoves ==
  ASSUME Rows, TemplatesInv, NEW t \in T!TemplateIDs, NEW row \in TemplateRow, row.state # "none",
         template' = [template EXCEPT ![t] = row],
         row.state = "live" =>
            \A u \in T!TemplateIDs \ {t} : template[u].state = "live" => template[u].name # row.name,
         \A u \in T!TemplateIDs : u < t => template[u].state # "none",
         GoodActive(t, row.active, version'), VersionPart',
         \A v \in T!VersionIDs : version'[v].template \in {t, version[v].template},
         \A v \in T!VersionIDs : version[v].there => version'[v].there /\ version'[v].template >= version[v].template,
         \A j \in T!JobIDs : /\ job_templates[j].there => job_templates'[j].there
                             /\ Settled(job_templates[j]) => Settled(job_templates'[j])
  PROVE  Onward /\ TemplatePart' /\ ActivePart'
<1>1. /\ template' \in [T!TemplateIDs -> TemplateRow] /\ template'[t] = row
      /\ \A u \in T!TemplateIDs \ {t} : template'[u] = template[u]
  BY DEF TemplatesInv, TemplatePart
<1>2. Onward
  BY <1>1 DEF Onward
<1>3. ASSUME NEW u \in T!TemplateIDs, NEW x \in T!TemplateIDs, u # x, template'[u].state = "live",
             template'[x].state = "live"
      PROVE  template'[u].name # template'[x].name
  <2>1. CASE u = t
    BY <1>1, <1>3, <2>1
  <2>2. CASE x = t
    BY <1>1, <1>3, <2>2
  <2>3. CASE u # t /\ x # t
    BY <1>1, <1>3, <2>3 DEF TemplatesInv, TemplatePart
  <2> QED BY <2>1, <2>2, <2>3
<1>4. ASSUME NEW u \in T!TemplateIDs, NEW x \in T!TemplateIDs, template'[u].state # "none", x < u
      PROVE  template'[x].state # "none"
  <2>1. CASE x = t
    BY <1>1, <2>1
  <2>2. CASE x # t /\ u = t
    BY <1>1, <1>4, <2>2
  <2>3. CASE x # t /\ u # t
    BY <1>1, <1>4, <2>3 DEF TemplatesInv, TemplatePart
  <2> QED BY <2>1, <2>2, <2>3
<1>5. TemplatePart'
  BY <1>1, <1>3, <1>4 DEF TemplatePart
<1>6. ASSUME NEW u \in T!TemplateIDs, template'[u].state # "none"
      PROVE  GoodActive(u, template'[u].active, version')
  <2>1. CASE u = t
    BY <1>1, <2>1
  <2>2. CASE u # t
    BY <1>1, <1>2, <1>6, <2>2, ActivesAdvance
  <2> QED BY <2>1, <2>2
<1>7. ASSUME NEW v \in T!VersionIDs, version'[v].template # 0
      PROVE  template'[version'[v].template].state # "none"
  <2>1. CASE version'[v].template = t
    BY <1>1, <2>1
  <2>2. CASE version'[v].template = version[v].template
    <3>1. version[v].template \in T!TemplateIDs /\ template[version[v].template].state # "none"
      BY <1>7, <2>2 DEF TemplatesInv, ActivePart, VersionPart, VersionRow
    <3> QED BY <1>2, <2>2, <3>1 DEF Onward
  <2> QED BY <2>1, <2>2
<1>8. ActivePart'
  BY <1>6, <1>7 DEF ActivePart
<1> QED BY <1>2, <1>5, <1>8

\* The id of a new template is above those of all others.
LEMMA NewTemplateIs ==
  ASSUME Rows, TemplatesInv, NEW t \in T!NewTemplate
  PROVE  /\ t \in T!TemplateIDs /\ template[t].state = "none"
         /\ \A u \in T!TemplateIDs : u < t => template[u].state # "none"
         /\ \A u \in T!TemplateIDs : template[u].state # "none" => u < t
         /\ \A v \in T!VersionIDs : version[v].template \in Nat /\ t >= version[v].template
<1>1. T!TemplateIDs \subseteq Nat
  BY IDsAre
<1>2. t \in T!TemplateIDs \ T!Known /\ \A k \in T!TemplateIDs \ T!Known : t <= k
  BY <1>1, FreshIs DEF T!NewTemplate
<1>3. t \in T!TemplateIDs /\ template[t].state = "none" /\ t \in Nat
  BY <1>1, <1>2 DEF T!Known
<1>4. ASSUME NEW u \in T!TemplateIDs, u < t PROVE template[u].state # "none"
  <2>1. u \in Nat /\ ~(t <= u)
    BY <1>1, <1>3, <1>4
  <2> QED BY <1>2, <2>1 DEF T!Known
<1>5. ASSUME NEW u \in T!TemplateIDs, template[u].state # "none" PROVE u < t
  <2>1. u # t /\ ~(t < u)
    BY <1>3, <1>5 DEF TemplatesInv, TemplatePart
  <2> QED BY <1>1, <1>3, <2>1
<1>6. ASSUME NEW v \in T!VersionIDs PROVE version[v].template \in Nat /\ t >= version[v].template
  <2>1. CASE version[v].template = 0
    BY <1>3, <2>1
  <2>2. CASE version[v].template # 0
    <3>1. version[v].template \in T!TemplateIDs /\ template[version[v].template].state # "none"
      BY <2>2 DEF TemplatesInv, VersionPart, VersionRow, ActivePart
    <3>2. version[v].template < t /\ version[v].template \in Nat
      BY <1>1, <1>5, <3>1
    <3> QED BY <1>3, <3>2
  <2> QED BY <2>1, <2>2
<1> QED BY <1>3, <1>4, <1>5, <1>6

LEMMA ValuesTyped ==
  ASSUME Rows, TemplatesInv
  PROVE  /\ values \cup {<<"template", T!None>>} \subseteq T!Scopes
         /\ \A t \in T!TemplateIDs : values \cup {<<"template", t>>} \subseteq T!Scopes
         /\ \A v \in T!VersionIDs : values \cup {<<"import_job", v>>} \subseteq T!Scopes
  BY DEF TemplatesInv, T!Scopes

\* The other parts, when jobs stay.
LEMMA JobsStay ==
  ASSUME Rows, TemplatesInv, UNCHANGED <<job_templates, dryRun>>,
         \A v \in T!VersionIDs : version[v].there => version'[v].there
  PROVE  /\ JobPart' /\ DryRunPart' /\ (UNCHANGED workspace => WorkspacePart')
         /\ \A j \in T!JobIDs : /\ job_templates[j].there => job_templates'[j].there
                                /\ Settled(job_templates[j]) => Settled(job_templates'[j])
  BY DEF TemplatesInv, JobPart, DryRunPart, WorkspacePart

LEMMA VersionsStay ==
  ASSUME Rows, TemplatesInv, UNCHANGED version
  PROVE  /\ VersionPart'
         /\ \A v \in T!VersionIDs : version'[v].template = version[v].template
         /\ \A v \in T!VersionIDs : version[v].there => version'[v].there /\ version'[v].template >= version[v].template
<1>1. \A v \in T!VersionIDs : version[v].template \in Nat
  BY IDsAre DEF TemplatesInv, VersionPart, VersionRow
<1> QED BY <1>1 DEF TemplatesInv, VersionPart

LEMMA PostTemplateKeeps ==
  ASSUME Rows, TemplatesInv, NEW r \in TemplateRequests, T!postTemplateByOrganization(r)
  PROVE  TemplatesInv'
<1>1. PICK valued \in BOOLEAN, t \in T!NewTemplate :
        IF T!NameFree(t, req_templates[r].name) /\ (valued => <<"template", T!None>> \notin values)
        THEN /\ template' = [template EXCEPT ![t] = [state |-> "live", name |-> req_templates[r].name, active |-> req_templates[r].version]]
             /\ version' = [version EXCEPT ![req_templates[r].version].template = t]
             /\ values' = IF valued THEN values \cup {<<"template", T!None>>} ELSE values
             /\ T!End(r)
             /\ UNCHANGED <<job_templates, dryRun, workspace>>
        ELSE T!Refused(r)
  BY Zenon DEF T!postTemplateByOrganization
<1>2. CASE T!Refused(r)
  BY <1>2, RequestRefused
<1>3. CASE ~T!Refused(r)
  <2>1. PICK v : v = req_templates[r].version
    OBVIOUS
  <2>2. PICK row : row = [state |-> "live", name |-> req_templates[r].name, active |-> req_templates[r].version]
    OBVIOUS
  <2>3. /\ T!NameFree(t, req_templates[r].name) /\ template' = [template EXCEPT ![t] = row]
        /\ version' = [version EXCEPT ![v].template = t]
        /\ values' = IF valued THEN values \cup {<<"template", T!None>>} ELSE values
        /\ T!End(r) /\ UNCHANGED <<job_templates, dryRun, workspace>>
    BY <1>1, <1>3, <2>1, <2>2, Zenon
  <2>4. /\ t \in T!TemplateIDs /\ template[t].state = "none"
        /\ \A u \in T!TemplateIDs : u < t => template[u].state # "none"
        /\ \A x \in T!VersionIDs : version[x].template \in Nat /\ t >= version[x].template
    BY NewTemplateIs
  <2>5. req_templates[r] \in RequestRow /\ v \in T!VersionIDs /\ version[v].there
    BY <2>1, Zenon DEF TemplatesInv, RequestPart, RequestOK, T!postTemplateByOrganization
  <2>6. row \in TemplateRow /\ row.state = "live" /\ row.name = req_templates[r].name /\ row.active = v
    BY <2>1, <2>2, <2>5, Zenon DEF TemplateRow, RequestRow
  <2>7. /\ version' \in [T!VersionIDs -> VersionRow]
        /\ version'[v].there /\ version'[v].template = t
        /\ \A x \in T!VersionIDs \ {v} : version'[x] = version[x]
    BY <2>3, <2>4, <2>5 DEF TemplatesInv, VersionPart, VersionRow
  <2>8. VersionPart'
    BY <2>7 DEF TemplatesInv, VersionPart
  <2>9. t \in Nat /\ t >= t
    BY <2>4, IDsAre
  <2>10. GoodActive(t, row.active, version')
    BY <2>5, <2>6, <2>7, <2>9 DEF GoodActive
  <2>11. \A x \in T!VersionIDs : version[x].there => version'[x].there /\ version'[x].template >= version[x].template
    <3>1. ASSUME NEW x \in T!VersionIDs PROVE version[x].template >= version[x].template
      BY <2>4
    <3> QED BY <2>4, <2>7, <3>1
  <2>12. \A x \in T!VersionIDs : version'[x].template \in {t, version[x].template}
    BY <2>7
  <2>13. \A u \in T!TemplateIDs \ {t} : template[u].state = "live" => template[u].name # row.name
    BY <2>3, <2>6 DEF T!NameFree, T!Live
  <2>14. /\ JobPart' /\ DryRunPart' /\ WorkspacePart'
         /\ \A j \in T!JobIDs : /\ job_templates[j].there => job_templates'[j].there
                                /\ Settled(job_templates[j]) => Settled(job_templates'[j])
    BY <2>3, <2>11, JobsStay
  <2>15. Onward /\ TemplatePart' /\ ActivePart'
    BY <2>3, <2>4, <2>6, <2>8, <2>10, <2>11, <2>12, <2>13, <2>14, TemplateMoves
  <2>16. RequestPart'
    BY <2>3, <2>8, <2>15, RequestEnds
  <2>17. (values \subseteq T!Scopes)'
    BY <2>3, ValuesTyped DEF TemplatesInv
  <2> QED BY <2>8, <2>14, <2>15, <2>16, <2>17 DEF TemplatesInv
<1> QED BY <1>2, <1>3

\* A handler writes a template that it has seen.
LEMMA PatchTemplateKeeps ==
  ASSUME Rows, TemplatesInv, NEW r \in TemplateRequests, NEW t \in T!TemplateIDs, NEW row \in TemplateRow,
         template[t].state # "none", row.state # "none", template' = [template EXCEPT ![t] = row],
         row.state = "live" =>
            \A u \in T!TemplateIDs \ {t} : template[u].state = "live" => template[u].name # row.name,
         GoodActive(t, row.active, version), T!End(r), UNCHANGED <<version, job_templates, dryRun, values, workspace>>
  PROVE  TemplatesInv'
<1>1. /\ VersionPart'
      /\ \A v \in T!VersionIDs : version'[v].template \in {t, version[v].template}
      /\ \A v \in T!VersionIDs : version[v].there => version'[v].there /\ version'[v].template >= version[v].template
  BY VersionsStay
<1>2. /\ JobPart' /\ DryRunPart' /\ WorkspacePart'
      /\ \A j \in T!JobIDs : /\ job_templates[j].there => job_templates'[j].there
                             /\ Settled(job_templates[j]) => Settled(job_templates'[j])
  BY <1>1, JobsStay
<1>3. GoodActive(t, row.active, version')
  BY DEF GoodActive
<1>4. \A u \in T!TemplateIDs : u < t => template[u].state # "none"
  BY DEF TemplatesInv, TemplatePart
<1>5. Onward /\ TemplatePart' /\ ActivePart'
  BY <1>1, <1>2, <1>3, <1>4, TemplateMoves
<1>6. RequestPart'
  BY <1>1, <1>5, RequestEnds
<1> QED BY <1>1, <1>2, <1>5, <1>6 DEF TemplatesInv

LEMMA TemplateHandlers ==
  ASSUME Rows, TemplatesInv, NEW r \in TemplateRequests,
         T!deleteTemplate(r) \/ T!patchTemplateMeta(r) \/ T!patchActiveTemplateVersion(r)
  PROVE  TemplatesInv'
<1>1. PICK t : t = req_templates[r].id
  OBVIOUS
<1>2. req_templates[r] \in RequestRow /\ RequestOK(req_templates[r], template, version, job_templates)
  BY DEF TemplatesInv, RequestPart
<1>3. t \in T!TemplateIDs /\ template[t].state # "none"
  BY <1>1, <1>2, Zenon DEF RequestOK, T!deleteTemplate, T!patchTemplateMeta, T!patchActiveTemplateVersion
<1>4. template[t] \in TemplateRow /\ GoodActive(t, template[t].active, version)
  BY <1>3 DEF TemplatesInv, TemplatePart, ActivePart
<1>5. \A u \in T!TemplateIDs \ {t} : template[t].state = "live" /\ template[u].state = "live"
          => template[u].name # template[t].name
  BY <1>3 DEF TemplatesInv, TemplatePart
<1>6. CASE T!deleteTemplate(r)
  <2>1. PICK row : row = [template[t] EXCEPT !.state = "deleted"]
    OBVIOUS
  <2>2. row \in TemplateRow /\ row.state = "deleted" /\ row.active = template[t].active
    BY <1>4, <2>1 DEF TemplateRow
  <2>3. /\ template' = [template EXCEPT ![t] = row] /\ T!End(r)
        /\ UNCHANGED <<version, job_templates, dryRun, values, workspace>>
    BY <1>1, <1>6, <2>1, Zenon DEF T!deleteTemplate, TemplatesInv, TemplatePart
  <2> QED BY <1>3, <1>4, <2>2, <2>3, PatchTemplateKeeps
<1>7. CASE T!patchTemplateMeta(r)
  <2>1. CASE T!Refused(r)
    BY <2>1, RequestRefused
  <2>2. CASE ~T!Refused(r)
    <3>1. PICK row : row = [template[t] EXCEPT !.name = req_templates[r].name]
      OBVIOUS
    <3>2. /\ row \in TemplateRow /\ row.state = template[t].state /\ row.active = template[t].active
          /\ row.name = req_templates[r].name
      BY <1>2, <1>4, <3>1, Zenon DEF TemplateRow, RequestRow
    <3>3. /\ template' = [template EXCEPT ![t] = row] /\ T!End(r)
          /\ UNCHANGED <<version, job_templates, dryRun, values, workspace>>
          /\ (t \in T!Live => T!NameFree(t, req_templates[r].name))
      BY <1>1, <1>7, <2>2, <3>1 DEF T!patchTemplateMeta, TemplatesInv, TemplatePart
    <3>4. row.state = "live" =>
            \A u \in T!TemplateIDs \ {t} : template[u].state = "live" => template[u].name # row.name
      BY <1>3, <3>2, <3>3 DEF T!NameFree, T!Live
    <3> QED BY <1>3, <1>4, <3>2, <3>3, <3>4, PatchTemplateKeeps
  <2> QED BY <2>1, <2>2
<1>8. CASE T!patchActiveTemplateVersion(r)
  <2>1. PICK row : row = [template[t] EXCEPT !.active = req_templates[r].version]
    OBVIOUS
  <2>2. /\ row \in TemplateRow /\ row.state = template[t].state /\ row.name = template[t].name
        /\ row.active = req_templates[r].version
    BY <1>2, <1>4, <2>1, Zenon DEF TemplateRow, RequestRow
  <2>3. /\ template' = [template EXCEPT ![t] = row] /\ T!End(r)
        /\ UNCHANGED <<version, job_templates, dryRun, values, workspace>>
    BY <1>1, <1>8, <2>1 DEF T!patchActiveTemplateVersion, TemplatesInv, TemplatePart
  <2>4. GoodActive(t, row.active, version)
    BY <1>1, <1>2, <1>8, <2>2 DEF RequestOK, T!patchActiveTemplateVersion
  <2>5. row.state = "live" =>
            \A u \in T!TemplateIDs \ {t} : template[u].state = "live" => template[u].name # row.name
    BY <1>5, <2>2
  <2> QED BY <1>3, <2>2, <2>3, <2>4, <2>5, PatchTemplateKeeps
<1> QED BY <1>6, <1>7, <1>8

\* Handlers look before they write.
LEMMA LooksKeep ==
  ASSUME Rows, TemplatesInv, NEW r \in TemplateRequests,
         \/ \E n \in TemplateNames, v \in T!VersionIDs : T!CheckTemplate(r, n, v)
         \/ \E t \in T!TemplateIDs : T!CheckUnused(r, t)
         \/ \E t \in T!TemplateIDs, n \in TemplateNames : T!ReadMeta(r, t, n)
         \/ \E t \in T!TemplateIDs, v \in T!VersionIDs : T!CheckActive(r, t, v)
         \/ \E j \in T!JobIDs : T!CheckCancel(r, j)
  PROVE  TemplatesInv'
<1>0. T!Idle \in RequestRow
  BY IdleIs
<1>1. ASSUME NEW n \in TemplateNames, NEW v \in T!VersionIDs, T!CheckTemplate(r, n, v) PROVE TemplatesInv'
  <2>1. PICK q : q = [T!Idle EXCEPT !.op = "post template", !.name = n, !.version = v]
    OBVIOUS
  <2>2. q \in RequestRow /\ q.op = "post template" /\ q.version = v
    BY <1>0, <2>1, Zenon DEF RequestRow, SomeNames
  <2>3. T!Begin(r, q) /\ version[v].there
    BY <1>1, <2>1, Zenon DEF T!CheckTemplate
  <2> QED BY <2>2, <2>3, RequestBegins, Zenon DEF RequestOK
<1>2. ASSUME NEW t \in T!TemplateIDs, T!CheckUnused(r, t) PROVE TemplatesInv'
  <2>1. PICK q : q = [T!Idle EXCEPT !.op = "delete template", !.id = t]
    OBVIOUS
  <2>2. q \in RequestRow /\ q.op = "delete template" /\ q.id = t
    BY <1>0, <2>1, Zenon DEF RequestRow
  <2>3. T!Begin(r, q) /\ template[t].state # "none"
    BY <1>2, <2>1, Zenon DEF T!CheckUnused, T!Known
  <2> QED BY <2>2, <2>3, RequestBegins, Zenon DEF RequestOK
<1>3. ASSUME NEW t \in T!TemplateIDs, NEW n \in TemplateNames, T!ReadMeta(r, t, n) PROVE TemplatesInv'
  <2>1. PICK q : q = [T!Idle EXCEPT !.op = "meta", !.id = t, !.name = n]
    OBVIOUS
  <2>2. q \in RequestRow /\ q.op = "meta" /\ q.id = t
    BY <1>0, <2>1, Zenon DEF RequestRow, SomeNames
  <2>3. T!Begin(r, q) /\ template[t].state # "none"
    BY <1>3, <2>1, Zenon DEF T!ReadMeta, T!Known
  <2> QED BY <2>2, <2>3, RequestBegins, Zenon DEF RequestOK
<1>4. ASSUME NEW t \in T!TemplateIDs, NEW v \in T!VersionIDs, T!CheckActive(r, t, v) PROVE TemplatesInv'
  <2>1. PICK q : q = [T!Idle EXCEPT !.op = "active", !.id = t, !.version = v]
    OBVIOUS
  <2>2. q \in RequestRow /\ q.op = "active" /\ q.id = t /\ q.version = v
    BY <1>0, <2>1, Zenon DEF RequestRow
  <2>3. T!Begin(r, q) /\ template[t].state # "none" /\ version[v].template = t
    BY <1>4, <2>1, Zenon DEF T!CheckActive, T!Known, T!Belongs
  <2>4. t \in Nat /\ t # 0
    BY IDsAre
  <2>5. GoodActive(t, v, version)
    BY <2>3, <2>4 DEF GoodActive, TemplatesInv, VersionPart
  <2> QED BY <2>2, <2>3, <2>5, RequestBegins, Zenon DEF RequestOK
<1>5. ASSUME NEW j \in T!JobIDs, T!CheckCancel(r, j) PROVE TemplatesInv'
  <2>1. PICK q : q = [T!Idle EXCEPT !.op = "cancel", !.id = j, !.worker = job_templates[j].worker]
    OBVIOUS
  <2>2. job_templates[j].worker \in BOOLEAN
    BY DEF TemplatesInv, JobPart, ImportRow
  <2>3. q \in RequestRow /\ q.op = "cancel" /\ q.id = j
    BY <1>0, <2>1, <2>2, Zenon DEF RequestRow
  <2>4. T!Begin(r, q) /\ job_templates[j].there
    BY <1>5, <2>1, Zenon DEF T!CheckCancel
  <2> QED BY <2>3, <2>4, RequestBegins, Zenon DEF RequestOK
<1> QED BY <1>1, <1>2, <1>3, <1>4, <1>5

\* A job moves.
LEMMA ImportMoves ==
  ASSUME Rows, TemplatesInv, NEW j \in T!JobIDs, NEW row \in ImportRow, ImportOK(row),
         job_templates' = [job_templates EXCEPT ![j] = row], job_templates[j].there => row.there, Settled(job_templates[j]) => Settled(row),
         \A v \in T!VersionIDs : version[v].there => version'[v].there,
         j \in T!VersionIDs => (row.there => version'[j].there)
  PROVE  /\ JobPart' /\ (UNCHANGED workspace => WorkspacePart')
         /\ UNCHANGED dryRun /\ job_templates[j].there => DryRunPart'
         /\ UNCHANGED dryRun /\ j \in T!VersionIDs => DryRunPart'
         /\ \A k \in T!JobIDs : /\ job_templates[k].there => job_templates'[k].there
                                /\ Settled(job_templates[k]) => Settled(job_templates'[k])
<1>1. job_templates' \in [T!JobIDs -> ImportRow] /\ job_templates'[j] = row /\ \A k \in T!JobIDs \ {j} : job_templates'[k] = job_templates[k]
  BY DEF TemplatesInv, JobPart
<1>2. \A k \in T!JobIDs : /\ job_templates[k].there => job_templates'[k].there
                          /\ Settled(job_templates[k]) => Settled(job_templates'[k])
  BY <1>1
<1>3. /\ T!VersionIDs \subseteq T!JobIDs /\ T!DryRunIDs \subseteq T!JobIDs
      /\ T!VersionIDs \cap T!DryRunIDs = {}
  BY IDsAre
<1>4. ASSUME NEW v \in T!VersionIDs, job_templates'[v].there PROVE version'[v].there
  <2>1. CASE v = j
    BY <1>1, <1>4, <2>1
  <2>2. CASE v # j
    BY <1>1, <1>3, <1>4, <2>2 DEF TemplatesInv, JobPart
  <2> QED BY <2>1, <2>2
<1>5. JobPart'
  BY <1>1, <1>4 DEF TemplatesInv, JobPart
<1>6. UNCHANGED workspace => WorkspacePart'
  BY <1>2, <1>3 DEF TemplatesInv, WorkspacePart
<1>7. ASSUME UNCHANGED dryRun, job_templates[j].there \/ j \in T!VersionIDs PROVE DryRunPart'
  <2>1. ASSUME NEW d \in T!DryRunIDs, job_templates'[d].there
        PROVE  dryRun[d] \in T!VersionIDs /\ Settled(job_templates'[dryRun[d]])
    <3>1. job_templates[d].there
      BY <1>1, <1>3, <1>7, <2>1
    <3> QED BY <1>2, <1>3, <3>1 DEF TemplatesInv, DryRunPart
  <2> QED BY <1>7, <2>1 DEF TemplatesInv, DryRunPart
<1> QED BY <1>2, <1>5, <1>6, <1>7

\* When templates, versions and values stay, a job goes on alone.
LEMMA ImportAlone ==
  ASSUME Rows, TemplatesInv, NEW j \in T!JobIDs, NEW row \in ImportRow, ImportOK(row),
         job_templates' = [job_templates EXCEPT ![j] = row], job_templates[j].there, row.there, Settled(job_templates[j]) => Settled(row),
         UNCHANGED <<template, version, dryRun, values, workspace>>,
         UNCHANGED req_templates \/ \E r \in TemplateRequests : T!End(r)
  PROVE  TemplatesInv'
<1>1. /\ VersionPart'
      /\ \A v \in T!VersionIDs : version[v].there => version'[v].there /\ version'[v].template >= version[v].template
  BY VersionsStay
<1>2. j \in T!VersionIDs => version[j].there
  BY DEF TemplatesInv, JobPart
<1>3. /\ JobPart' /\ WorkspacePart' /\ DryRunPart'
      /\ \A k \in T!JobIDs : /\ job_templates[k].there => job_templates'[k].there
                             /\ Settled(job_templates[k]) => Settled(job_templates'[k])
  BY <1>1, <1>2, ImportMoves
<1>4. Onward
  BY <1>1, <1>3 DEF Onward
<1>5. TemplatePart' /\ ActivePart'
  BY DEF TemplatesInv, TemplatePart, ActivePart
<1>6. RequestPart'
  BY <1>1, <1>4, RequestsStay, RequestEnds
<1> QED BY <1>1, <1>3, <1>5, <1>6 DEF TemplatesInv

LEMMA JobSteps ==
  ASSUME Rows, TemplatesInv,
         \/ \E r \in TemplateRequests : T!patchCancelTemplateVersion(r)
         \/ \E j \in T!JobIDs : T!Acquire(j) \/ T!EndJob(j)
  PROVE  TemplatesInv'
<1>1. ASSUME NEW r \in TemplateRequests, T!patchCancelTemplateVersion(r) PROVE TemplatesInv'
  <2>1. PICK j : j = req_templates[r].id
    OBVIOUS
  <2>2. req_templates[r] \in RequestRow /\ j \in T!JobIDs /\ job_templates[j].there /\ job_templates[j] \in ImportRow
    BY <1>1, <2>1, Zenon DEF TemplatesInv, RequestPart, RequestOK, T!patchCancelTemplateVersion, JobPart
  <2>3. PICK b \in BOOLEAN : b = ~req_templates[r].worker
    OBVIOUS
  <2>4. PICK row : row = [job_templates[j] EXCEPT !.canceled = TRUE, !.completed = b]
    OBVIOUS
  <2>5. job_templates' = [job_templates EXCEPT ![j] = row]
    BY <1>1, <2>1, <2>3, <2>4 DEF T!patchCancelTemplateVersion, TemplatesInv, JobPart
  <2>6. row \in ImportRow /\ row.there = job_templates[j].there /\ row.canceled
    BY <2>2, <2>4 DEF ImportRow
  <2>7. ImportOK(row) /\ Settled(row) /\ row.there
    BY <2>2, <2>6 DEF ImportOK, Settled
  <2> QED BY <1>1, <2>2, <2>5, <2>6, <2>7, ImportAlone DEF T!patchCancelTemplateVersion
<1>2. ASSUME NEW j \in T!JobIDs, T!Acquire(j) PROVE TemplatesInv'
  <2>1. PICK row : row = [job_templates[j] EXCEPT !.worker = TRUE]
    OBVIOUS
  <2>2. job_templates' = [job_templates EXCEPT ![j] = row] /\ job_templates[j].there /\ job_templates[j] \in ImportRow
    BY <1>2, <2>1 DEF T!Acquire, TemplatesInv, JobPart
  <2>3. /\ row \in ImportRow /\ row.there = job_templates[j].there /\ row.worker /\ row.canceled = job_templates[j].canceled
        /\ row.completed = job_templates[j].completed
    BY <2>1, <2>2 DEF ImportRow
  <2>4. ImportOK(row) /\ row.there /\ (Settled(job_templates[j]) => Settled(row))
    BY <2>2, <2>3 DEF ImportOK, Settled
  <2> QED BY <1>2, <2>2, <2>3, <2>4, ImportAlone DEF T!Acquire
<1>3. ASSUME NEW j \in T!JobIDs, T!EndJob(j) PROVE TemplatesInv'
  <2>1. PICK failed \in BOOLEAN : job_templates' = [job_templates EXCEPT ![j].completed = TRUE, ![j].failed = failed]
    BY <1>3 DEF T!EndJob
  <2>2. PICK row : row = [job_templates[j] EXCEPT !.completed = TRUE, !.failed = failed]
    OBVIOUS
  <2>3. job_templates' = [job_templates EXCEPT ![j] = row] /\ job_templates[j].there /\ job_templates[j].worker /\ job_templates[j] \in ImportRow
    BY <1>3, <2>1, <2>2 DEF T!EndJob, TemplatesInv, JobPart, ImportOK
  <2>4. /\ row \in ImportRow /\ row.there = job_templates[j].there /\ row.worker = job_templates[j].worker /\ row.completed
    BY <2>2, <2>3 DEF ImportRow
  <2>5. ImportOK(row) /\ row.there /\ Settled(row)
    BY <2>3, <2>4 DEF ImportOK, Settled
  <2> QED BY <1>3, <2>3, <2>4, <2>5, ImportAlone DEF T!EndJob
<1> QED BY <1>1, <1>2, <1>3

\* A new version and its import job.
LEMMA NewVersionIs ==
  ASSUME Rows, TemplatesInv, NEW v \in T!NewVersion, NEW t \in T!TemplateIDs \cup {0},
         version' = [version EXCEPT ![v] = [there |-> TRUE, template |-> t]],
         job_templates' = [job_templates EXCEPT ![v] = T!NewJob], UNCHANGED <<dryRun, workspace>>
  PROVE  /\ v \in T!VersionIDs /\ version'[v].there /\ version'[v].template = t
         /\ \A x \in T!VersionIDs \ {v} : version'[x] = version[x]
         /\ VersionPart' /\ JobPart' /\ DryRunPart' /\ WorkspacePart'
         /\ \A x \in T!VersionIDs : version[x].there => version'[x].there /\ version'[x].template >= version[x].template
         /\ \A j \in T!JobIDs : /\ job_templates[j].there => job_templates'[j].there
                                /\ Settled(job_templates[j]) => Settled(job_templates'[j])
<1>1. v \in T!VersionIDs /\ ~version[v].there /\ v \in T!JobIDs
  BY FreshIs, IDsAre DEF T!NewVersion
<1>2. /\ version' \in [T!VersionIDs -> VersionRow] /\ version'[v].there /\ version'[v].template = t
      /\ \A x \in T!VersionIDs \ {v} : version'[x] = version[x]
  BY <1>1 DEF TemplatesInv, VersionPart, VersionRow
<1>3. VersionPart'
  BY <1>2 DEF TemplatesInv, VersionPart
<1>4. \A x \in T!VersionIDs : version[x].template \in Nat
  BY IDsAre DEF TemplatesInv, VersionPart, VersionRow
<1>5. \A x \in T!VersionIDs : version[x].there => version'[x].there /\ version'[x].template >= version[x].template
  BY <1>1, <1>2, <1>4
<1>6. T!NewJob \in ImportRow /\ ImportOK(T!NewJob) /\ T!NewJob.there
  BY DEF T!NewJob, T!NoJob, ImportRow, ImportOK
<1>7. ~job_templates[v].there
  BY <1>1 DEF TemplatesInv, JobPart
<1>8. ~Settled(job_templates[v])
  BY <1>1, <1>7 DEF TemplatesInv, JobPart, ImportOK, Settled
<1>9. /\ JobPart' /\ DryRunPart' /\ WorkspacePart'
      /\ \A j \in T!JobIDs : /\ job_templates[j].there => job_templates'[j].there
                             /\ Settled(job_templates[j]) => Settled(job_templates'[j])
  BY <1>1, <1>2, <1>5, <1>6, <1>7, <1>8, ImportMoves
<1> QED BY <1>1, <1>2, <1>3, <1>5, <1>9

LEMMA PostVersionKeeps ==
  ASSUME Rows, TemplatesInv, NEW t \in T!TemplateIDs \cup {T!None}, T!postTemplateVersionsByOrganization(t)
  PROVE  TemplatesInv'
<1>1. PICK v \in T!NewVersion :
        /\ version' = [version EXCEPT ![v] = [there |-> TRUE, template |-> t]]
        /\ job_templates' = [job_templates EXCEPT ![v] = T!NewJob]
        /\ values' \in {values, values \cup {<<"import_job", v>>}}
  BY DEF T!postTemplateVersionsByOrganization
<1>2. UNCHANGED <<template, dryRun, workspace, req_templates>> /\ t \in T!Known \cup {T!None}
  BY DEF T!postTemplateVersionsByOrganization
<1>3. t \in T!TemplateIDs \cup {0} /\ (t # 0 => template[t].state # "none")
  BY <1>2, IDsAre DEF T!Known
<1>4. /\ v \in T!VersionIDs /\ version'[v].there /\ version'[v].template = t
      /\ \A x \in T!VersionIDs \ {v} : version'[x] = version[x]
      /\ VersionPart' /\ JobPart' /\ DryRunPart' /\ WorkspacePart'
      /\ \A x \in T!VersionIDs : version[x].there => version'[x].there /\ version'[x].template >= version[x].template
      /\ \A j \in T!JobIDs : /\ job_templates[j].there => job_templates'[j].there
                             /\ Settled(job_templates[j]) => Settled(job_templates'[j])
  BY <1>1, <1>2, <1>3, NewVersionIs
<1>5. Onward
  BY <1>2, <1>4 DEF Onward
<1>6. TemplatePart'
  BY <1>2 DEF TemplatesInv, TemplatePart
<1>7. ASSUME NEW x \in T!VersionIDs, version'[x].template # 0 PROVE template[version'[x].template].state # "none"
  BY <1>3, <1>4, <1>7 DEF TemplatesInv, ActivePart
<1>8. ASSUME NEW u \in T!TemplateIDs, template[u].state # "none" PROVE GoodActive(u, template[u].active, version')
  BY <1>4, <1>5, <1>8, ActivesAdvance
<1>9. ActivePart'
  BY <1>2, <1>7, <1>8 DEF ActivePart
<1>10. RequestPart'
  BY <1>2, <1>4, <1>5, RequestsStay
<1>11. (values \subseteq T!Scopes)'
  BY <1>1, <1>4, ValuesTyped DEF TemplatesInv
<1> QED BY <1>4, <1>6, <1>9, <1>10, <1>11 DEF TemplatesInv

LEMMA AutoImportKeeps == ASSUME Rows, TemplatesInv, NEW n \in TemplateNames, T!autoImportTemplate(n) PROVE TemplatesInv'
<1>1. PICK t \in T!NewTemplate, v \in T!NewVersion :
        /\ T!NameFree(t, n)
        /\ template' = [template EXCEPT ![t] = [state |-> "live", name |-> n, active |-> v]]
        /\ version' = [version EXCEPT ![v] = [there |-> TRUE, template |-> t]]
        /\ job_templates' = [job_templates EXCEPT ![v] = T!NewJob]
  BY DEF T!autoImportTemplate
<1>2. UNCHANGED <<dryRun, values, workspace, req_templates>>
  BY DEF T!autoImportTemplate
<1>3. /\ t \in T!TemplateIDs /\ \A u \in T!TemplateIDs : u < t => template[u].state # "none"
  BY NewTemplateIs
<1>4. /\ v \in T!VersionIDs /\ version'[v].there /\ version'[v].template = t
      /\ \A x \in T!VersionIDs \ {v} : version'[x] = version[x]
      /\ VersionPart' /\ JobPart' /\ DryRunPart' /\ WorkspacePart'
      /\ \A x \in T!VersionIDs : version[x].there => version'[x].there /\ version'[x].template >= version[x].template
      /\ \A j \in T!JobIDs : /\ job_templates[j].there => job_templates'[j].there
                             /\ Settled(job_templates[j]) => Settled(job_templates'[j])
  BY <1>1, <1>2, <1>3, NewVersionIs
<1>5. PICK row : row = [state |-> "live", name |-> n, active |-> v]
  OBVIOUS
<1>6. row \in TemplateRow /\ row.state = "live" /\ row.name = n /\ row.active = v
  BY <1>4, <1>5 DEF TemplateRow, SomeNames
<1>7. t \in Nat /\ t >= t
  BY <1>3, IDsAre
<1>8. GoodActive(t, row.active, version')
  BY <1>4, <1>6, <1>7 DEF GoodActive
<1>9. \A u \in T!TemplateIDs \ {t} : template[u].state = "live" => template[u].name # row.name
  BY <1>1, <1>6 DEF T!NameFree, T!Live
<1>10. template' = [template EXCEPT ![t] = row]
  BY <1>1, <1>5
<1>11. \A x \in T!VersionIDs : version'[x].template \in {t, version[x].template}
  BY <1>4
<1>12. Onward /\ TemplatePart' /\ ActivePart'
  BY <1>3, <1>4, <1>6, <1>8, <1>9, <1>10, <1>11, TemplateMoves
<1>13. RequestPart'
  BY <1>2, <1>4, <1>12, RequestsStay
<1> QED BY <1>2, <1>4, <1>12, <1>13 DEF TemplatesInv

\* A dry run of a version whose import has ended.
LEMMA DryRunKeeps == ASSUME Rows, TemplatesInv, NEW v \in T!VersionIDs, T!postTemplateVersionDryRun(v) PROVE TemplatesInv'
<1>1. PICK d \in T!NewDryRun : job_templates' = [job_templates EXCEPT ![d] = T!NewJob] /\ dryRun' = [dryRun EXCEPT ![d] = v]
  BY DEF T!postTemplateVersionDryRun
<1>2. job_templates[v].completed /\ UNCHANGED <<template, version, values, workspace, req_templates>>
  BY DEF T!postTemplateVersionDryRun
<1>3. d \in T!DryRunIDs /\ ~job_templates[d].there /\ d \in T!JobIDs /\ d \notin T!VersionIDs /\ v \in T!JobIDs /\ v # d
  BY FreshIs, IDsAre DEF T!NewDryRun
<1>4. Settled(job_templates[v])
  BY <1>2, <1>3 DEF TemplatesInv, JobPart, ImportOK, Settled
<1>5. T!NewJob \in ImportRow /\ ImportOK(T!NewJob) /\ T!NewJob.there
  BY DEF T!NewJob, T!NoJob, ImportRow, ImportOK
<1>6. ~Settled(job_templates[d])
  BY <1>3 DEF TemplatesInv, JobPart, ImportOK, Settled
<1>7. /\ VersionPart'
      /\ \A x \in T!VersionIDs : version[x].there => version'[x].there /\ version'[x].template >= version[x].template
  BY <1>2, VersionsStay
<1>8. /\ JobPart' /\ WorkspacePart'
      /\ \A j \in T!JobIDs : /\ job_templates[j].there => job_templates'[j].there
                             /\ Settled(job_templates[j]) => Settled(job_templates'[j])
  BY <1>1, <1>2, <1>3, <1>5, <1>6, <1>7, ImportMoves
<1>9. /\ dryRun' \in [T!DryRunIDs -> T!VersionIDs \cup {0}] /\ dryRun'[d] = v
      /\ \A e \in T!DryRunIDs \ {d} : dryRun'[e] = dryRun[e] /\ job_templates'[e] = job_templates[e]
  BY <1>1, <1>3, IDsAre DEF TemplatesInv, DryRunPart, JobPart
<1>10. ASSUME NEW e \in T!DryRunIDs, job_templates'[e].there
       PROVE  dryRun'[e] \in T!VersionIDs /\ Settled(job_templates'[dryRun'[e]])
  <2>1. CASE e = d
    BY <1>3, <1>4, <1>8, <1>9, <2>1
  <2>2. CASE e # d
    <3>1. dryRun'[e] = dryRun[e] /\ dryRun[e] \in T!VersionIDs /\ Settled(job_templates[dryRun[e]])
      BY <1>9, <1>10, <2>2 DEF TemplatesInv, DryRunPart
    <3> QED BY <1>8, <3>1, IDsAre
  <2> QED BY <2>1, <2>2
<1>11. DryRunPart'
  BY <1>9, <1>10 DEF DryRunPart
<1>12. Onward
  BY <1>2, <1>7, <1>8 DEF Onward
<1>13. TemplatePart' /\ ActivePart'
  BY <1>2 DEF TemplatesInv, TemplatePart, ActivePart
<1>14. RequestPart'
  BY <1>2, <1>7, <1>12, RequestsStay
<1> QED BY <1>2, <1>7, <1>8, <1>11, <1>13, <1>14 DEF TemplatesInv

\* Everything but the workspaces, the values and one request stays.
LEMMA OthersStay ==
  ASSUME Rows, TemplatesInv, UNCHANGED <<template, version, job_templates, dryRun>>,
         UNCHANGED req_templates \/ \E r \in TemplateRequests : T!End(r)
  PROVE  TemplatePart' /\ VersionPart' /\ ActivePart' /\ JobPart' /\ DryRunPart' /\ RequestPart'
<1>1. /\ VersionPart'
      /\ \A x \in T!VersionIDs : version[x].there => version'[x].there /\ version'[x].template >= version[x].template
  BY VersionsStay
<1>2. /\ JobPart' /\ DryRunPart'
      /\ \A j \in T!JobIDs : /\ job_templates[j].there => job_templates'[j].there
                             /\ Settled(job_templates[j]) => Settled(job_templates'[j])
  BY <1>1, JobsStay
<1>3. Onward
  BY <1>1, <1>2 DEF Onward
<1>4. TemplatePart' /\ ActivePart'
  BY DEF TemplatesInv, TemplatePart, ActivePart
<1>5. RequestPart'
  BY <1>1, <1>3, RequestsStay, RequestEnds
<1> QED BY <1>1, <1>2, <1>4, <1>5

LEMMA ParametersKeep ==
  ASSUME Rows, TemplatesInv, NEW t \in T!TemplateIDs, T!postParameter(t) \/ T!deleteParameter(t)
  PROVE  TemplatesInv'
<1>1. /\ UNCHANGED <<template, version, job_templates, dryRun, workspace, req_templates>>
      /\ values' \subseteq values \cup {<<"template", t>>}
  BY DEF T!postParameter, T!deleteParameter
<1>2. TemplatePart' /\ VersionPart' /\ ActivePart' /\ JobPart' /\ DryRunPart' /\ RequestPart'
  BY <1>1, OthersStay
<1>3. WorkspacePart'
  BY <1>1 DEF TemplatesInv, WorkspacePart
<1>4. (values \subseteq T!Scopes)'
  BY <1>1, ValuesTyped
<1> QED BY <1>2, <1>3, <1>4 DEF TemplatesInv

\* A workspace row moves.
LEMMA WorkspaceMoves ==
  ASSUME Rows, TemplatesInv, NEW w \in T!WorkspaceIDs, NEW row \in WorkspaceRow,
         workspace' = [workspace EXCEPT ![w] = row],
         row.state = "live" =>
            \A x \in T!WorkspaceIDs \ {w} : workspace[x].state = "live" => workspace[x].name # row.name,
         row.state # "none" => row.version \in T!VersionIDs /\ Settled(job_templates[row.version]),
         UNCHANGED <<template, version, job_templates, dryRun, values>>,
         UNCHANGED req_templates \/ \E r \in TemplateRequests : T!End(r)
  PROVE  TemplatesInv'
<1>1. TemplatePart' /\ VersionPart' /\ ActivePart' /\ JobPart' /\ DryRunPart' /\ RequestPart'
  BY OthersStay
<1>2. /\ workspace' \in [T!WorkspaceIDs -> WorkspaceRow] /\ workspace'[w] = row
      /\ \A x \in T!WorkspaceIDs \ {w} : workspace'[x] = workspace[x]
  BY DEF TemplatesInv, WorkspacePart
<1>3. ASSUME NEW x \in T!WorkspaceIDs, NEW y \in T!WorkspaceIDs, x # y, workspace'[x].state = "live",
             workspace'[y].state = "live"
      PROVE  workspace'[x].name # workspace'[y].name
  <2>1. CASE x = w
    BY <1>2, <1>3, <2>1
  <2>2. CASE y = w
    BY <1>2, <1>3, <2>2
  <2>3. CASE x # w /\ y # w
    BY <1>2, <1>3, <2>3 DEF TemplatesInv, WorkspacePart
  <2> QED BY <2>1, <2>2, <2>3
<1>4. ASSUME NEW x \in T!WorkspaceIDs, workspace'[x].state # "none"
      PROVE  workspace'[x].version \in T!VersionIDs /\ Settled(job_templates[workspace'[x].version])
  <2>1. CASE x = w
    BY <1>2, <1>4, <2>1
  <2>2. CASE x # w
    BY <1>2, <1>4, <2>2 DEF TemplatesInv, WorkspacePart
  <2> QED BY <2>1, <2>2
<1>5. WorkspacePart'
  BY <1>2, <1>3, <1>4 DEF WorkspacePart
<1> QED BY <1>1, <1>5 DEF TemplatesInv

\* Builds take a version that is settled already.
LEMMA ImportableIs ==
  ASSUME Rows, TemplatesInv, NEW v \in T!VersionIDs, T!Importable(v)
  PROVE  Settled(job_templates[v])
<1>1. job_templates[v] \in ImportRow
  BY IDsAre DEF TemplatesInv, JobPart
<1> QED BY <1>1, SettledIs DEF T!Importable

LEMMA WorkspaceLooks ==
  ASSUME Rows, TemplatesInv, NEW r \in TemplateRequests,
         \/ \E t \in T!TemplateIDs, n \in TemplateNames : T!CheckWorkspace(r, t, n)
         \/ \E w \in T!WorkspaceIDs, v \in T!VersionIDs : T!CheckBuild(r, w, v)
  PROVE  TemplatesInv'
<1>0. T!Idle \in RequestRow
  BY IdleIs
<1>1. ASSUME NEW t \in T!TemplateIDs, NEW n \in TemplateNames, T!CheckWorkspace(r, t, n) PROVE TemplatesInv'
  <2>1. PICK v : v = template[t].active
    OBVIOUS
  <2>2. v \in T!VersionIDs
    BY <1>1, <2>1, Zenon DEF T!CheckWorkspace, T!Live, TemplatesInv, ActivePart, GoodActive
  <2>3. Settled(job_templates[v])
    BY <1>1, <2>1, <2>2, ImportableIs, Zenon DEF T!CheckWorkspace
  <2>4. PICK q : q = [T!Idle EXCEPT !.op = "post workspace", !.id = t, !.version = v, !.name = n]
    OBVIOUS
  <2>5. q \in RequestRow /\ q.op = "post workspace" /\ q.id = t /\ q.version = v
    BY <1>0, <2>2, <2>4, Zenon DEF RequestRow, SomeNames
  <2>6. T!Begin(r, q)
    BY <1>1, <2>1, <2>4, Zenon DEF T!CheckWorkspace
  <2> QED BY <2>2, <2>3, <2>5, <2>6, RequestBegins, Zenon DEF RequestOK
<1>2. ASSUME NEW w \in T!WorkspaceIDs, NEW v \in T!VersionIDs, T!CheckBuild(r, w, v) PROVE TemplatesInv'
  <2>1. Settled(job_templates[v])
    BY <1>2, ImportableIs, Zenon DEF T!CheckBuild
  <2>2. PICK q : q = [T!Idle EXCEPT !.op = "build", !.id = w, !.version = v]
    OBVIOUS
  <2>3. q \in RequestRow /\ q.op = "build" /\ q.id = w /\ q.version = v
    BY <1>0, <2>2, Zenon DEF RequestRow
  <2>4. T!Begin(r, q)
    BY <1>2, <2>2, Zenon DEF T!CheckBuild
  <2> QED BY <2>1, <2>3, <2>4, RequestBegins, Zenon DEF RequestOK
<1> QED BY <1>1, <1>2

LEMMA PostWorkspaceKeeps ==
  ASSUME Rows, TemplatesInv, NEW r \in TemplateRequests, T!postWorkspacesByOrganization(r)
  PROVE  TemplatesInv'
<1>1. PICK w \in T!NewWorkspace :
        IF T!WorkspaceNameFree(w, req_templates[r].name)
        THEN /\ workspace' = [workspace EXCEPT ![w] =
                    [state |-> "live", name |-> req_templates[r].name, template |-> req_templates[r].id, version |-> req_templates[r].version]]
             /\ T!End(r)
             /\ UNCHANGED <<template, version, job_templates, dryRun, values>>
        ELSE T!Refused(r)
  BY Zenon DEF T!postWorkspacesByOrganization
<1>2. CASE T!Refused(r)
  BY <1>2, RequestRefused
<1>3. CASE ~T!Refused(r)
  <2>1. PICK row : row = [state |-> "live", name |-> req_templates[r].name, template |-> req_templates[r].id,
                          version |-> req_templates[r].version]
    OBVIOUS
  <2>2. /\ T!WorkspaceNameFree(w, req_templates[r].name) /\ workspace' = [workspace EXCEPT ![w] = row]
        /\ T!End(r) /\ UNCHANGED <<template, version, job_templates, dryRun, values>>
    BY <1>1, <1>3, <2>1, Zenon
  <2>3. w \in T!WorkspaceIDs
    BY FreshIs, IDsAre DEF T!NewWorkspace
  <2>4. /\ req_templates[r] \in RequestRow /\ req_templates[r].id \in T!TemplateIDs
        /\ req_templates[r].version \in T!VersionIDs /\ Settled(job_templates[req_templates[r].version])
    BY Zenon DEF T!postWorkspacesByOrganization, TemplatesInv, RequestPart, RequestOK
  <2>5. row \in WorkspaceRow /\ row.name = req_templates[r].name /\ row.version = req_templates[r].version
    BY <2>1, <2>4, Zenon DEF WorkspaceRow, RequestRow
  <2>6. \A x \in T!WorkspaceIDs \ {w} : workspace[x].state = "live" => workspace[x].name # row.name
    BY <2>2, <2>5 DEF T!WorkspaceNameFree
  <2> QED BY <2>2, <2>3, <2>4, <2>5, <2>6, WorkspaceMoves
<1> QED BY <1>2, <1>3

LEMMA WorkspaceSteps ==
  ASSUME Rows, TemplatesInv,
         \/ \E r \in TemplateRequests : T!postWorkspaceBuilds(r)
         \/ \E w \in T!WorkspaceIDs : T!DeleteWorkspace(w) \/ \E n \in TemplateNames : T!patchWorkspace(w, n)
  PROVE  TemplatesInv'
<1>0. ASSUME NEW w \in T!WorkspaceIDs
      PROVE  /\ workspace[w] \in WorkspaceRow
             /\ workspace[w].state # "none" => workspace[w].version \in T!VersionIDs /\ Settled(job_templates[workspace[w].version])
             /\ \A x \in T!WorkspaceIDs \ {w} : workspace[w].state = "live" /\ workspace[x].state = "live"
                    => workspace[x].name # workspace[w].name
  BY DEF TemplatesInv, WorkspacePart
<1>1. ASSUME NEW r \in TemplateRequests, T!postWorkspaceBuilds(r) PROVE TemplatesInv'
  <2>1. PICK w : w = req_templates[r].id
    OBVIOUS
  <2>2. /\ w \in T!WorkspaceIDs /\ req_templates[r].version \in T!VersionIDs /\ Settled(job_templates[req_templates[r].version])
    BY <1>1, <2>1, Zenon DEF T!postWorkspaceBuilds, TemplatesInv, RequestPart, RequestOK
  <2>3. PICK row : row = [workspace[w] EXCEPT !.version = req_templates[r].version]
    OBVIOUS
  <2>4. /\ row \in WorkspaceRow /\ row.state = workspace[w].state /\ row.name = workspace[w].name
        /\ row.version = req_templates[r].version
    BY <1>0, <2>2, <2>3 DEF WorkspaceRow
  <2>5. /\ workspace' = [workspace EXCEPT ![w] = row] /\ T!End(r)
        /\ UNCHANGED <<template, version, job_templates, dryRun, values>>
    BY <1>1, <2>1, <2>3 DEF T!postWorkspaceBuilds, TemplatesInv, WorkspacePart
  <2>6. row.state = "live" =>
            \A x \in T!WorkspaceIDs \ {w} : workspace[x].state = "live" => workspace[x].name # row.name
    BY <1>0, <2>2, <2>4
  <2> QED BY <2>2, <2>4, <2>5, <2>6, WorkspaceMoves
<1>2. ASSUME NEW w \in T!WorkspaceIDs, T!DeleteWorkspace(w) PROVE TemplatesInv'
  <2>1. PICK row : row = [workspace[w] EXCEPT !.state = "deleted"]
    OBVIOUS
  <2>2. row \in WorkspaceRow /\ row.state = "deleted" /\ row.version = workspace[w].version
    BY <1>0, <2>1 DEF WorkspaceRow
  <2>3. /\ workspace' = [workspace EXCEPT ![w] = row] /\ workspace[w].state = "live"
        /\ UNCHANGED <<template, version, job_templates, dryRun, values, req_templates>>
    BY <1>2, <2>1 DEF T!DeleteWorkspace, TemplatesInv, WorkspacePart
  <2>4. row.version \in T!VersionIDs /\ Settled(job_templates[row.version])
    BY <1>0, <2>2, <2>3
  <2> QED BY <2>2, <2>3, <2>4, WorkspaceMoves
<1>3. ASSUME NEW w \in T!WorkspaceIDs, NEW n \in TemplateNames, T!patchWorkspace(w, n) PROVE TemplatesInv'
  <2>1. PICK row : row = [workspace[w] EXCEPT !.name = n]
    OBVIOUS
  <2>2. /\ row \in WorkspaceRow /\ row.state = workspace[w].state /\ row.name = n
        /\ row.version = workspace[w].version
    BY <1>0, <2>1 DEF WorkspaceRow, SomeNames
  <2>3. /\ workspace' = [workspace EXCEPT ![w] = row] /\ workspace[w].state = "live"
        /\ T!WorkspaceNameFree(w, n) /\ UNCHANGED <<template, version, job_templates, dryRun, values, req_templates>>
    BY <1>3, <2>1 DEF T!patchWorkspace, TemplatesInv, WorkspacePart
  <2>4. row.version \in T!VersionIDs /\ Settled(job_templates[row.version])
    BY <1>0, <2>2, <2>3
  <2>5. \A x \in T!WorkspaceIDs \ {w} : workspace[x].state = "live" => workspace[x].name # row.name
    BY <2>2, <2>3 DEF T!WorkspaceNameFree
  <2> QED BY <2>2, <2>3, <2>4, <2>5, WorkspaceMoves
<1> QED BY <1>1, <1>2, <1>3

LEMMA NextTemplates == ASSUME Rows, TemplatesInv, [T!Next]_(T!vars) PROVE TemplatesInv'
<1>1. CASE \E r \in TemplateRequests : T!TemplateStep(r)
  BY <1>1, LooksKeep, PostTemplateKeeps, TemplateHandlers DEF T!TemplateStep
<1>2. CASE T!VersionStep
  BY <1>2, PostVersionKeeps, AutoImportKeeps, DryRunKeeps, LooksKeep, JobSteps, ParametersKeep DEF T!VersionStep
<1>3. CASE T!WorkspaceStep
  BY <1>3, WorkspaceLooks, PostWorkspaceKeeps, WorkspaceSteps DEF T!WorkspaceStep
<1>4. CASE UNCHANGED T!vars
  <2>1. UNCHANGED T!rows /\ req_templates' = req_templates
    BY <1>4 DEF T!vars, T!rows
  <2>2. /\ Onward /\ TemplatePart' /\ VersionPart' /\ ActivePart' /\ JobPart' /\ DryRunPart' /\ WorkspacePart'
        /\ (values \subseteq T!Scopes)'
    BY <2>1, RowsStay
  <2> QED BY <2>1, <2>2, RequestsStay DEF TemplatesInv
<1> QED BY <1>1, <1>2, <1>3, <1>4 DEF T!Next

LEMMA TemplatesSafe ==
  ASSUME Rows, TemplatesInv
  PROVE  T!TypeOK /\ T!TemplateNamesUnique /\ T!ActiveVersionBelongs /\ T!BuiltOnImported
<1>1. T!TypeOK
  <2>1. \A t \in T!TemplateIDs : template[t].state \in {"none", "live", "deleted"}
    BY DEF TemplatesInv, TemplatePart, TemplateRow
  <2>2. \A v \in T!VersionIDs : version[v].template \in T!TemplateIDs \cup {T!None}
    BY IDsAre DEF TemplatesInv, VersionPart, VersionRow
  <2> QED BY <2>1, <2>2 DEF TemplatesInv, JobPart, ImportRow, WorkspacePart, T!TypeOK
<1>2. T!TemplateNamesUnique
  BY DEF TemplatesInv, TemplatePart, WorkspacePart, T!TemplateNamesUnique, T!Live
<1>3. T!ActiveVersionBelongs
  BY DEF TemplatesInv, ActivePart, GoodActive, T!ActiveVersionBelongs, T!Known
<1>4. \A v \in T!VersionIDs : job_templates[v] \in ImportRow
  BY IDsAre DEF TemplatesInv, JobPart
<1>5. ASSUME NEW w \in T!WorkspaceIDs, workspace[w].state # "none"
      PROVE  T!Status(job_templates[workspace[w].version]) \notin {"pending", "running"}
  BY <1>4, <1>5, SettledIs DEF TemplatesInv, WorkspacePart
<1>6. ASSUME NEW d \in T!DryRunIDs, job_templates[d].there
      PROVE  T!Status(job_templates[dryRun[d]]) \notin {"pending", "running"}
  BY <1>4, <1>6, SettledIs DEF TemplatesInv, DryRunPart
<1> QED BY <1>1, <1>2, <1>3, <1>5, <1>6 DEF T!BuiltOnImported

\* For any number of templates, versions, workspaces and requests: templates, and workspaces,
\* that are not deleted have names of their own; the active version of a template belongs to it or
\* to one made of that version later; and no workspace and no dry run is made from a version whose
\* import is pending or running, however late a handler writes what it decided
\* (coderd/templates.go, templateversions.go, workspaces.go and workspacebuilds.go).
THEOREM TemplatesAreConsistent ==
  ASSUME Rows PROVE T!Spec => [](T!TemplateNamesUnique /\ T!ActiveVersionBelongs /\ T!BuiltOnImported)
<1>1. T!Init => TemplatesInv
  BY InitTemplates
<1>2. TemplatesInv /\ [T!Next]_(T!vars) => TemplatesInv'
  BY NextTemplates
<1>3. TemplatesInv => T!TemplateNamesUnique /\ T!ActiveVersionBelongs /\ T!BuiltOnImported
  BY TemplatesSafe
<1> QED BY <1>1, <1>2, <1>3, PTL DEF T!Spec

-----------------------------------------------------------------------------
(* The server.                                                             *)

\* What each component needs to know of its constants.
ServiceConstants == Rows /\ IsFiniteSet(Calls) /\ Terminals /\ Provider

\* Each component keeps its invariant in its own behaviours.
ServiceInv ==
    /\ part = "templates" => TemplatesInv
    /\ part = "mesh" => MeshInv
    /\ part = "ptys" => TerminalInv
    /\ part = "gitauths" => GitInv

LEMMA InitServices == ASSUME ServiceConstants, ServerInit PROVE ServiceInv
<1>1. part = "templates" => TemplatesInv
  BY InitTemplates DEF ServerInit, ServiceConstants
<1>2. part = "mesh" => MeshInv
  BY InitMesh DEF ServerInit
<1>3. part = "ptys" => TerminalInv
  BY InitTerminals DEF ServerInit, ServiceConstants
<1>4. part = "gitauths" => GitInv
  BY InitGit DEF ServerInit, ServiceConstants
<1> QED BY <1>1, <1>2, <1>3, <1>4 DEF ServiceInv

\* A step is one of the component that the behaviour is of.
LEMMA ServiceSteps ==
  ASSUME [ServerNext]_serverVars
  PROVE  /\ part' = part
         /\ part = "templates" => [T!Next]_(T!vars)
         /\ part = "mesh" => [M!Next]_(M!vars)
         /\ part = "ptys" => [P!Next]_(P!vars)
         /\ part = "gitauths" => [G!Next]_(G!vars)
<1>1. CASE ServerNext
  BY <1>1 DEF ServerNext
<1>2. CASE UNCHANGED serverVars
  BY <1>2 DEF serverVars, varsT, varsM, varsP, varsG, T!vars, M!vars, P!vars, G!vars
<1> QED BY <1>1, <1>2

LEMMA NextServices == ASSUME ServiceConstants, ServiceInv, [ServerNext]_serverVars PROVE ServiceInv'
<1>1. part' = part
  BY ServiceSteps
<1>2. part = "templates" => TemplatesInv'
  BY ServiceSteps, NextTemplates DEF ServiceInv, ServiceConstants
<1>3. part = "mesh" => MeshInv'
  BY ServiceSteps, NextMesh DEF ServiceInv
<1>4. part = "ptys" => TerminalInv'
  BY ServiceSteps, NextTerminals DEF ServiceInv, ServiceConstants
<1>5. part = "gitauths" => GitInv'
  BY ServiceSteps, NextGit DEF ServiceInv, ServiceConstants
<1> QED BY <1>1, <1>2, <1>3, <1>4, <1>5 DEF ServiceInv

LEMMA ServicesFollow == ASSUME ServiceConstants, ServiceInv PROVE ServerSafe
<1>1. part = "templates" => T!TypeOK /\ T!TemplateNamesUnique /\ T!ActiveVersionBelongs /\ T!BuiltOnImported
  BY TemplatesSafe DEF ServiceInv, ServiceConstants
<1>2. part = "mesh" => M!TypeOK /\ M!OneLoopEach /\ M!ClosedIsQuiet
  BY MeshSafe DEF ServiceInv, ServiceConstants
<1>3. part = "ptys" => P!TypeOK /\ P!NoDeadEntry /\ P!CreatorMissesNothing /\ P!CreatorIsClosed
  BY TerminalSafe DEF ServiceInv, ServiceConstants
<1>4. part = "gitauths" => G!TypeOK /\ G!LinkRefreshable
  BY GitSafe DEF ServiceInv, ServiceConstants
<1> QED BY <1>1, <1>2, <1>3, <1>4 DEF ServerSafe

(* What several requests or goroutines keep together stays consistent, in  *)
(* every behaviour of the server: templates and their versions, the mesh   *)
(* of DERP servers, the agent's terminals and the tokens of git.           *)
THEOREM ServicesAreSafe ==
  ASSUME ServiceConstants
  PROVE  ServerSpec => []ServerSafe
<1>1. ServerInit => ServiceInv
  BY InitServices
<1>2. ServiceInv /\ [ServerNext]_serverVars => ServiceInv'
  BY NextServices
<1>3. ServiceInv => ServerSafe
  BY ServicesFollow
<1> QED BY <1>1, <1>2, <1>3, PTL DEF ServerSpec
=============================================================================
