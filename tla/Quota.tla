------------------------------- MODULE Quota -------------------------------
(***************************************************************************)
(* The quota of one user (enterprise/coderd/workspacequota.go): the runner *)
(* of each build asks for the build's daily cost between plan and apply,   *)
(* and the committer grants it in a serializable transaction against the   *)
(* sum of the user's groups' allowances.  The answer may be lost, and the  *)
(* daemon then asks again (clientDoWithRetries).                           *)
(***************************************************************************)
EXTENDS Naturals, Sequences, FiniteSetsExt

CONSTANTS
    Workspaces,    \* the user's workspaces
    Costs,         \* the daily costs a plan may have
    Allowances,    \* the allowances the user's groups may add up to
    MaxBuilds,     \* bounds the builds of a workspace
    MaxLost        \* bounds the answers that are lost

VARIABLES
    cost,          \* workspace_builds.daily_cost, by workspace and build_number
    deleted,       \* workspaces.deleted
    budget,        \* what GetQuotaAllowanceForUser returns
    job,           \* the job of the latest build and its call of CommitQuota
    lost

vars == <<cost, deleted, budget, job, lost>>

NoJob == [step |-> "none"]
Jobs ==
    {NoJob} \union [step : {"planned", "applying"}]
    \union [step : {"asked"}, cost : Costs]
    \union [step : {"read"}, cost : Costs, own : Costs \union {0}]
    \union [step : {"tx"}, cost : Costs, grant : BOOLEAN, budget : Allowances, clean : BOOLEAN]
    \union [step : {"answered"}, cost : Costs, ok : BOOLEAN]

TypeOK ==
    /\ cost \in [Workspaces -> UNION {[1 .. n -> Costs \union {0}] : n \in 0 .. MaxBuilds}]
    /\ deleted \in [Workspaces -> BOOLEAN]
    /\ budget \in Allowances
    /\ job \in [Workspaces -> Jobs]
    /\ lost \in 0 .. MaxLost

Init ==
    /\ cost = [w \in Workspaces |-> <<>>]
    /\ deleted = [w \in Workspaces |-> FALSE]
    /\ budget \in Allowances
    /\ job = [w \in Workspaces |-> NoJob]
    /\ lost = 0

----------------------------------------------------------------------------
Built(w) == cost[w] # <<>>
LatestCost(w) == IF Built(w) THEN cost[w][Len(cost[w])] ELSE 0

\* GetQuotaConsumedForUser: the latest builds of the workspaces that are not deleted.
Consumed == MapThenSumSet(LatestCost, {w \in Workspaces : ~deleted[w]})

\* The cost of the build before the latest one; 0 when there is none.
PreviousCost(w) == IF Len(cost[w]) > 1 THEN cost[w][Len(cost[w]) - 1] ELSE 0

Move(w, j) == job' = [job EXCEPT ![w] = j]

\* InsertWorkspaceBuild, whose daily_cost is 0, and the acquisition of the build's job.
NewBuild(w) ==
    /\ job[w] = NoJob /\ ~deleted[w] /\ Len(cost[w]) < MaxBuilds
    /\ cost' = [cost EXCEPT ![w] = Append(@, 0)]
    /\ Move(w, [step |-> "planned"])
    /\ UNCHANGED <<deleted, budget, lost>>

\* runWorkspaceBuild after the plan: a build without cost, and a deletion, ask for nothing.
SkipQuota(w) ==
    /\ job[w].step = "planned"
    /\ Move(w, [step |-> "applying"])
    /\ UNCHANGED <<cost, deleted, budget, lost>>

Ask(w, c) ==
    /\ job[w].step = "planned"
    /\ Move(w, [step |-> "asked", cost |-> c])
    /\ UNCHANGED <<cost, deleted, budget, lost>>

\* CommitQuota reads the build before its transaction.
ReadBuild(w) ==
    /\ job[w].step = "asked"
    /\ Move(w, [step |-> "read", cost |-> job[w].cost, own |-> LatestCost(w)])
    /\ UNCHANGED <<cost, deleted, budget, lost>>

\* Mutant of NetIncrease: a rebuild is never an increase.
NetIncreaseFirst(w) == Len(cost[w]) = 1

\* The build's own cost in the row, as it was read, against the build before it.
NetIncrease(w) == ~(job[w].own < PreviousCost(w))

\* The transaction's reads and its decision.
TxBegin(w) ==
    LET c == job[w].cost IN
    /\ job[w].step = "read"
    /\ Move(w, [step |-> "tx", cost |-> c, budget |-> budget, clean |-> TRUE,
                grant |-> ~(c + Consumed > budget /\ NetIncrease(w))])
    /\ UNCHANGED <<cost, deleted, budget, lost>>

\* Mutant of Serializable: the default isolation level.
ReadCommitted(w) == TRUE

\* Postgres commits a serializable transaction only if no other quota transaction, which
\* read what this one writes, has committed since it began.
Serializable(w) == job[w].clean

\* UpdateWorkspaceBuildCostByID and the commit.
TxGrant(w) ==
    LET c == job[w].cost IN
    /\ job[w].step = "tx" /\ job[w].grant /\ Serializable(w)
    /\ cost' = [cost EXCEPT ![w][Len(cost[w])] = c]
    /\ job' = [v \in Workspaces |->
                IF v = w THEN [step |-> "answered", cost |-> c, ok |-> TRUE]
                ELSE IF job[v].step = "tx" THEN [job[v] EXCEPT !.clean = FALSE]
                ELSE job[v]]
    /\ UNCHANGED <<deleted, budget, lost>>

TxRefuse(w) ==
    /\ job[w].step = "tx" /\ ~job[w].grant
    /\ Move(w, [step |-> "answered", cost |-> job[w].cost, ok |-> FALSE])
    /\ UNCHANGED <<cost, deleted, budget, lost>>

\* A serialization failure, or any other error of the database: the call fails, and the
\* runner fails the job.
TxAbort(w) ==
    /\ job[w].step = "tx"
    /\ Move(w, NoJob)
    /\ UNCHANGED <<cost, deleted, budget, lost>>

\* The session ends before the answer arrives; the transaction does not end with it.
AnswerLost(w) ==
    /\ job[w].step = "answered" /\ lost < MaxLost
    /\ Move(w, [step |-> "asked", cost |-> job[w].cost])
    /\ lost' = lost + 1
    /\ UNCHANGED <<cost, deleted, budget>>

\* commitQuota in the runner: a refused build fails.
Answered(w) ==
    /\ job[w].step = "answered"
    /\ Move(w, IF job[w].ok THEN [step |-> "applying"] ELSE NoJob)
    /\ UNCHANGED <<cost, deleted, budget, lost>>

\* The apply ends, well or not; after a deletion the workspace counts no more.
Applied(w, gone) ==
    /\ job[w].step = "applying"
    /\ gone => LatestCost(w) = 0
    /\ deleted' = [deleted EXCEPT ![w] = gone]
    /\ Move(w, NoJob)
    /\ UNCHANGED <<cost, budget, lost>>

\* patchGroup and deleteGroup: the allowances of the user's groups change.
PatchAllowance(n) ==
    /\ n # budget
    /\ budget' = n
    /\ UNCHANGED <<cost, deleted, job, lost>>

Next ==
    \/ \E w \in Workspaces :
        \/ NewBuild(w) \/ SkipQuota(w) \/ ReadBuild(w) \/ TxBegin(w)
        \/ TxGrant(w) \/ TxRefuse(w) \/ TxAbort(w) \/ AnswerLost(w) \/ Answered(w)
        \/ \E c \in Costs : Ask(w, c)
        \/ \E gone \in BOOLEAN : Applied(w, gone)
    \/ \E n \in Allowances : PatchAllowance(n)

Spec == Init /\ [][Next]_vars

----------------------------------------------------------------------------
\* Two builds of one user that commit at the same time cannot both take the last credits:
\* a grant that leaves the user over the allowance it was decided with is one for a build
\* whose predecessor had a cost (CommitQuota's exception for builds that are no increase).
WithinBudget ==
    \A w \in Workspaces :
        cost'[w] # cost[w] /\ job[w].step = "tx" /\ PreviousCost(w) = 0
            => Consumed' <= job[w].budget
NoOverspend == [][WithinBudget]_vars

\* The comment in CommitQuota: "If the new build will reduce overall quota consumption,
\* then we allow it even if the user is over quota."
OnlyReductionsOverBudget ==
    [][\A w \in Workspaces :
        cost'[w] # cost[w] /\ job[w].step = "tx" /\ Consumed' > job[w].budget
            => job[w].cost < PreviousCost(w)]_vars
============================================================================
