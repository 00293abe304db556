------------------------- MODULE TerraformProvision -------------------------
(***************************************************************************)
(* The Terraform provisioner (provisioner/terraform/provision.go,          *)
(* executor.go): one Provision stream per job, each running terraform init *)
(* under a mutex shared by all, then plan or apply, then show and graph.   *)
(* A cancel message or the end of the stream interrupts the command that   *)
(* runs; a timer kills it when the stream has ended.  Terraform itself is  *)
(* external: it may change the workspace's resources, it writes its state  *)
(* file when it exits but not when it is killed, and it may ignore an      *)
(* interrupt for as long as it likes, but not for ever.                    *)
(***************************************************************************)
EXTENDS Naturals, FiniteSets

CONSTANTS
    Provisions,     \* streams
    Configs,        \* what they may ask for: [Provisions -> [kind, destroy, state]]
    MaxLongLines    \* lines of output that are longer than a scanner accepts

VARIABLES
    config,         \* what each stream asks for: [kind, destroy, state]
    pc,
    proc,           \* its terraform process
    canceled, ended, killed,  \* ctx, stream.Context() and killCtx are done
    stuck,          \* the reader of the output has given up: its pipe is full
    initMut,        \* the set of streams that hold the mutex
    world,          \* the version of the resources that exist
    tfstate,        \* the version the state file describes
    outcome         \* what the caller learns: [answer, state]

vars == <<config, pc, proc, canceled, ended, killed, stuck, initMut, world, tfstate, outcome>>
contexts == <<canceled, ended, killed>>

\* Versions of the resources: none, those the job began with, those it leaves.
Empty == 0
Before == 1
After == 2
Commands == {"init", "plan", "apply", "show", "graph"}
Alive(p) == proc[p] \in {"running", "interrupted"}
Unanswered == [answer |-> "none", state |-> Empty]

Init ==
    /\ config \in Configs
    /\ pc = [p \in Provisions |-> "recv"]
    /\ proc = [p \in Provisions |-> "none"]
    /\ canceled = [p \in Provisions |-> FALSE]
    /\ ended = [p \in Provisions |-> FALSE]
    /\ killed = [p \in Provisions |-> FALSE]
    /\ stuck = [p \in Provisions |-> FALSE]
    /\ initMut = {}
    /\ world = [p \in Provisions |-> config[p].state]
    /\ tfstate = [p \in Provisions |-> Empty]
    /\ outcome = [p \in Provisions |-> Unanswered]

\* Provision returns: it sends an answer, or the stream fails with an error.
\* A stream that has ended carries neither.  The deferred cancel and kill run.
Returns(p, answer, state) ==
    /\ pc' = [pc EXCEPT ![p] = "returned"]
    /\ outcome' = [outcome EXCEPT ![p] = IF ended[p] THEN [answer |-> "lost", state |-> Empty]
                                         ELSE [answer |-> answer, state |-> state]]
    /\ canceled' = [canceled EXCEPT ![p] = TRUE]
    /\ killed' = [killed EXCEPT ![p] = TRUE]
    /\ UNCHANGED ended

Goes(p, to) == pc' = [pc EXCEPT ![p] = to] /\ UNCHANGED <<contexts, outcome>>

\* The first message is the request, unless it is a cancel.
Recv(p) ==
    /\ pc[p] = "recv"
    /\ Goes(p, "version") \/ Returns(p, "nothing", Empty)
    /\ UNCHANGED <<config, proc, stuck, initMut, world, tfstate>>

checkMinVersion(p) ==
    /\ pc[p] = "version"
    /\ \/ ~canceled[p] /\ Goes(p, "state")
       \/ Returns(p, "error", Empty)
    /\ UNCHANGED <<config, proc, stuck, initMut, world, tfstate>>

\* Nothing to destroy without a state.
WriteState(p) ==
    /\ pc[p] = "state"
    /\ tfstate' = [tfstate EXCEPT ![p] = config[p].state]
    /\ IF config[p].destroy /\ config[p].state = Empty
       THEN Returns(p, "complete", Empty)
       ELSE Goes(p, "lock")
    /\ UNCHANGED <<config, proc, stuck, initMut, world>>

\* A plain mutex: a stream that is canceled waits for it all the same.
LockInit(p) ==
    /\ pc[p] = "lock" /\ initMut = {}
    /\ initMut' = {p}
    /\ Goes(p, "init")
    /\ UNCHANGED <<config, proc, stuck, world, tfstate>>

-----------------------------------------------------------------------------
(* Commands *)

FailedWithoutState(p) ==
    IF canceled[p] \/ pc[p] = "apply" THEN Returns(p, "complete", Empty) ELSE Returns(p, "error", Empty)

\* An apply that failed at any point answers with the state file all the same;
\* init and plan answer when they were canceled, and are errors otherwise.
Failed(p) ==
    CASE config[p].kind = "apply" /\ pc[p] # "init" -> Returns(p, "complete", tfstate'[p])
      [] ~(config[p].kind = "apply" /\ pc[p] # "init") /\ canceled[p] -> Returns(p, "complete", Empty)
      [] OTHER -> Returns(p, "error", Empty)

\* After init, parameters with an unsupported destination are an error.
Succeeded(p) ==
    CASE pc[p] = "init" -> Goes(p, config[p].kind) \/ Returns(p, "error", Empty)
      [] pc[p] \in {"plan", "apply"} -> Goes(p, "show")
      [] pc[p] = "show" -> Goes(p, "graph")
      [] pc[p] = "graph" -> Returns(p, "complete", IF config[p].kind = "apply" THEN tfstate'[p] ELSE Empty)

CommandReturns(p, ok) ==
    /\ IF ok THEN Succeeded(p) ELSE Failed(p)
    /\ initMut' = IF pc[p] = "init" THEN initMut \ {p} ELSE initMut

\* Nothing is started once ctx or killCtx is done; a start may fail as well.
Start(p) ==
    /\ pc[p] \in Commands /\ proc[p] = "none"
    /\ \/ /\ ~canceled[p] /\ ~killed[p]
          /\ proc' = [proc EXCEPT ![p] = "running"]
          /\ UNCHANGED <<pc, contexts, outcome, initMut, tfstate>>
       \/ /\ UNCHANGED <<proc, tfstate>>
          /\ CommandReturns(p, FALSE)
    /\ UNCHANGED <<config, stuck, world>>

InterruptOnKill(p) ==
    /\ proc[p] = "running" /\ killed[p]
    /\ proc' = [proc EXCEPT ![p] = "interrupted"]
    /\ UNCHANGED <<config, pc, contexts, stuck, initMut, world, tfstate, outcome>>

interruptCommandOnCancel(p) ==
    /\ proc[p] = "running" /\ canceled[p]
    /\ proc' = [proc EXCEPT ![p] = "interrupted"]
    /\ UNCHANGED <<config, pc, contexts, stuck, initMut, world, tfstate, outcome>>

\* Terraform changes the resources.
Apply(p) ==
    /\ Alive(p) /\ pc[p] = "apply"
    /\ world' = [world EXCEPT ![p] = After]
    /\ UNCHANGED <<config, pc, proc, contexts, stuck, initMut, tfstate, outcome>>

\* Terraform exits; an apply writes the state file before it does, and only
\* succeeds when it has done its work.
Exit(p, ok) ==
    /\ Alive(p) /\ ~stuck[p]
    /\ ok /\ pc[p] = "apply" => world[p] = After
    /\ proc' = [proc EXCEPT ![p] = "none"]
    /\ tfstate' = IF pc[p] = "apply" THEN [tfstate EXCEPT ![p] = world[p]] ELSE tfstate
    /\ CommandReturns(p, ok)
    /\ UNCHANGED <<config, stuck, world>>

\* readAndLog stops at a line that is too long, and nothing reads the pipe any
\* more: terraform blocks, and so does Wait, even when the process is killed.
LongLine(p) ==
    /\ Alive(p) /\ pc[p] \in {"init", "plan", "apply"} /\ ~stuck[p]
    /\ Cardinality({q \in Provisions : stuck[q]}) < MaxLongLines
    /\ stuck' = [stuck EXCEPT ![p] = TRUE]
    /\ UNCHANGED <<config, pc, proc, contexts, initMut, world, tfstate, outcome>>

\* The process group is killed when killCtx is done, and writes nothing.
Killed(p) ==
    /\ Alive(p) /\ killed[p]
    /\ proc' = [proc EXCEPT ![p] = "dead"]
    /\ UNCHANGED <<config, pc, contexts, stuck, initMut, world, tfstate, outcome>>

Wait(p) ==
    /\ proc[p] = "dead" /\ ~stuck[p] /\ pc[p] \in Commands
    /\ proc' = [proc EXCEPT ![p] = "none"]
    /\ UNCHANGED tfstate
    /\ CommandReturns(p, FALSE)
    /\ UNCHANGED <<config, stuck, world>>

-----------------------------------------------------------------------------
(* Cancellation *)

\* The goroutine that reads the stream gets a cancel message.
Cancel(p) ==
    /\ pc[p] \notin {"recv", "returned"} /\ ~ended[p] /\ ~canceled[p]
    /\ canceled' = [canceled EXCEPT ![p] = TRUE]
    /\ UNCHANGED <<config, pc, proc, ended, killed, stuck, initMut, world, tfstate, outcome>>

\* The connection is lost, or its other side gives up; ctx is derived from it.
End(p) ==
    /\ pc[p] \notin {"recv", "returned"} /\ ~ended[p]
    /\ ended' = [ended EXCEPT ![p] = TRUE]
    /\ canceled' = [canceled EXCEPT ![p] = TRUE]
    /\ UNCHANGED <<config, pc, proc, killed, stuck, initMut, world, tfstate, outcome>>

ExitTimeoutOfApply(p) ==
    /\ ended[p] /\ ~killed[p] /\ pc[p] # "init"
    /\ killed' = [killed EXCEPT ![p] = TRUE]
    /\ UNCHANGED <<config, pc, proc, canceled, ended, stuck, initMut, world, tfstate, outcome>>

\* s.exitTimeout after the stream has ended.
ExitTimeout(p) ==
    /\ ended[p] /\ ~killed[p]
    /\ killed' = [killed EXCEPT ![p] = TRUE]
    /\ UNCHANGED <<config, pc, proc, canceled, ended, stuck, initMut, world, tfstate, outcome>>

Next ==
    \E p \in Provisions :
        \/ Recv(p) \/ checkMinVersion(p) \/ WriteState(p) \/ LockInit(p)
        \/ Start(p) \/ interruptCommandOnCancel(p) \/ Apply(p)
        \/ \E ok \in BOOLEAN : Exit(p, ok)
        \/ LongLine(p) \/ Killed(p) \/ Wait(p)
        \/ Cancel(p) \/ End(p) \/ ExitTimeout(p)

\* The goroutines of a stream run; terraform init ends, and so does a command
\* that was interrupted, each in its own time.
Fairness ==
    \A p \in Provisions :
        /\ WF_vars(checkMinVersion(p)) /\ WF_vars(WriteState(p)) /\ WF_vars(LockInit(p))
        /\ WF_vars(Start(p)) /\ WF_vars(interruptCommandOnCancel(p))
        /\ WF_vars(Killed(p)) /\ WF_vars(Wait(p)) /\ WF_vars(ExitTimeout(p))
        /\ WF_vars(\E ok \in BOOLEAN : (pc[p] = "init" \/ proc[p] = "interrupted") /\ Exit(p, ok))

Spec == Init /\ [][Next]_vars /\ Fairness

-----------------------------------------------------------------------------

TypeOK ==
    /\ \A p \in Provisions :
          /\ pc[p] \in Commands \cup {"recv", "version", "state", "lock", "returned"}
          /\ proc[p] \in {"none", "running", "interrupted", "dead"}
          /\ {world[p], tfstate[p], outcome[p].state} \subseteq {Empty, Before, After}
          /\ outcome[p].answer \in {"none", "nothing", "error", "complete", "lost"}
    /\ initMut \subseteq Provisions /\ Cardinality(initMut) <= 1

\* "Terraform can fail and apply and still need to store it's state"
\* (provision.go): a caller that hears from the stream can tell which resources
\* exist, whatever failed or was canceled and when.  It keeps the state it has
\* unless the answer carries one.
StateReported ==
    \A p \in Provisions :
        (pc[p] = "returned" /\ outcome[p].answer # "lost") =>
            world[p] = IF outcome[p].state # Empty THEN outcome[p].state ELSE config[p].state

\* "Ensure processes are eventually cleaned up on [...] disconnect"
\* (provision.go): once the stream has ended no terraform process of it runs
\* for ever or is started again, not even one that ignores interrupts, whose
\* output nobody reads, or that waited for the mutex.
ProcessesCleanedUp == \A p \in Provisions : ended[p] ~> [](~Alive(p))

\* A canceled provision returns, from whatever step it is in, unless output
\* that nobody reads blocks it or the one it waits for.
CancelReturns ==
    \A p \in Provisions : canceled[p] ~> (pc[p] = "returned" \/ \E q \in Provisions : stuck[q])
=============================================================================
