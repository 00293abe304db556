-------------------------- MODULE ReconnectingPTY --------------------------
(***************************************************************************)
(* The reconnecting PTYs of the agent that share one ID: the connections   *)
(* that handleReconnectingPTY serves, the entry of the map                 *)
(* reconnectingPTYs, the goroutines of each PTY and its timeout            *)
(* (agent/agent.go).  Output is numbered; the circular buffer keeps the    *)
(* last BufferSize pieces of it.                                           *)
(***************************************************************************)
EXTENDS Integers

CONSTANTS
    Conns,          \* the connections that come in with this ID
    MaxPTYs,        \* PTYs that may be started
    MaxOutput,      \* pieces of output of each PTY
    BufferSize      \* the capacity of the circular buffer, in pieces

VARIABLES
    entry,          \* reconnectingPTYs at this ID, 0 when there is none
    pty,            \* the PTYs and their goroutines
    conn            \* the connections and their handlers

vars == <<entry, pty, conn>>

PTYs == 1 .. MaxPTYs

Unused ==
    [process |-> "none", waiter |-> "none", reader |-> "none", open |-> FALSE,
     written |-> 0, cleared |-> 0, sent |-> 0, activeConns |-> {},
     timeout |-> FALSE, canceled |-> FALSE]

TypeOK ==
    /\ entry \in 0 .. MaxPTYs
    /\ pty \in [PTYs -> [process : {"none", "running", "dead"},
                         waiter : {"none", "waiting", "done"},
                         reader : {"none", "reading", "sending", "cleanup", "delete", "done"},
                         open : BOOLEAN,
                         written : 0 .. MaxOutput, cleared : 0 .. MaxOutput,
                         sent : 0 .. MaxOutput, activeConns : SUBSET Conns,
                         timeout : BOOLEAN, canceled : BOOLEAN]]
    /\ conn \in [Conns -> [at : {"new", "create", "replay", "register", "serving", "ended"},
                           pty : 0 .. MaxPTYs, created : BOOLEAN, open : BOOLEAN,
                           got : SUBSET (1 .. MaxOutput)]]

Ended == [at |-> "ended", pty |-> 0, created |-> FALSE, open |-> FALSE, got |-> {}]

Init ==
    /\ entry = 0
    /\ pty = [i \in PTYs |-> Unused]
    /\ conn = [c \in Conns |-> [at |-> "new", pty |-> 0, created |-> FALSE,
                                open |-> TRUE, got |-> {}]]

\* The pieces in the circular buffer of a PTY.
Buffered(p) == {k \in p.cleared + 1 .. p.written : k > p.written - BufferSize}

\* reconnectingPTY.Close: every active connection and the PTY are closed, the
\* buffer is cleared and the timeout stopped.
Closed(p) == [p EXCEPT !.open = FALSE, !.cleared = p.written, !.timeout = FALSE]
Hung(set) == [c \in Conns |-> IF c \in set THEN [conn[c] EXCEPT !.open = FALSE] ELSE conn[c]]

-----------------------------------------------------------------------------
(* handleReconnectingPTY, for connection c *)

\* The map is looked at.
Load(c) ==
    /\ conn[c].at = "new"
    /\ conn' = [conn EXCEPT ![c].at = IF entry = 0 THEN "create" ELSE "replay",
                            ![c].pty = entry]
    /\ UNCHANGED <<entry, pty>>

\* Mutant of FirstConns: the connection is added when it has been replayed.
FirstConnsNone(c) == {}

\* "We have to put the connection in the map instantly otherwise the
\* connection won't be closed if the process instantly dies."
FirstConns(c) == {c}

\* There was none: a process is started and stored, whatever the map holds by now.
Create(c) ==
    /\ conn[c].at = "create"
    /\ \E i \in PTYs :
         /\ pty[i] = Unused
         /\ \A j \in PTYs : j < i => pty[j] # Unused
         /\ pty' = [pty EXCEPT ![i] = [Unused EXCEPT
                !.process = "running", !.waiter = "waiting", !.reader = "reading",
                !.open = TRUE, !.activeConns = FirstConns(c), !.timeout = TRUE]]
         /\ entry' = i
         /\ conn' = [conn EXCEPT ![c].at = "replay", ![c].pty = i, ![c].created = TRUE]

\* createCommand or pty.Start fails and the connection is closed.
CreateFails(c) ==
    /\ conn[c].at = "create"
    /\ conn' = [conn EXCEPT ![c] = Ended]
    /\ UNCHANGED <<entry, pty>>

\* The stored output is written to the connection.
Replay(c) ==
    /\ conn[c].at = "replay"
    /\ conn' = [conn EXCEPT ![c] =
            IF conn[c].open
            THEN [conn[c] EXCEPT !.at = "register",
                                 !.got = conn[c].got \union Buffered(pty[conn[c].pty])]
            ELSE Ended]
    /\ UNCHANGED <<entry, pty>>

\* It is added to activeConns and the timeout is reset.
Register(c) ==
    /\ conn[c].at = "register"
    /\ pty' = [pty EXCEPT ![conn[c].pty].activeConns = @ \union {c},
                          ![conn[c].pty].timeout = TRUE]
    /\ conn' = [conn EXCEPT ![c].at = "serving"]
    /\ UNCHANGED entry

\* The read fails because the connection is closed, or input cannot be
\* written to a PTY that is closed; the deferred calls clean up.
EndServing(c) ==
    /\ conn[c].at = "serving"
    /\ ~conn[c].open \/ ~pty[conn[c].pty].open
    /\ pty' = [pty EXCEPT ![conn[c].pty].activeConns = @ \ {c}]
    /\ conn' = [conn EXCEPT ![c] = Ended]
    /\ UNCHANGED entry

\* The user closes the terminal.
Leave(c) ==
    /\ conn[c].at # "new" /\ conn[c].open
    /\ conn' = [conn EXCEPT ![c].open = FALSE]
    /\ UNCHANGED <<entry, pty>>

-----------------------------------------------------------------------------
(* The goroutines of PTY i *)

\* A piece of output is read and written to the circular buffer.
Output(i) ==
    /\ pty[i].reader = "reading" /\ pty[i].open /\ pty[i].written < MaxOutput
    /\ pty' = [pty EXCEPT ![i].written = @ + 1, ![i].reader = "sending"]
    /\ UNCHANGED <<entry, conn>>

\* It is written to the connections that are active now.
Send(i) ==
    /\ pty[i].reader = "sending"
    /\ pty' = [pty EXCEPT ![i].sent = pty[i].written, ![i].reader = "reading"]
    /\ conn' = [c \in Conns |->
            IF c \in pty[i].activeConns /\ conn[c].open
            THEN [conn[c] EXCEPT !.got = @ \union {pty[i].written}] ELSE conn[c]]
    /\ UNCHANGED entry

\* The read fails since the PTY is closed: the process is killed and the PTY
\* closed once more.
ReadFails(i) ==
    /\ pty[i].reader = "reading" /\ ~pty[i].open
    /\ pty' = [pty EXCEPT ![i].reader = "cleanup"]
    /\ UNCHANGED <<entry, conn>>

Cleanup(i) ==
    /\ pty[i].reader = "cleanup"
    /\ pty' = [pty EXCEPT ![i] = [Closed(@) EXCEPT !.process = "dead", !.reader = "delete"]]
    /\ conn' = Hung(pty[i].activeConns)
    /\ UNCHANGED entry

\* Mutant of Remaining: the map keeps its entry.
RemainingSame(i) == entry

\* The entry of the ID is deleted, whichever PTY it is by now.
Remaining(i) == 0

Delete(i) ==
    /\ pty[i].reader = "delete"
    /\ entry' = Remaining(i)
    /\ pty' = [pty EXCEPT ![i] = [Unused EXCEPT !.process = "dead", !.reader = "done",
                                   !.waiter = pty[i].waiter, !.activeConns = pty[i].activeConns]]
    /\ UNCHANGED conn

\* process.Wait returns and the PTY is closed.
WaitReturns(i) ==
    /\ pty[i].waiter = "waiting" /\ pty[i].process = "dead"
    /\ pty' = [pty EXCEPT ![i] = [Closed(@) EXCEPT !.waiter = "done"]]
    /\ conn' = Hung(pty[i].activeConns)
    /\ UNCHANGED entry

\* Mutant of KeepsAlive: the heartbeat goes on after the handler returned.
KeepsAliveEnded(c, i) == conn[c].at = "ended" \/ (conn[c].pty = i /\ conn[c].at = "serving")

\* The heartbeat of a connection that is served resets the timeout every half of it.
KeepsAlive(c, i) == conn[c].pty = i /\ conn[c].at = "serving"

TimeoutFires(i) ==
    /\ pty[i].timeout
    /\ ~ \E c \in Conns : KeepsAlive(c, i)
    /\ pty' = [pty EXCEPT ![i].timeout = FALSE, ![i].canceled = TRUE]
    /\ UNCHANGED <<entry, conn>>

Kill(i) ==
    /\ pty[i].process = "running" /\ pty[i].canceled
    /\ pty' = [pty EXCEPT ![i].process = "dead"]
    /\ UNCHANGED <<entry, conn>>

\* The process exits by itself.
Exit(i) ==
    /\ pty[i].process = "running"
    /\ pty' = [pty EXCEPT ![i].process = "dead"]
    /\ UNCHANGED <<entry, conn>>

\* The agent is closed: the context of every PTY is canceled, and no more are
\* started.
ParentDone ==
    /\ pty' = [i \in PTYs |-> [pty[i] EXCEPT !.canceled = pty[i].process = "running"]]
    /\ conn' = [c \in Conns |-> IF conn[c].at \in {"new", "create"} THEN Ended ELSE conn[c]]
    /\ UNCHANGED entry

Handler(c) == Load(c) \/ Create(c) \/ CreateFails(c) \/ Replay(c) \/ Register(c) \/ EndServing(c)
Goroutines(i) ==
    \/ Send(i) \/ ReadFails(i) \/ Cleanup(i) \/ Delete(i)
    \/ WaitReturns(i) \/ TimeoutFires(i) \/ Kill(i)

Next ==
    \/ \E c \in Conns : Handler(c) \/ Leave(c)
    \/ \E i \in PTYs : Goroutines(i) \/ Output(i) \/ Exit(i)
    \/ ParentDone

Spec == Init /\ [][Next]_vars

\* Handlers and goroutines run; terminals need not be opened, used or left.
Fairness ==
    /\ \A c \in Conns : WF_vars(Create(c) \/ CreateFails(c) \/ Replay(c) \/ Register(c) \/ EndServing(c))
    /\ \A i \in PTYs : WF_vars(Goroutines(i))

FairSpec == Spec /\ Fairness

-----------------------------------------------------------------------------

\* The map never holds a PTY that has been cleaned up, so that a connection
\* that looks it up finds one whose goroutines are still there to close it.
NoDeadEntry == entry # 0 => pty[entry].reader # "done"

\* The connection that starts a PTY sees all of its output: what was sent
\* before its replay as well as what comes after.
CreatorMissesNothing ==
    \A c \in Conns :
        (conn[c].created /\ conn[c].open) => 1 .. pty[conn[c].pty].sent \subseteq conn[c].got

\* It is closed when the process dies, however early.
CreatorIsClosed ==
    \A c \in Conns :
        (conn[c].created /\ pty[conn[c].pty].reader = "done") => ~conn[c].open

\* A PTY that nobody is connected to is killed, unless somebody connects to it.
IdleIsKilled ==
    \A i \in PTYs :
        (pty[i].process = "running" /\ \A c \in Conns : conn[c].pty = i => ~conn[c].open)
            ~> (pty[i].process = "dead" \/ \E c \in Conns : conn[c].pty = i /\ conn[c].open)

\* "After this connection ends, remove it from the PTYs active connections":
\* the connection that created the PTY stays there when its replay fails.
EndedIsRemoved ==
    \A c \in Conns : \A i \in PTYs : c \in pty[i].activeConns => conn[c].at # "ended"

\* Two connections with the same ID show the same terminal.
OneTerminal ==
    \A c, d \in Conns :
        (conn[c].at = "serving" /\ conn[d].at = "serving") => conn[c].pty = conn[d].pty

\* Every connection is closed when its PTY has been cleaned up.
NobodyOnDeadPTY ==
    \A c \in Conns :
        (conn[c].at = "serving" /\ pty[conn[c].pty].reader = "done") => ~conn[c].open
=============================================================================
