---------------------------- MODULE ReplicaSync ----------------------------
(***************************************************************************)
(* The replicas of a deployment (enterprise/replicasync).  A replica has a *)
(* row in Postgres, which it renews, and reads the rows of its peers: in   *)
(* the goroutine loop, on a ticker, and in the goroutine of a              *)
(* notification.  Both run syncReplicas, possibly at the same time.        *)
(***************************************************************************)
EXTENDS Naturals, FiniteSets

CONSTANTS
    Replicas,
    MaxFaults      \* bounds how often replicas stall, crash, or cannot be dialed

VARIABLES
    life,          \* of each replica: what New and Close have done
    row,           \* table replicas
    peers,         \* Manager.peers
    selfError,     \* Manager.self.Error is not empty
    sync,          \* where the two callers of syncReplicas are
    held,          \* Close holds closeMutex
    updating, needsUpdate,     \* of subscribe
    notes,         \* notifications: <<about, to>>
    faults

vars == <<life, row, peers, selfError, sync, held, updating, needsUpdate, notes, faults>>

Callers == {"loop", "update"}
NoRow == [there |-> FALSE, fresh |-> FALSE, stopped |-> FALSE]
NewRow == [there |-> TRUE, fresh |-> TRUE, stopped |-> FALSE]

TypeOK ==
    /\ life \in [Replicas -> {"new", "inserted", "synced", "up", "closing", "waited", "closed", "crashed"}]
    /\ row \in [Replicas -> [there : BOOLEAN, fresh : BOOLEAN, stopped : BOOLEAN]]
    /\ peers \in [Replicas -> SUBSET Replicas] /\ selfError \in [Replicas -> BOOLEAN]
    /\ \A r \in Replicas, c \in Callers : sync[r][c].at \in {"idle", "lock", "query", "dial", "write"}
    /\ held \in [Replicas -> BOOLEAN]
    /\ updating \in [Replicas -> BOOLEAN] /\ needsUpdate \in [Replicas -> BOOLEAN]
    /\ notes \subseteq Replicas \X Replicas
    /\ faults \in 0 .. MaxFaults

AtRest == [c \in Callers |-> [at |-> "idle"]]

Init ==
    /\ life = [r \in Replicas |-> "new"]
    /\ row = [r \in Replicas |-> NoRow]
    /\ peers = [r \in Replicas |-> {}] /\ selfError = [r \in Replicas |-> FALSE]
    /\ sync = [r \in Replicas |-> AtRest]
    /\ held = [r \in Replicas |-> FALSE]
    /\ updating = [r \in Replicas |-> FALSE] /\ needsUpdate = [r \in Replicas |-> FALSE]
    /\ notes = {}
    /\ faults = 0

----------------------------------------------------------------------------
Alive(r) == life[r] \notin {"new", "closed", "crashed"}
Canceled(r) == life[r] \in {"closing", "waited", "closed"}

\* Publish: every subscriber but the replica itself, which ignores its own id.
Announce(r) == notes' = notes \union ({r} \X {q \in Replicas \ {r} : Alive(q) /\ life[q] # "inserted"})

\* New: InsertReplica, and the announcement.
Insert(r) ==
    /\ life[r] = "new"
    /\ life' = [life EXCEPT ![r] = "inserted"]
    /\ row' = [row EXCEPT ![r] = NewRow]
    /\ sync' = [sync EXCEPT ![r]["loop"] = [at |-> "lock"]]
    /\ Announce(r)
    /\ UNCHANGED <<peers, selfError, held, updating, needsUpdate, faults>>

\* New, after its own syncReplicas: subscribe and start the loop.
Start(r) ==
    /\ life[r] = "inserted" /\ sync[r]["loop"].at = "idle"
    /\ life' = [life EXCEPT ![r] = "up"]
    /\ UNCHANGED <<row, peers, selfError, sync, held, updating, needsUpdate, notes, faults>>

\* loop: the ticker fires.
Tick(r) ==
    /\ life[r] = "up" /\ sync[r]["loop"].at = "idle"
    /\ sync' = [sync EXCEPT ![r]["loop"] = [at |-> "lock"]]
    /\ UNCHANGED <<life, row, peers, selfError, held, updating, needsUpdate, notes, faults>>

\* loop: DeleteReplicasUpdatedBefore.
Cleanup(r) ==
    /\ life[r] = "up" /\ sync[r]["loop"].at = "idle"
    /\ \E q \in Replicas : row[q].there /\ ~row[q].fresh
    /\ row' = [q \in Replicas |-> IF row[q].there /\ ~row[q].fresh THEN NoRow ELSE row[q]]
    /\ UNCHANGED <<life, peers, selfError, sync, held, updating, needsUpdate, notes, faults>>

\* subscribe: the listener, for the announcement of another replica.
Notified(r, about) ==
    /\ <<about, r>> \in notes
    /\ notes' = notes \ {<<about, r>>}
    /\ IF life[r] # "up" THEN UNCHANGED <<updating, needsUpdate, sync>>
       ELSE IF updating[r]
       THEN needsUpdate' = [needsUpdate EXCEPT ![r] = TRUE] /\ UNCHANGED <<updating, sync>>
       ELSE /\ updating' = [updating EXCEPT ![r] = TRUE]
            /\ sync' = [sync EXCEPT ![r]["update"] = [at |-> "lock"]]
            /\ UNCHANGED needsUpdate
    /\ UNCHANGED <<life, row, peers, selfError, held, faults>>

----------------------------------------------------------------------------
(* syncReplicas, for either caller.                                         *)

\* What follows syncReplicas: loop waits for the next tick, update runs again if needed.
Return(r, c) ==
    IF c = "loop"
    THEN /\ sync' = [sync EXCEPT ![r][c] = [at |-> "idle"]]
         /\ UNCHANGED <<updating, needsUpdate>>
    ELSE /\ sync' = [sync EXCEPT ![r][c] = [at |-> IF needsUpdate[r] THEN "lock" ELSE "idle"]]
         /\ needsUpdate' = [needsUpdate EXCEPT ![r] = FALSE]
         /\ updating' = [updating EXCEPT ![r] = needsUpdate[r]]

SyncLock(r, c) ==
    /\ sync[r][c].at = "lock" /\ ~held[r]
    /\ sync' = [sync EXCEPT ![r][c] = [at |-> "query"]]
    /\ UNCHANGED <<life, row, peers, selfError, held, updating, needsUpdate, notes, faults>>

\* A canceled context, or a database that does not answer, ends the call early.
SyncFails(r, c) ==
    /\ sync[r][c].at \in {"query", "write"} /\ Canceled(r)
    /\ Return(r, c)
    /\ UNCHANGED <<life, row, peers, selfError, held, notes, faults>>

\* Mutant of Found: a replica that no longer updates its row is found for ever.
FoundStale(r) == {q \in Replicas \ {r} : row[q].there /\ ~row[q].stopped}

\* GetReplicasUpdatedAfter, less the replica itself.
Found(r) == {q \in Replicas \ {r} : row[q].there /\ row[q].fresh /\ ~row[q].stopped}

SyncQuery(r, c) ==
    /\ sync[r][c].at = "query" /\ ~Canceled(r)
    /\ sync' = [sync EXCEPT ![r][c] = [at |-> "dial", found |-> Found(r)]]
    /\ UNCHANGED <<life, row, peers, selfError, held, updating, needsUpdate, notes, faults>>

\* peers is replaced, and the peers are dialed: those that are gone do not answer.
SyncDial(r, c) ==
    LET found == sync[r][c].found IN
    /\ sync[r][c].at = "dial"
    /\ peers' = [peers EXCEPT ![r] = found]
    /\ sync' = [sync EXCEPT ![r][c] = [at |-> "write", error |-> \E q \in found : ~Alive(q)]]
    /\ UNCHANGED <<life, row, selfError, held, updating, needsUpdate, notes, faults>>

\* UpdateReplica: stopped_at is written from Manager.self, where it is never set.
Revived(r) == IF row[r].there THEN NewRow ELSE NoRow

\* UpdateReplica, the announcement of a changed error, and the callback; a row that is gone
\* is an error.  The statement may be under way when the context is canceled.
SyncWrite(r, c) ==
    LET error == sync[r][c].error IN
    /\ sync[r][c].at = "write"
    /\ row' = [row EXCEPT ![r] = Revived(r)]
    /\ IF row[r].there
       THEN /\ IF selfError[r] # error THEN Announce(r) ELSE UNCHANGED notes
            /\ selfError' = [selfError EXCEPT ![r] = error]
       ELSE UNCHANGED <<notes, selfError>>
    /\ Return(r, c)
    /\ UNCHANGED <<life, peers, held, faults>>

----------------------------------------------------------------------------
(* Close.                                                                   *)

\* closeMutex, the closed channel and the cancelation.
CloseBegin(r) ==
    /\ life[r] = "up" /\ ~held[r]
    /\ held' = [held EXCEPT ![r] = TRUE]
    /\ life' = [life EXCEPT ![r] = "closing"]
    /\ UNCHANGED <<row, peers, selfError, sync, updating, needsUpdate, notes, faults>>

\* Mutant of Waited: Close does not wait for the goroutines.
WaitedNot(r) == TRUE

\* closeWait: loop has returned, and no syncReplicas is past its first lines.
Waited(r) ==
    /\ sync[r]["loop"].at = "idle"
    /\ \A c \in Callers : sync[r][c].at \in {"idle", "lock"}

CloseWait(r) ==
    /\ life[r] = "closing" /\ Waited(r)
    /\ held' = [held EXCEPT ![r] = FALSE]
    /\ life' = [life EXCEPT ![r] = "waited"]
    /\ UNCHANGED <<row, peers, selfError, sync, updating, needsUpdate, notes, faults>>

\* UpdateReplica with stopped_at, and the announcement.
CloseWrite(r) ==
    /\ life[r] = "waited"
    /\ life' = [life EXCEPT ![r] = "closed"]
    /\ row' = [row EXCEPT ![r] = IF @.there THEN [@ EXCEPT !.fresh = TRUE, !.stopped = TRUE] ELSE @]
    /\ IF row[r].there THEN Announce(r) ELSE UNCHANGED notes
    /\ UNCHANGED <<peers, selfError, sync, held, updating, needsUpdate, faults>>

----------------------------------------------------------------------------
(* Faults.                                                                  *)

\* Three update intervals pass without an update by the replica.
Stall(r) ==
    /\ row[r].there /\ row[r].fresh /\ (life[r] \in {"closed", "crashed"} \/ faults < MaxFaults)
    /\ row' = [row EXCEPT ![r].fresh = FALSE]
    /\ faults' = IF life[r] \in {"closed", "crashed"} THEN faults ELSE faults + 1
    /\ UNCHANGED <<life, peers, selfError, sync, held, updating, needsUpdate, notes>>

Crash(r) ==
    /\ Alive(r) /\ faults < MaxFaults
    /\ life' = [life EXCEPT ![r] = "crashed"]
    /\ sync' = [sync EXCEPT ![r] = AtRest]
    /\ notes' = {n \in notes : n[2] # r}
    /\ faults' = faults + 1
    /\ UNCHANGED <<row, peers, selfError, held, updating, needsUpdate>>

SyncStep(r, c) == SyncLock(r, c) \/ SyncFails(r, c) \/ SyncQuery(r, c) \/ SyncDial(r, c) \/ SyncWrite(r, c)
CloseStep(r) == CloseWait(r) \/ CloseWrite(r)

Next ==
    \E r \in Replicas :
        \/ Insert(r) \/ Start(r) \/ Tick(r) \/ Cleanup(r) \/ CloseBegin(r) \/ CloseStep(r)
        \/ \E q \in Replicas : Notified(r, q)
        \/ \E c \in Callers : SyncStep(r, c)
        \/ Stall(r) \/ Crash(r)

Spec == Init /\ [][Next]_vars

\* Goroutines are scheduled, the ticker fires, and time passes for the row of a replica
\* that is gone; nobody has to start, close or clean up.
Fairness ==
    \A r \in Replicas :
        /\ WF_vars(Start(r)) /\ WF_vars(Tick(r)) /\ WF_vars(CloseStep(r))
        /\ \A c \in Callers : WF_vars(SyncStep(r, c))
        /\ WF_vars(life[r] \in {"closed", "crashed"} /\ Stall(r))

FairSpec == Spec /\ Fairness

----------------------------------------------------------------------------
\* A replica that has stopped is not made to look alive again: Close waits for what
\* syncReplicas, which writes stopped_at too, has under way.
StaysStopped == \A r \in Replicas : row[r].stopped => row'[r].stopped \/ ~row'[r].there
StoppedIsFinal == [][StaysStopped]_vars

\* Replicas find each other and forget each other, whichever of the concurrent
\* syncReplicas stores its peers last: a replica whose row is kept becomes a peer, and one
\* that stopped or crashed ceases to be one.
PeersConverge ==
    \A r, q \in Replicas : r # q =>
        /\ <>[](life[r] = "up" /\ life[q] = "up" /\ row[q].there) => <>[](q \in peers[r])
        /\ <>[](life[r] = "up" /\ life[q] \in {"closed", "crashed"}) => <>[](q \notin peers[r])

\* The tests of replicasync close the manager and go on: Close returns.
CloseReturns == \A r \in Replicas : life[r] = "closing" ~> life[r] \notin {"closing", "waited"}
============================================================================
