--------------------------- MODULE ReplicasProofs ---------------------------
(***************************************************************************)
(* Proofs about what connects replicas and agents, as MCReplicas composes  *)
(* it: the rows of the replicas (ReplicaSync), the cache of connections    *)
(* (WSConnCache), the tailnet connection (TailnetConn) and the row of an   *)
(* agent (AgentConnection), for any number of replicas, requests,          *)
(* connections, peers and sessions.                                        *)
(***************************************************************************)
EXTENDS MCReplicas, FiniteSetTheorems, TLAPS

(* The rows of the replicas.                                               *)

ReplicaBounds == MaxFaults \in Nat

\* What a caller of syncReplicas keeps: the replicas it has found, then whether one did not answer.
SyncRow == [at : {"idle", "lock", "query"}] \union [at : {"dial"}, found : SUBSET Replicas] \union [at : {"write"}, error : BOOLEAN]
Lives == {"new", "inserted", "synced", "up", "closing", "waited", "closed", "crashed"}
ReplicaRow == [there : BOOLEAN, fresh : BOOLEAN, stopped : BOOLEAN]

ReplicasTyped ==
    /\ life \in [Replicas -> Lives]
    /\ row_replicas \in [Replicas -> ReplicaRow]
    /\ peers \in [Replicas -> SUBSET Replicas] /\ selfError \in [Replicas -> BOOLEAN]
    /\ sync \in [Replicas -> [R!Callers -> SyncRow]]
    /\ held \in [Replicas -> BOOLEAN]
    /\ updating \in [Replicas -> BOOLEAN] /\ needsUpdate \in [Replicas -> BOOLEAN]
    /\ notes \subseteq Replicas \X Replicas
    /\ faults_replicas \in 0 .. MaxFaults

\* Only Close writes that a replica has stopped, and it waits for those that write otherwise: a caller
\* that goes on finds the context canceled.
Quiet(r) == \A c \in R!Callers : sync[r][c].at \in {"idle", "lock", "query"}
ReplicaStops(r) ==
    /\ life[r] \in {"waited", "closed"} => Quiet(r)
    /\ row_replicas[r].stopped => life[r] = "closed"

ReplicasInv == ReplicasTyped /\ \A r \in Replicas : ReplicaStops(r)

LEMMA SyncIs ==
  ASSUME ReplicasTyped, NEW r \in Replicas, NEW c \in R!Callers
  PROVE  /\ sync[r][c].at \in {"idle", "lock", "query", "dial", "write"}
         /\ sync[r][c].at = "dial" => sync[r][c].found \subseteq Replicas
         /\ sync[r][c].at = "write" => sync[r][c].error \in BOOLEAN
<1>1. sync[r][c] \in SyncRow
  BY DEF ReplicasTyped
<1> QED BY <1>1 DEF SyncRow

LEMMA InitReplicas == ASSUME ReplicaBounds, R!Init PROVE ReplicasInv
<1>1. R!AtRest \in [R!Callers -> SyncRow]
  BY DEF R!AtRest, SyncRow
<1>2. R!NoRow \in ReplicaRow /\ ~R!NoRow.stopped
  BY DEF R!NoRow, ReplicaRow
<1>3. faults_replicas \in 0 .. MaxFaults
  BY DEF ReplicaBounds, R!Init
<1>4. ReplicasTyped
  BY <1>1, <1>2, <1>3 DEF R!Init, ReplicasTyped, Lives
<1>5. \A r \in Replicas : ReplicaStops(r)
  BY <1>2 DEF R!Init, ReplicaStops
<1> QED BY <1>4, <1>5 DEF ReplicasInv

\* A step of one caller of syncReplicas.
LEMMA CallerMoves ==
  ASSUME ReplicasInv, NEW r \in Replicas, NEW c \in R!Callers, NEW w \in SyncRow,
         sync' = [sync EXCEPT ![r][c] = w], UNCHANGED <<life, row_replicas>>,
         w.at \in {"dial", "write"} => life[r] \notin {"waited", "closed"}
  PROVE  sync' \in [Replicas -> [R!Callers -> SyncRow]] /\ \A q \in Replicas : ReplicaStops(q)'
<1>0. sync \in [Replicas -> [R!Callers -> SyncRow]]
  BY DEF ReplicasInv, ReplicasTyped
<1>1. sync' \in [Replicas -> [R!Callers -> SyncRow]]
  BY <1>0
<1>2. \A q \in Replicas : \A d \in R!Callers : sync'[q][d] = IF q = r /\ d = c THEN w ELSE sync[q][d]
  BY <1>0
<1>3. w.at \in {"idle", "lock", "query", "dial", "write"}
  BY DEF SyncRow
<1>4. ASSUME NEW q \in Replicas PROVE ReplicaStops(q)'
  <2>1. life[q] \in {"waited", "closed"} => \A d \in R!Callers : sync'[q][d].at \in {"idle", "lock", "query"}
    BY <1>2, <1>3 DEF ReplicasInv, ReplicaStops, Quiet
  <2> QED BY <2>1 DEF ReplicasInv, ReplicaStops, Quiet
<1> QED BY <1>1, <1>4

\* Where syncReplicas returns to.
LEMMA ReturnIs ==
  ASSUME ReplicasInv, NEW r \in Replicas, NEW c \in R!Callers, R!Return(r, c)
  PROVE  /\ \E w \in SyncRow : w.at \in {"idle", "lock"} /\ sync' = [sync EXCEPT ![r][c] = w]
         /\ updating' \in [Replicas -> BOOLEAN] /\ needsUpdate' \in [Replicas -> BOOLEAN]
<1>1. \A s \in {"idle", "lock"} : [at |-> s] \in SyncRow /\ [at |-> s].at = s
  BY DEF SyncRow
<1>2. \E w \in SyncRow : w.at \in {"idle", "lock"} /\ sync' = [sync EXCEPT ![r][c] = w]
  <2>1. CASE c = "loop"
    BY <1>1, <2>1 DEF R!Return
  <2>2. CASE c # "loop"
    BY <1>1, <2>2 DEF R!Return
  <2> QED BY <2>1, <2>2
<1>3. updating' \in [Replicas -> BOOLEAN] /\ needsUpdate' \in [Replicas -> BOOLEAN]
  BY DEF R!Return, ReplicasInv, ReplicasTyped
<1> QED BY <1>2, <1>3

LEMMA AnnounceIs ==
  ASSUME ReplicasInv, NEW r \in Replicas, R!Announce(r)
  PROVE  notes' \subseteq Replicas \X Replicas
BY DEF R!Announce, ReplicasInv, ReplicasTyped

LEMMA NewRowIs == R!NewRow \in ReplicaRow /\ ~R!NewRow.stopped /\ R!NoRow \in ReplicaRow /\ ~R!NoRow.stopped
BY DEF R!NewRow, R!NoRow, ReplicaRow

\* A row of one replica is written.
LEMMA RowMoves ==
  ASSUME ReplicasInv, NEW r \in Replicas, NEW w \in ReplicaRow,
         row_replicas' = [row_replicas EXCEPT ![r] = w], UNCHANGED sync, life' = life \/ life' = [life EXCEPT ![r] = "closed"],
         life' # life => life[r] = "waited",
         w.stopped => life'[r] = "closed"
  PROVE  /\ row_replicas' \in [Replicas -> ReplicaRow] /\ life' \in [Replicas -> Lives]
         /\ \A q \in Replicas : ReplicaStops(q)'
<1>0. row_replicas \in [Replicas -> ReplicaRow] /\ life \in [Replicas -> Lives]
  BY DEF ReplicasInv, ReplicasTyped
<1>1. row_replicas' \in [Replicas -> ReplicaRow] /\ life' \in [Replicas -> Lives]
  BY <1>0 DEF Lives
<1>2. ASSUME NEW q \in Replicas PROVE ReplicaStops(q)'
  <2>1. CASE q = r
    <3>1. row_replicas'[q].stopped => life'[q] = "closed"
      BY <1>0, <2>1
    <3>2. life'[q] \in {"waited", "closed"} => life[q] \in {"waited", "closed"}
      BY <1>0, <2>1
    <3> QED BY <3>1, <3>2 DEF ReplicasInv, ReplicaStops, Quiet
  <2>2. CASE q # r
    BY <1>0, <2>2 DEF ReplicasInv, ReplicaStops, Quiet
  <2> QED BY <2>1, <2>2
<1> QED BY <1>1, <1>2

LEMMA SyncKeeps ==
  ASSUME ReplicaBounds, ReplicasInv, NEW r \in Replicas, NEW c \in R!Callers, R!SyncStep(r, c)
  PROVE  ReplicasInv'
<1>1. CASE R!SyncLock(r, c)
  <2>1. [at |-> "query"] \in SyncRow /\ [at |-> "query"].at = "query"
    BY DEF SyncRow
  <2>2. sync' = [sync EXCEPT ![r][c] = [at |-> "query"]] /\ UNCHANGED <<life, row_replicas, peers, selfError, held, updating, needsUpdate, notes, faults_replicas>>
    BY <1>1 DEF R!SyncLock
  <2>3. sync' \in [Replicas -> [R!Callers -> SyncRow]] /\ \A q \in Replicas : ReplicaStops(q)'
    BY <2>1, <2>2, CallerMoves
  <2> QED BY <2>2, <2>3 DEF ReplicasInv, ReplicasTyped
<1>2. CASE R!SyncFails(r, c)
  <2>1. PICK w \in SyncRow : w.at \in {"idle", "lock"} /\ sync' = [sync EXCEPT ![r][c] = w]
    BY <1>2, ReturnIs DEF R!SyncFails
  <2>2. updating' \in [Replicas -> BOOLEAN] /\ needsUpdate' \in [Replicas -> BOOLEAN]
    BY <1>2, ReturnIs DEF R!SyncFails
  <2>3. UNCHANGED <<life, row_replicas, peers, selfError, held, notes, faults_replicas>>
    BY <1>2 DEF R!SyncFails
  <2>4. sync' \in [Replicas -> [R!Callers -> SyncRow]] /\ \A q \in Replicas : ReplicaStops(q)'
    BY <2>1, <2>3, CallerMoves
  <2> QED BY <2>2, <2>3, <2>4 DEF ReplicasInv, ReplicasTyped
<1>3. CASE R!SyncQuery(r, c)
  <2>1. R!Found(r) \subseteq Replicas
    BY DEF R!Found
  <2>2. PICK w : w = [at |-> "dial", found |-> R!Found(r)]
    OBVIOUS
  <2>3. w \in SyncRow /\ w.at = "dial"
    BY <2>1, <2>2 DEF SyncRow
  <2>4. /\ sync' = [sync EXCEPT ![r][c] = w] /\ life[r] \notin {"waited", "closed"}
        /\ UNCHANGED <<life, row_replicas, peers, selfError, held, updating, needsUpdate, notes, faults_replicas>>
    BY <1>3, <2>2 DEF R!SyncQuery, R!Canceled
  <2>5. sync' \in [Replicas -> [R!Callers -> SyncRow]] /\ \A q \in Replicas : ReplicaStops(q)'
    BY <2>3, <2>4, CallerMoves
  <2> QED BY <2>4, <2>5 DEF ReplicasInv, ReplicasTyped
<1>4. CASE R!SyncDial(r, c)
  <2>0. sync[r][c].at = "dial" /\ sync[r][c].found \subseteq Replicas
    BY <1>4, SyncIs DEF R!SyncDial, ReplicasInv
  <2>1. life[r] \notin {"waited", "closed"}
    BY <2>0 DEF ReplicasInv, ReplicaStops, Quiet
  <2>2. PICK w : w = [at |-> "write", error |-> \E q \in sync[r][c].found : ~R!Alive(q)]
    OBVIOUS
  <2>3. w \in SyncRow /\ w.at = "write"
    BY <2>2 DEF SyncRow
  <2>4. /\ sync' = [sync EXCEPT ![r][c] = w] /\ peers' = [peers EXCEPT ![r] = sync[r][c].found]
        /\ UNCHANGED <<life, row_replicas, selfError, held, updating, needsUpdate, notes, faults_replicas>>
    BY <1>4, <2>2 DEF R!SyncDial
  <2>5. sync' \in [Replicas -> [R!Callers -> SyncRow]] /\ \A q \in Replicas : ReplicaStops(q)'
    BY <2>1, <2>3, <2>4, CallerMoves
  <2>6. peers' \in [Replicas -> SUBSET Replicas]
    BY <2>0, <2>4 DEF ReplicasInv, ReplicasTyped
  <2> QED BY <2>4, <2>5, <2>6 DEF ReplicasInv, ReplicasTyped
<1>5. CASE R!SyncWrite(r, c)
  <2>0. sync[r][c].at = "write" /\ sync[r][c].error \in BOOLEAN
    BY <1>5, SyncIs DEF R!SyncWrite, ReplicasInv
  <2>1. life[r] \notin {"waited", "closed"}
    BY <2>0 DEF ReplicasInv, ReplicaStops, Quiet
  <2>2. PICK w \in SyncRow : w.at \in {"idle", "lock"} /\ sync' = [sync EXCEPT ![r][c] = w]
    BY <1>5, ReturnIs DEF R!SyncWrite
  <2>3. updating' \in [Replicas -> BOOLEAN] /\ needsUpdate' \in [Replicas -> BOOLEAN]
    BY <1>5, ReturnIs DEF R!SyncWrite
  <2>4. UNCHANGED <<life, peers, held, faults_replicas>>
    BY <1>5 DEF R!SyncWrite
  <2>5. R!Revived(r) \in ReplicaRow /\ ~R!Revived(r).stopped /\ row_replicas' = [row_replicas EXCEPT ![r] = R!Revived(r)]
    BY <1>5, NewRowIs DEF R!SyncWrite, R!Revived
  <2>6. notes' \subseteq Replicas \X Replicas /\ selfError' \in [Replicas -> BOOLEAN]
    BY <1>5, <2>0, AnnounceIs DEF R!SyncWrite, ReplicasInv, ReplicasTyped
  <2>7. sync \in [Replicas -> [R!Callers -> SyncRow]] /\ row_replicas \in [Replicas -> ReplicaRow]
    BY DEF ReplicasInv, ReplicasTyped
  <2>8. sync' \in [Replicas -> [R!Callers -> SyncRow]] /\ row_replicas' \in [Replicas -> ReplicaRow]
    BY <2>2, <2>5, <2>7
  <2>9. ASSUME NEW q \in Replicas PROVE ReplicaStops(q)'
    <3>1. CASE q = r
      BY <2>1, <2>4, <2>5, <2>7, <3>1 DEF ReplicaStops
    <3>2. CASE q # r
      <4>1. sync'[q] = sync[q] /\ row_replicas'[q] = row_replicas[q]
        BY <2>2, <2>5, <2>7, <3>2
      <4> QED BY <2>4, <4>1 DEF ReplicasInv, ReplicaStops, Quiet
    <3> QED BY <3>1, <3>2
  <2> QED BY <2>3, <2>4, <2>6, <2>8, <2>9 DEF ReplicasInv, ReplicasTyped
<1> QED BY <1>1, <1>2, <1>3, <1>4, <1>5 DEF R!SyncStep

LEMMA LifeMoves ==
  ASSUME ReplicasInv, NEW r \in Replicas, NEW l \in Lives, life' = [life EXCEPT ![r] = l],
         UNCHANGED <<row_replicas, sync>>, life[r] # "closed",
         l \in {"waited", "closed"} => Quiet(r)
  PROVE  life' \in [Replicas -> Lives] /\ \A q \in Replicas : ReplicaStops(q)'
<1>0. life \in [Replicas -> Lives]
  BY DEF ReplicasInv, ReplicasTyped
<1>1. life' \in [Replicas -> Lives]
  BY <1>0
<1>2. ASSUME NEW q \in Replicas PROVE ReplicaStops(q)'
  <2>1. CASE q = r
    BY <1>0, <2>1 DEF ReplicasInv, ReplicaStops, Quiet
  <2>2. CASE q # r
    BY <1>0, <2>2 DEF ReplicasInv, ReplicaStops, Quiet
  <2> QED BY <2>1, <2>2
<1> QED BY <1>1, <1>2

LEMMA InsertKeeps == ASSUME ReplicasInv, NEW r \in Replicas, R!Insert(r) PROVE ReplicasInv'
<1>0. sync \in [Replicas -> [R!Callers -> SyncRow]] /\ row_replicas \in [Replicas -> ReplicaRow] /\ life \in [Replicas -> Lives]
  BY DEF ReplicasInv, ReplicasTyped
<1>1. [at |-> "lock"] \in SyncRow /\ "loop" \in R!Callers /\ "inserted" \in Lives
  BY DEF SyncRow, R!Callers, Lives
<1>2. sync' \in [Replicas -> [R!Callers -> SyncRow]] /\ row_replicas' \in [Replicas -> ReplicaRow] /\ life' \in [Replicas -> Lives]
  BY <1>0, <1>1, NewRowIs DEF R!Insert
<1>3. notes' \subseteq Replicas \X Replicas
  BY AnnounceIs DEF R!Insert
<1>4. ASSUME NEW q \in Replicas PROVE ReplicaStops(q)'
  <2>1. CASE q = r
    BY <1>0, <2>1, NewRowIs DEF R!Insert, ReplicaStops
  <2>2. CASE q # r
    <3>1. sync'[q] = sync[q] /\ row_replicas'[q] = row_replicas[q] /\ life'[q] = life[q]
      BY <1>0, <2>2 DEF R!Insert
    <3> QED BY <3>1 DEF ReplicasInv, ReplicaStops, Quiet
  <2> QED BY <2>1, <2>2
<1> QED BY <1>2, <1>3, <1>4 DEF R!Insert, ReplicasInv, ReplicasTyped

LEMMA LoopKeeps ==
  ASSUME ReplicasInv, NEW r \in Replicas, R!Start(r) \/ R!Tick(r) \/ R!Cleanup(r)
  PROVE  ReplicasInv'
<1>1. CASE R!Start(r)
  <2>1. "up" \in Lives /\ "up" \notin {"waited", "closed"}
    BY DEF Lives
  <2>2. life' \in [Replicas -> Lives] /\ \A q \in Replicas : ReplicaStops(q)'
    BY <1>1, <2>1, LifeMoves DEF R!Start
  <2> QED BY <1>1, <2>2 DEF R!Start, ReplicasInv, ReplicasTyped
<1>2. CASE R!Tick(r)
  <2>1. PICK w : w = [at |-> "lock"]
    OBVIOUS
  <2>2. w \in SyncRow /\ w.at = "lock" /\ "loop" \in R!Callers
    BY <2>1 DEF SyncRow, R!Callers
  <2>3. sync' \in [Replicas -> [R!Callers -> SyncRow]] /\ \A q \in Replicas : ReplicaStops(q)'
    BY <1>2, <2>1, <2>2, CallerMoves DEF R!Tick
  <2> QED BY <1>2, <2>3 DEF R!Tick, ReplicasInv, ReplicasTyped
<1>3. CASE R!Cleanup(r)
  <2>0. row_replicas \in [Replicas -> ReplicaRow]
    BY DEF ReplicasInv, ReplicasTyped
  <2>1. \A q \in Replicas : row_replicas'[q] = R!NoRow \/ row_replicas'[q] = row_replicas[q]
    BY <1>3 DEF R!Cleanup
  <2>2. row_replicas' \in [Replicas -> ReplicaRow]
    BY <1>3, <2>0, NewRowIs DEF R!Cleanup
  <2>3. \A q \in Replicas : ReplicaStops(q)'
    BY <1>3, <2>1, NewRowIs DEF R!Cleanup, ReplicasInv, ReplicaStops, Quiet
  <2> QED BY <1>3, <2>2, <2>3 DEF R!Cleanup, ReplicasInv, ReplicasTyped
<1> QED BY <1>1, <1>2, <1>3

LEMMA NotifiedKeeps ==
  ASSUME ReplicasInv, NEW r \in Replicas, NEW a \in Replicas, R!Notified(r, a)
  PROVE  ReplicasInv'
<1>1. notes' \subseteq Replicas \X Replicas /\ UNCHANGED <<life, row_replicas, peers, selfError, held, faults_replicas>>
  BY DEF R!Notified, ReplicasInv, ReplicasTyped
<1>2. updating' \in [Replicas -> BOOLEAN] /\ needsUpdate' \in [Replicas -> BOOLEAN]
  BY DEF R!Notified, ReplicasInv, ReplicasTyped
<1>3. CASE UNCHANGED sync
  BY <1>1, <1>2, <1>3 DEF ReplicasInv, ReplicasTyped, ReplicaStops, Quiet
<1>4. CASE sync' # sync
  <2>1. PICK w : w = [at |-> "lock"]
    OBVIOUS
  <2>2. w \in SyncRow /\ w.at = "lock" /\ "update" \in R!Callers
    BY <2>1 DEF SyncRow, R!Callers
  <2>3. sync' = [sync EXCEPT ![r]["update"] = w]
    BY <1>4, <2>1 DEF R!Notified
  <2>4. sync' \in [Replicas -> [R!Callers -> SyncRow]] /\ \A q \in Replicas : ReplicaStops(q)'
    BY <1>1, <2>2, <2>3, CallerMoves
  <2> QED BY <1>1, <1>2, <2>4 DEF ReplicasInv, ReplicasTyped
<1> QED BY <1>3, <1>4

LEMMA CloseKeeps ==
  ASSUME ReplicasInv, NEW r \in Replicas, R!CloseBegin(r) \/ R!CloseStep(r)
  PROVE  ReplicasInv'
<1>1. CASE R!CloseBegin(r)
  <2>1. "closing" \in Lives /\ "closing" \notin {"waited", "closed"}
    BY DEF Lives
  <2>2. life' \in [Replicas -> Lives] /\ \A q \in Replicas : ReplicaStops(q)'
    BY <1>1, <2>1, LifeMoves DEF R!CloseBegin
  <2>3. held' \in [Replicas -> BOOLEAN]
    BY <1>1 DEF R!CloseBegin, ReplicasInv, ReplicasTyped
  <2> QED BY <1>1, <2>2, <2>3 DEF R!CloseBegin, ReplicasInv, ReplicasTyped
<1>2. CASE R!CloseWait(r)
  <2>1. "waited" \in Lives /\ Quiet(r)
    BY <1>2 DEF Lives, R!CloseWait, R!Waited, Quiet
  <2>2. life' \in [Replicas -> Lives] /\ \A q \in Replicas : ReplicaStops(q)'
    BY <1>2, <2>1, LifeMoves DEF R!CloseWait
  <2>3. held' \in [Replicas -> BOOLEAN]
    BY <1>2 DEF R!CloseWait, ReplicasInv, ReplicasTyped
  <2> QED BY <1>2, <2>2, <2>3 DEF R!CloseWait, ReplicasInv, ReplicasTyped
<1>3. CASE R!CloseWrite(r)
  <2>0. row_replicas[r] \in ReplicaRow /\ life \in [Replicas -> Lives]
    BY DEF ReplicasInv, ReplicasTyped
  <2>1. PICK w : w = IF row_replicas[r].there THEN [row_replicas[r] EXCEPT !.fresh = TRUE, !.stopped = TRUE] ELSE row_replicas[r]
    OBVIOUS
  <2>2. w \in ReplicaRow
    BY <2>0, <2>1 DEF ReplicaRow
  <2>3. row_replicas' = [row_replicas EXCEPT ![r] = w] /\ life' = [life EXCEPT ![r] = "closed"] /\ life[r] = "waited"
    BY <1>3, <2>1 DEF R!CloseWrite
  <2>4. life'[r] = "closed" /\ UNCHANGED sync
    BY <1>3, <2>0, <2>3 DEF R!CloseWrite
  <2>5. /\ row_replicas' \in [Replicas -> ReplicaRow] /\ life' \in [Replicas -> Lives]
        /\ \A q \in Replicas : ReplicaStops(q)'
    BY <2>2, <2>3, <2>4, RowMoves
  <2>6. notes' \subseteq Replicas \X Replicas
    BY <1>3, AnnounceIs DEF R!CloseWrite, ReplicasInv, ReplicasTyped
  <2> QED BY <1>3, <2>5, <2>6 DEF R!CloseWrite, ReplicasInv, ReplicasTyped
<1> QED BY <1>1, <1>2, <1>3 DEF R!CloseStep

LEMMA FaultKeeps ==
  ASSUME ReplicaBounds, ReplicasInv, NEW r \in Replicas, R!Stall(r) \/ R!Crash(r)
  PROVE  ReplicasInv'
<1>1. faults_replicas' \in 0 .. MaxFaults
  BY DEF ReplicaBounds, R!Stall, R!Crash, ReplicasInv, ReplicasTyped
<1>2. CASE R!Stall(r)
  <2>0. row_replicas[r] \in ReplicaRow /\ life \in [Replicas -> Lives]
    BY DEF ReplicasInv, ReplicasTyped
  <2>1. PICK w : w = [row_replicas[r] EXCEPT !.fresh = FALSE]
    OBVIOUS
  <2>2. w \in ReplicaRow /\ w.stopped = row_replicas[r].stopped
    BY <2>0, <2>1 DEF ReplicaRow
  <2>3. row_replicas' = [row_replicas EXCEPT ![r] = w] /\ UNCHANGED <<life, sync>>
    BY <1>2, <2>1 DEF R!Stall
  <2>4. w.stopped => life'[r] = "closed"
    BY <2>2, <2>3 DEF ReplicasInv, ReplicaStops
  <2>5. /\ row_replicas' \in [Replicas -> ReplicaRow] /\ life' \in [Replicas -> Lives]
        /\ \A q \in Replicas : ReplicaStops(q)'
    BY <2>2, <2>3, <2>4, RowMoves
  <2> QED BY <1>1, <1>2, <2>5 DEF R!Stall, ReplicasInv, ReplicasTyped
<1>3. CASE R!Crash(r)
  <2>0. sync \in [Replicas -> [R!Callers -> SyncRow]] /\ life \in [Replicas -> Lives]
    BY DEF ReplicasInv, ReplicasTyped
  <2>1. R!AtRest \in [R!Callers -> SyncRow] /\ "crashed" \in Lives
    BY DEF R!AtRest, SyncRow, Lives
  <2>2. sync' \in [Replicas -> [R!Callers -> SyncRow]] /\ life' \in [Replicas -> Lives]
    BY <1>3, <2>0, <2>1 DEF R!Crash
  <2>3. notes' \subseteq Replicas \X Replicas
    BY <1>3 DEF R!Crash, ReplicasInv, ReplicasTyped
  <2>4. ASSUME NEW q \in Replicas PROVE ReplicaStops(q)'
    <3>1. CASE q = r
      <4>1. life'[q] = "crashed" /\ ~row_replicas[q].stopped /\ row_replicas' = row_replicas
        BY <1>3, <2>0, <3>1 DEF R!Crash, R!Alive, ReplicasInv, ReplicaStops
      <4> QED BY <4>1 DEF ReplicaStops
    <3>2. CASE q # r
      <4>1. sync'[q] = sync[q] /\ row_replicas'[q] = row_replicas[q] /\ life'[q] = life[q]
        BY <1>3, <2>0, <3>2 DEF R!Crash
      <4> QED BY <4>1 DEF ReplicasInv, ReplicaStops, Quiet
    <3> QED BY <3>1, <3>2
  <2> QED BY <1>1, <1>3, <2>2, <2>3, <2>4 DEF R!Crash, ReplicasInv, ReplicasTyped
<1> QED BY <1>2, <1>3

LEMMA NextReplicas == ASSUME ReplicaBounds, ReplicasInv, [R!Next]_(R!vars) PROVE ReplicasInv'
<1>1. CASE UNCHANGED R!vars
  BY <1>1 DEF R!vars, ReplicasInv, ReplicasTyped, ReplicaStops, Quiet
<1>2. CASE R!Next
  <2>1. PICK r \in Replicas :
          \/ R!Insert(r) \/ R!Start(r) \/ R!Tick(r) \/ R!Cleanup(r) \/ R!CloseBegin(r) \/ R!CloseStep(r)
          \/ \E q \in Replicas : R!Notified(r, q)
          \/ \E c \in R!Callers : R!SyncStep(r, c)
          \/ R!Stall(r) \/ R!Crash(r)
    BY <1>2 DEF R!Next
  <2> QED BY <2>1, InsertKeeps, LoopKeeps, NotifiedKeeps, CloseKeeps, FaultKeeps, SyncKeeps
<1> QED BY <1>1, <1>2

LEMMA ReplicasTypes == ASSUME ReplicasInv PROVE R!TypeOK
BY SyncIs DEF R!TypeOK, ReplicasInv, ReplicasTyped, Lives, ReplicaRow

\* Who writes the row of a replica that has stopped takes it away or leaves stopped_at as it is.
LEMMA StepsStay == ASSUME ReplicasInv, R!Next PROVE R!StaysStopped
<1>0. row_replicas \in [Replicas -> ReplicaRow]
  BY DEF ReplicasInv, ReplicasTyped
<1>1. SUFFICES ASSUME NEW q \in Replicas, row_replicas[q].stopped
               PROVE  row_replicas'[q].stopped \/ ~row_replicas'[q].there
  BY DEF R!StaysStopped
<1>2. life[q] = "closed" /\ Quiet(q)
  BY <1>1 DEF ReplicasInv, ReplicaStops
<1>3. PICK r \in Replicas :
          \/ R!Insert(r) \/ R!Start(r) \/ R!Tick(r) \/ R!Cleanup(r) \/ R!CloseBegin(r) \/ R!CloseStep(r)
          \/ \E p \in Replicas : R!Notified(r, p)
          \/ \E c \in R!Callers : R!SyncStep(r, c)
          \/ R!Stall(r) \/ R!Crash(r)
  BY DEF R!Next
<1>4. CASE R!Insert(r)
  BY <1>0, <1>1, <1>2, <1>4 DEF R!Insert
<1>5. CASE R!Cleanup(r)
  BY <1>1, <1>5 DEF R!Cleanup, R!NoRow
<1>6. CASE R!CloseStep(r)
  <2>1. CASE R!CloseWait(r)
    BY <1>1, <2>1 DEF R!CloseWait
  <2>2. CASE R!CloseWrite(r)
    BY <1>0, <1>1, <1>2, <2>2 DEF R!CloseWrite
  <2> QED BY <1>6, <2>1, <2>2 DEF R!CloseStep
<1>7. CASE \E c \in R!Callers : R!SyncStep(r, c)
  <2>1. PICK c \in R!Callers : R!SyncStep(r, c)
    BY <1>7
  <2>2. CASE R!SyncWrite(r, c)
    <3>1. r # q
      BY <1>2, <2>2 DEF R!SyncWrite, Quiet
    <3> QED BY <1>0, <1>1, <2>2, <3>1 DEF R!SyncWrite
  <2>3. CASE UNCHANGED row_replicas
    BY <1>1, <2>3
  <2> QED BY <2>1, <2>2, <2>3 DEF R!SyncStep, R!SyncLock, R!SyncFails, R!SyncQuery, R!SyncDial
<1>8. CASE R!Stall(r)
  <2>1. row_replicas'[q].stopped = row_replicas[q].stopped
    BY <1>0, <1>8 DEF R!Stall, ReplicaRow
  <2> QED BY <1>1, <2>1
<1>9. CASE UNCHANGED row_replicas
  BY <1>1, <1>9
<1> QED BY <1>3, <1>4, <1>5, <1>6, <1>7, <1>8, <1>9 DEF R!Start, R!Tick, R!CloseBegin, R!Notified, R!Crash

\* A replica whose Close has written that it stopped never looks alive again, for any number of
\* replicas and whatever stalls and crashes there are: Close waits for the goroutines of
\* syncReplicas, which write stopped_at from a copy where it is never set
\* (enterprise/replicasync/replicasync.go).
THEOREM StoppedReplicasStay == ASSUME ReplicaBounds PROVE R!Spec => [](R!TypeOK) /\ R!StoppedIsFinal
<1>1. R!Init => ReplicasInv
  BY InitReplicas
<1>2. ReplicasInv /\ [R!Next]_(R!vars) => ReplicasInv'
  BY NextReplicas
<1>3. ReplicasInv => R!TypeOK
  BY ReplicasTypes
<1>4. ReplicasInv /\ [R!Next]_(R!vars) => [R!StaysStopped]_(R!vars)
  BY StepsStay
<1> QED BY <1>1, <1>2, <1>3, <1>4, PTL DEF R!Spec, R!StoppedIsFinal

-----------------------------------------------------------------------------
(* The cache of connections.                                               *)

CacheBounds == IsFiniteSet(Requests)

AcquireRow == [at : {"start", "join", "dial", "wait", "store", "lock", "using", "done"}, conn : Conns \union {C!None}]
ConnRow == [life : {"undialed", "live", "dead"}, watch : {"none", "watching", "dropped", "forgotten", "over"}]

CacheTyped ==
    /\ entry \in Conns \union {C!None} /\ flight \in Requests \union {C!None}
    /\ waiting \in [Requests -> SUBSET Requests]
    /\ req \in [Requests -> AcquireRow]
    /\ conn \in [Conns -> ConnRow]
    /\ locks \in [Conns -> Nat]
    /\ timer \in [Conns -> {"off", "armed", "fired"}]
    /\ cache \in {"open", "closing", "closed"}

\* A request waits for the result of at most one call, and does nothing else.
CacheWaits == \A p \in Requests : \A q \in waiting[p] : req[q].at = "wait" /\ \A o \in Requests : q \in waiting[o] => o = p
HasConn(w) == w.at \in {"store", "lock", "using"} => w.conn \in Conns
CacheUses == \A q \in Requests : HasConn(req[q])
\* Conn.locks counts those that have acquired the connection and not released it.
Users(c) == {q \in Requests : req[q].at = "using" /\ req[q].conn = c}
CacheCounts == \A c \in Conns : locks[c] = Cardinality(Users(c))
\* A goroutine watches every connection that is open.
WatchedRow(w) == w.life = "live" => w.watch \in {"watching", "dropped", "forgotten"}
CacheWatched == \A c \in Conns : WatchedRow(conn[c])
CacheEnd == cache = "closed" => C!GroupDone

CacheInv == CacheTyped /\ CacheWaits /\ CacheUses /\ CacheCounts /\ CacheWatched /\ CacheEnd

LEMMA InitCache == ASSUME C!Init PROVE CacheInv
<1>1. CacheTyped
  BY DEF C!Init, CacheTyped, AcquireRow, ConnRow
<1>2. CacheWaits /\ CacheUses /\ CacheWatched /\ CacheEnd
  BY DEF C!Init, CacheWaits, CacheUses, HasConn, CacheWatched, WatchedRow, CacheEnd
<1>3. ASSUME NEW c \in Conns PROVE locks[c] = Cardinality(Users(c))
  <2>1. Users(c) = {}
    BY DEF C!Init, Users
  <2> QED BY <2>1, FS_EmptySet DEF C!Init
<1> QED BY <1>1, <1>2, <1>3 DEF CacheInv, CacheCounts

\* One request goes on; the others, and who waits for whom, stay.
LEMMA RequestMoves ==
  ASSUME CacheInv, NEW r \in Requests, NEW w \in AcquireRow, req' = [req EXCEPT ![r] = w],
         UNCHANGED waiting, req[r].at # "wait", HasConn(w)
  PROVE  req' \in [Requests -> AcquireRow] /\ CacheWaits' /\ CacheUses'
<1>0. req \in [Requests -> AcquireRow] /\ waiting \in [Requests -> SUBSET Requests] /\ CacheWaits /\ CacheUses
  BY DEF CacheInv, CacheTyped
<1>1. req' \in [Requests -> AcquireRow] /\ \A q \in Requests : req'[q] = IF q = r THEN w ELSE req[q]
  BY <1>0
<1>2. CacheUses'
  BY <1>0, <1>1 DEF CacheUses, HasConn
<1>3. CacheWaits'
  BY <1>0, <1>1 DEF CacheWaits
<1> QED BY <1>1, <1>2, <1>3

\* Who uses a connection stays the same.
LEMMA UsersStay ==
  ASSUME CacheCounts, UNCHANGED locks,
         \A q \in Requests : /\ req'[q].at = "using" <=> req[q].at = "using"
                             /\ req[q].at = "using" => req'[q].conn = req[q].conn
  PROVE  CacheCounts'
<1>1. ASSUME NEW c \in Conns PROVE Users(c)' = Users(c)
  BY DEF Users
<1> QED BY <1>1 DEF CacheCounts

LEMMA LoadKeeps == ASSUME CacheInv, NEW r \in Requests, C!Load(r) PROVE CacheInv'
<1>0. req \in [Requests -> AcquireRow] /\ entry \in Conns \union {C!None}
  BY DEF CacheInv, CacheTyped
<1>1. PICK w : w = [at |-> IF entry = C!None THEN "join" ELSE "lock", conn |-> entry]
  OBVIOUS
<1>2. w \in AcquireRow /\ HasConn(w) /\ w.at \in {"join", "lock"}
  BY <1>0, <1>1 DEF AcquireRow, HasConn
<1>3. req' = [req EXCEPT ![r] = w] /\ req[r].at = "start" /\ UNCHANGED <<entry, flight, waiting, conn, locks, timer, cache>>
  BY <1>1 DEF C!Load
<1>4. req' \in [Requests -> AcquireRow] /\ CacheWaits' /\ CacheUses'
  BY <1>2, <1>3, RequestMoves
<1>5. CacheCounts'
  BY <1>0, <1>2, <1>3, UsersStay DEF CacheInv
<1>6. CacheEnd'
  BY <1>0, <1>2, <1>3 DEF CacheInv, CacheEnd, C!GroupDone
<1> QED BY <1>3, <1>4, <1>5, <1>6 DEF CacheInv, CacheTyped, CacheWatched

LEMMA JoinKeeps == ASSUME CacheInv, NEW r \in Requests, C!Join(r) PROVE CacheInv'
<1>0. req \in [Requests -> AcquireRow] /\ flight \in Requests \union {C!None} /\ waiting \in [Requests -> SUBSET Requests]
  BY DEF CacheInv, CacheTyped
<1>1. req[r].at = "join" /\ UNCHANGED <<entry, conn, locks, timer, cache>>
  BY DEF C!Join
<1>2. CASE flight # C!None
  <2>1. PICK w : w = [req[r] EXCEPT !.at = "wait"]
    OBVIOUS
  <2>2. w \in AcquireRow /\ HasConn(w) /\ w.at = "wait"
    BY <1>0, <2>1 DEF AcquireRow, HasConn
  <2>3. req' = [req EXCEPT ![r] = w] /\ waiting' = [waiting EXCEPT ![flight] = waiting[flight] \union {r}] /\ UNCHANGED flight
    BY <1>2, <2>1 DEF C!Join
  <2>4. req' \in [Requests -> AcquireRow] /\ \A q \in Requests : req'[q] = IF q = r THEN w ELSE req[q]
    BY <1>0, <2>2, <2>3
  <2>5. waiting' \in [Requests -> SUBSET Requests]
        /\ \A p \in Requests : waiting'[p] = IF p = flight THEN waiting[p] \union {r} ELSE waiting[p]
    BY <1>0, <1>2, <2>3
  <2>6. CacheUses'
    BY <2>2, <2>4 DEF CacheInv, CacheUses, HasConn
  <2>7. \A p \in Requests : r \notin waiting[p]
    BY <1>1 DEF CacheInv, CacheWaits
  <2>8. CacheWaits'
    <3>1. SUFFICES ASSUME NEW p \in Requests, NEW q \in waiting'[p]
                   PROVE  req'[q].at = "wait" /\ \A o \in Requests : q \in waiting'[o] => o = p
      BY DEF CacheWaits
    <3>2. CASE q = r
      BY <1>0, <2>2, <2>4, <2>5, <2>7, <3>1, <3>2
    <3>3. CASE q # r
      BY <1>0, <2>4, <2>5, <3>1, <3>3 DEF CacheInv, CacheWaits
    <3> QED BY <3>2, <3>3
  <2>9. CacheCounts'
    BY <1>1, <2>2, <2>4, UsersStay DEF CacheInv
  <2>10. CacheEnd'
    BY <1>1, <2>2, <2>4 DEF CacheInv, CacheEnd, C!GroupDone
  <2> QED BY <1>1, <2>3, <2>4, <2>5, <2>6, <2>8, <2>9, <2>10 DEF CacheInv, CacheTyped, CacheWatched
<1>3. CASE flight = C!None
  <2>1. PICK w : w = [req[r] EXCEPT !.at = IF cache = "closed" THEN "done" ELSE "dial"]
    OBVIOUS
  <2>2. w \in AcquireRow /\ HasConn(w) /\ w.at = IF cache = "closed" THEN "done" ELSE "dial"
    BY <1>0, <2>1 DEF AcquireRow, HasConn
  <2>3. req' = [req EXCEPT ![r] = w] /\ UNCHANGED waiting /\ flight' \in Requests \union {C!None}
    BY <1>3, <2>1 DEF C!Join
  <2>4. req' \in [Requests -> AcquireRow] /\ CacheWaits' /\ CacheUses'
    BY <1>1, <2>2, <2>3, RequestMoves
  <2>5. CacheCounts'
    BY <1>0, <1>1, <2>2, <2>3, UsersStay DEF CacheInv
  <2>6. CacheEnd'
    BY <1>0, <1>1, <2>2, <2>3 DEF CacheInv, CacheEnd, C!GroupDone
  <2> QED BY <1>1, <2>3, <2>4, <2>5, <2>6 DEF CacheInv, CacheTyped, CacheWatched
<1> QED BY <1>2, <1>3

\* A call returns to the request that dials and to those that wait for it.
LEMMA ResultsAre ==
  ASSUME CacheInv, NEW r \in Requests, NEW w \in AcquireRow, HasConn(w), w.at \in {"store", "done"},
         req[r].at = "dial", C!Results(r, w)
  PROVE  /\ req' \in [Requests -> AcquireRow] /\ waiting' \in [Requests -> SUBSET Requests]
         /\ flight' \in Requests \union {C!None}
         /\ CacheWaits' /\ CacheUses'
         /\ \A q \in Requests : /\ req'[q].at = "using" <=> req[q].at = "using"
                                /\ req[q].at = "using" => req'[q].conn = req[q].conn
                                /\ req'[q].at = "dial" => req[q].at = "dial"
<1>0. /\ req \in [Requests -> AcquireRow] /\ waiting \in [Requests -> SUBSET Requests]
      /\ flight \in Requests \union {C!None} /\ CacheWaits /\ CacheUses
  BY DEF CacheInv, CacheTyped
<1>1. /\ \A q \in Requests : req'[q] = IF q \in waiting[r] \union {r} THEN w ELSE req[q]
      /\ req' \in [Requests -> AcquireRow]
  BY <1>0 DEF C!Results
<1>2. /\ waiting' \in [Requests -> SUBSET Requests] /\ flight' \in Requests \union {C!None}
      /\ \A p \in Requests : waiting'[p] = IF p = r THEN {} ELSE waiting[p]
  BY <1>0 DEF C!Results
<1>3. CacheUses'
  BY <1>0, <1>1 DEF CacheUses, HasConn
<1>4. CacheWaits'
  <2>1. SUFFICES ASSUME NEW p \in Requests, NEW q \in waiting'[p]
                 PROVE  req'[q].at = "wait" /\ \A o \in Requests : q \in waiting'[o] => o = p
    BY DEF CacheWaits
  <2>2. p # r /\ q \in waiting[p] /\ q \in Requests
    BY <1>0, <1>2, <2>1
  <2>3. req[q].at = "wait" /\ q # r /\ q \notin waiting[r]
    BY <1>0, <2>2 DEF CacheWaits
  <2> QED BY <1>0, <1>1, <1>2, <2>2, <2>3 DEF CacheWaits
<1>5. \A q \in waiting[r] \union {r} : req[q].at \in {"wait", "dial"}
  BY <1>0 DEF CacheWaits
<1> QED BY <1>1, <1>2, <1>3, <1>4, <1>5

LEMMA DialKeeps ==
  ASSUME CacheInv, NEW r \in Requests, C!DialFails(r) \/ \E c \in Conns : C!Dial(r, c)
  PROVE  CacheInv'
<1>1. CASE C!DialFails(r)
  <2>1. PICK w : w = [at |-> "done", conn |-> C!None]
    OBVIOUS
  <2>2. w \in AcquireRow /\ HasConn(w) /\ w.at \in {"store", "done"}
    BY <2>1 DEF AcquireRow, HasConn
  <2>3. req[r].at = "dial" /\ C!Results(r, w) /\ UNCHANGED <<entry, conn, locks, timer, cache>>
    BY <1>1, <2>1 DEF C!DialFails
  <2>4. /\ req' \in [Requests -> AcquireRow] /\ waiting' \in [Requests -> SUBSET Requests]
        /\ flight' \in Requests \union {C!None} /\ CacheWaits' /\ CacheUses'
    BY <2>2, <2>3, ResultsAre
  <2>5. \A q \in Requests : /\ req'[q].at = "using" <=> req[q].at = "using"
                            /\ req[q].at = "using" => req'[q].conn = req[q].conn
                            /\ req'[q].at = "dial" => req[q].at = "dial"
    BY <2>2, <2>3, ResultsAre
  <2>6. CacheCounts' /\ CacheEnd'
    BY <2>3, <2>5, UsersStay DEF CacheInv, CacheEnd, C!GroupDone
  <2> QED BY <2>3, <2>4, <2>6 DEF CacheInv, CacheTyped, CacheWatched
<1>2. ASSUME NEW c \in Conns, C!Dial(r, c) PROVE CacheInv'
  <2>1. PICK w : w = [at |-> "store", conn |-> c]
    OBVIOUS
  <2>2. w \in AcquireRow /\ HasConn(w) /\ w.at \in {"store", "done"}
    BY <2>1 DEF AcquireRow, HasConn
  <2>3. req[r].at = "dial" /\ C!Results(r, w) /\ UNCHANGED <<entry, locks, timer, cache>>
    BY <1>2, <2>1 DEF C!Dial
  <2>4. /\ req' \in [Requests -> AcquireRow] /\ waiting' \in [Requests -> SUBSET Requests]
        /\ flight' \in Requests \union {C!None} /\ CacheWaits' /\ CacheUses'
    BY <2>2, <2>3, ResultsAre
  <2>5. \A q \in Requests : /\ req'[q].at = "using" <=> req[q].at = "using"
                            /\ req[q].at = "using" => req'[q].conn = req[q].conn
    BY <2>2, <2>3, ResultsAre
  <2>6. CacheCounts'
    BY <2>3, <2>5, UsersStay DEF CacheInv
  <2>7. CacheEnd'
    BY <2>3 DEF CacheInv, CacheEnd, C!GroupDone
  <2>8. PICK v : v = [life |-> "live", watch |-> "watching"]
    OBVIOUS
  <2>9. v \in ConnRow /\ WatchedRow(v) /\ conn' = [conn EXCEPT ![c] = v]
    BY <1>2, <2>8 DEF ConnRow, WatchedRow, C!Dial
  <2>10. conn' \in [Conns -> ConnRow] /\ CacheWatched'
    BY <2>9 DEF CacheInv, CacheTyped, CacheWatched
  <2> QED BY <2>3, <2>4, <2>6, <2>7, <2>10 DEF CacheInv, CacheTyped
<1> QED BY <1>1, <1>2

LEMMA StoreKeeps == ASSUME CacheInv, NEW r \in Requests, C!Store(r) PROVE CacheInv'
<1>0. req \in [Requests -> AcquireRow] /\ HasConn(req[r])
  BY DEF CacheInv, CacheTyped, CacheUses
<1>1. PICK w : w = [req[r] EXCEPT !.at = "lock"]
  OBVIOUS
<1>2. req[r].at = "store" /\ req[r].conn \in Conns
  BY <1>0 DEF HasConn, C!Store
<1>3. w \in AcquireRow /\ HasConn(w) /\ w.at = "lock"
  BY <1>0, <1>1, <1>2 DEF AcquireRow, HasConn
<1>4. req' = [req EXCEPT ![r] = w] /\ entry' = req[r].conn /\ UNCHANGED <<flight, waiting, conn, locks, timer, cache>>
  BY <1>1 DEF C!Store
<1>5. req' \in [Requests -> AcquireRow] /\ CacheWaits' /\ CacheUses'
  BY <1>2, <1>3, <1>4, RequestMoves
<1>6. CacheCounts'
  BY <1>0, <1>2, <1>3, <1>4, UsersStay DEF CacheInv
<1>7. CacheEnd'
  BY <1>0, <1>3, <1>4 DEF CacheInv, CacheEnd, C!GroupDone
<1> QED BY <1>2, <1>4, <1>5, <1>6, <1>7 DEF CacheInv, CacheTyped, CacheWatched

LEMMA StoppedIs == ASSUME CacheInv, NEW c \in Conns PROVE C!Stopped(c) \in {"off", "armed", "fired"} /\ C!Rearmed(c) \in {"off", "armed", "fired"}
BY DEF CacheInv, CacheTyped, C!Stopped, C!Rearmed

LEMMA LockKeeps == ASSUME CacheBounds, CacheInv, NEW r \in Requests, C!Lock(r) \/ C!Release(r) PROVE CacheInv'
<1>0. req \in [Requests -> AcquireRow] /\ HasConn(req[r]) /\ locks \in [Conns -> Nat]
  BY DEF CacheInv, CacheTyped, CacheUses
<1>1. PICK c : c = req[r].conn
  OBVIOUS
<1>2. c \in Conns
  BY <1>0, <1>1 DEF HasConn, C!Lock, C!Release
<1>3. \A d \in Conns : IsFiniteSet(Users(d))
  BY FS_Subset DEF CacheBounds, Users
<1>4. CASE C!Lock(r)
  <2>1. PICK w : w = [req[r] EXCEPT !.at = "using"]
    OBVIOUS
  <2>2. w \in AcquireRow /\ HasConn(w) /\ w.at = "using" /\ w.conn = c
    BY <1>0, <1>1, <1>2, <2>1 DEF AcquireRow, HasConn
  <2>3. /\ req' = [req EXCEPT ![r] = w] /\ req[r].at = "lock" /\ locks' = [locks EXCEPT ![c] = locks[c] + 1]
        /\ timer' = [timer EXCEPT ![c] = C!Stopped(c)] /\ UNCHANGED <<entry, flight, waiting, conn, cache>>
    BY <1>1, <1>4, <2>1 DEF C!Lock, C!Held
  <2>4. req' \in [Requests -> AcquireRow] /\ CacheWaits' /\ CacheUses'
    BY <2>2, <2>3, RequestMoves
  <2>5. ASSUME NEW d \in Conns PROVE locks'[d] = Cardinality(Users(d)')
    <3>1. CASE d = c
      <4>1. Users(d)' = Users(d) \union {r} /\ r \notin Users(d)
        BY <1>0, <2>2, <2>3, <3>1 DEF Users
      <4>2. Cardinality(Users(d)') = Cardinality(Users(d)) + 1
        BY <1>3, <4>1, FS_AddElement
      <4> QED BY <1>0, <2>3, <3>1, <4>2 DEF CacheInv, CacheCounts
    <3>2. CASE d # c
      <4>1. Users(d)' = Users(d)
        BY <1>0, <2>2, <2>3, <3>2 DEF Users
      <4> QED BY <1>0, <2>3, <3>2, <4>1 DEF CacheInv, CacheCounts
    <3> QED BY <3>1, <3>2
  <2>6. CacheEnd'
    BY <1>0, <2>2, <2>3 DEF CacheInv, CacheEnd, C!GroupDone
  <2>7. locks' \in [Conns -> Nat] /\ timer' \in [Conns -> {"off", "armed", "fired"}]
    BY <1>0, <1>2, <2>3, StoppedIs DEF CacheInv, CacheTyped
  <2> QED BY <2>3, <2>4, <2>5, <2>6, <2>7 DEF CacheInv, CacheTyped, CacheWatched, CacheCounts
<1>5. CASE C!Release(r)
  <2>1. PICK w : w = [req[r] EXCEPT !.at = "done"]
    OBVIOUS
  <2>2. w \in AcquireRow /\ HasConn(w) /\ w.at = "done"
    BY <1>0, <2>1 DEF AcquireRow, HasConn
  <2>3. /\ req' = [req EXCEPT ![r] = w] /\ req[r].at = "using" /\ locks' = [locks EXCEPT ![c] = locks[c] - 1]
        /\ timer' = [timer EXCEPT ![c] = C!Rearmed(c)] /\ UNCHANGED <<entry, flight, waiting, conn, cache>>
    BY <1>1, <1>5, <2>1 DEF C!Release
  <2>4. req' \in [Requests -> AcquireRow] /\ CacheWaits' /\ CacheUses'
    BY <2>2, <2>3, RequestMoves
  <2>5. r \in Users(c)
    BY <1>1, <2>3 DEF Users
  <2>6. ASSUME NEW d \in Conns PROVE locks'[d] = Cardinality(Users(d)') /\ locks'[d] \in Nat
    <3>1. CASE d = c
      <4>1. Users(d)' = Users(d) \ {r}
        BY <1>0, <2>2, <2>3, <3>1 DEF Users
      <4>2. Cardinality(Users(d)') = Cardinality(Users(d)) - 1 /\ IsFiniteSet(Users(d)')
        BY <1>3, <2>5, <3>1, <4>1, FS_RemoveElement
      <4>3. locks'[d] = Cardinality(Users(d)')
        BY <1>0, <2>3, <3>1, <4>2 DEF CacheInv, CacheCounts
      <4> QED BY <4>2, <4>3, FS_CardinalityType
    <3>2. CASE d # c
      <4>1. Users(d)' = Users(d)
        BY <1>0, <1>1, <2>2, <2>3, <3>2 DEF Users
      <4> QED BY <1>0, <2>3, <3>2, <4>1 DEF CacheInv, CacheCounts
    <3> QED BY <3>1, <3>2
  <2>7. CacheEnd'
    BY <1>0, <2>2, <2>3 DEF CacheInv, CacheEnd, C!GroupDone
  <2>8. locks' \in [Conns -> Nat] /\ timer' \in [Conns -> {"off", "armed", "fired"}]
    BY <1>0, <1>2, <2>3, <2>6, StoppedIs DEF CacheInv, CacheTyped
  <2> QED BY <2>3, <2>4, <2>6, <2>7, <2>8 DEF CacheInv, CacheTyped, CacheWatched, CacheCounts
<1> QED BY <1>4, <1>5

\* The goroutine of a connection goes on.
LEMMA ConnMoves ==
  ASSUME CacheInv, NEW c \in Conns, NEW v \in ConnRow, conn' = [conn EXCEPT ![c] = v], WatchedRow(v),
         v.watch \in {"none", "over"} \/ conn[c].watch \notin {"none", "over"},
         UNCHANGED <<waiting, req, locks, cache>>,
         entry' \in Conns \union {C!None}, flight' \in Requests \union {C!None},
         timer' \in [Conns -> {"off", "armed", "fired"}]
  PROVE  CacheInv'
<1>0. conn \in [Conns -> ConnRow]
  BY DEF CacheInv, CacheTyped
<1>1. conn' \in [Conns -> ConnRow] /\ \A d \in Conns : conn'[d] = IF d = c THEN v ELSE conn[d]
  BY <1>0
<1>2. CacheWatched' /\ CacheEnd'
  BY <1>1 DEF CacheInv, CacheWatched, CacheEnd, C!GroupDone
<1>3. CacheCounts' /\ CacheWaits' /\ CacheUses'
  BY UsersStay DEF CacheInv, CacheWaits, CacheUses
<1> QED BY <1>1, <1>2, <1>3 DEF CacheInv, CacheTyped

LEMMA WatchKeeps ==
  ASSUME CacheInv, NEW c \in Conns, C!TimerFires(c) \/ C!Watch(c) \/ C!ConnDies(c)
  PROVE  CacheInv'
<1>0. /\ conn[c] \in ConnRow /\ WatchedRow(conn[c]) /\ timer \in [Conns -> {"off", "armed", "fired"}]
      /\ entry \in Conns \union {C!None} /\ flight \in Requests \union {C!None}
  BY DEF CacheInv, CacheTyped, CacheWatched
<1>1. CASE C!TimerFires(c)
  <2>1. timer' \in [Conns -> {"off", "armed", "fired"}] /\ UNCHANGED <<entry, flight, waiting, req, conn, locks, cache>>
    BY <1>0, <1>1 DEF C!TimerFires
  <2>2. CacheCounts'
    BY <2>1, UsersStay DEF CacheInv
  <2> QED BY <2>1, <2>2 DEF CacheInv, CacheTyped, CacheWaits, CacheUses, CacheWatched, CacheEnd, C!GroupDone
<1>2. CASE C!Drop(c)
  <2>1. PICK v : v = [conn[c] EXCEPT !.watch = "dropped"]
    OBVIOUS
  <2>2. v \in ConnRow /\ WatchedRow(v)
    BY <1>0, <2>1 DEF ConnRow, WatchedRow
  <2>3. /\ conn' = [conn EXCEPT ![c] = v] /\ conn[c].watch = "watching"
        /\ entry' = C!None /\ UNCHANGED <<flight, waiting, req, locks, timer, cache>>
    BY <1>2, <2>1 DEF C!Drop
  <2> QED BY <1>0, <2>2, <2>3, ConnMoves
<1>3. CASE C!Forget(c)
  <2>1. PICK v : v = [conn[c] EXCEPT !.watch = "forgotten"]
    OBVIOUS
  <2>2. v \in ConnRow /\ WatchedRow(v)
    BY <1>0, <2>1 DEF ConnRow, WatchedRow
  <2>3. /\ conn' = [conn EXCEPT ![c] = v] /\ conn[c].watch = "dropped"
        /\ flight' = C!None /\ UNCHANGED <<entry, waiting, req, locks, timer, cache>>
    BY <1>3, <2>1 DEF C!Forget
  <2> QED BY <1>0, <2>2, <2>3, ConnMoves
<1>4. CASE C!CloseConn(c)
  <2>1. PICK v : v = [life |-> "dead", watch |-> "over"]
    OBVIOUS
  <2>2. v \in ConnRow /\ WatchedRow(v) /\ v.watch = "over"
    BY <2>1 DEF ConnRow, WatchedRow
  <2>3. /\ conn' = [conn EXCEPT ![c] = v] /\ timer' = [timer EXCEPT ![c] = C!Stopped(c)]
        /\ UNCHANGED <<entry, flight, waiting, req, locks, cache>>
    BY <1>4, <2>1 DEF C!CloseConn
  <2>4. timer' \in [Conns -> {"off", "armed", "fired"}]
    BY <1>0, <2>3, StoppedIs
  <2> QED BY <1>0, <2>2, <2>3, <2>4, ConnMoves
<1>5. CASE C!ConnDies(c)
  <2>1. PICK v : v = [conn[c] EXCEPT !.life = "dead"]
    OBVIOUS
  <2>2. v \in ConnRow /\ WatchedRow(v) /\ v.watch = conn[c].watch
    BY <1>0, <2>1 DEF ConnRow, WatchedRow
  <2>3. conn' = [conn EXCEPT ![c] = v] /\ UNCHANGED <<entry, flight, waiting, req, locks, timer, cache>>
    BY <1>5, <2>1 DEF C!ConnDies
  <2> QED BY <1>0, <2>2, <2>3, ConnMoves
<1> QED BY <1>1, <1>2, <1>3, <1>4, <1>5 DEF C!Watch

LEMMA CacheCloses == ASSUME CacheInv, C!CloseBegin \/ C!CloseEnd PROVE CacheInv'
<1>1. /\ UNCHANGED <<entry, flight, waiting, req, conn, locks, timer>>
      /\ cache' \in {"open", "closing", "closed"} /\ (cache' = "closed" => C!GroupDone)
  BY DEF C!CloseBegin, C!CloseEnd
<1>2. CacheCounts'
  BY <1>1, UsersStay DEF CacheInv
<1> QED BY <1>1, <1>2 DEF CacheInv, CacheTyped, CacheWaits, CacheUses, CacheWatched, CacheEnd, C!GroupDone

LEMMA NextCache == ASSUME CacheBounds, CacheInv, [C!Next]_(C!vars) PROVE CacheInv'
<1>1. CASE UNCHANGED C!vars
  <2>1. UNCHANGED <<entry, flight, waiting, req, conn, locks, timer, cache>>
    BY <1>1 DEF C!vars
  <2>2. CacheCounts'
    BY <2>1, UsersStay DEF CacheInv
  <2> QED BY <2>1, <2>2 DEF CacheInv, CacheTyped, CacheWaits, CacheUses, CacheWatched, CacheEnd, C!GroupDone
<1>2. CASE \E r \in Requests : C!AcquireStep(r) \/ C!Release(r)
  BY <1>2, LoadKeeps, JoinKeeps, DialKeeps, StoreKeeps, LockKeeps DEF C!AcquireStep
<1> QED BY <1>1, <1>2, WatchKeeps, CacheCloses DEF C!Next

LEMMA CacheSafe == ASSUME CacheBounds, CacheInv PROVE C!TypeOK /\ C!NothingLeftOpen
<1>1. ASSUME NEW c \in Conns PROVE locks[c] \in 0 .. Cardinality(Requests)
  <2>1. Users(c) \subseteq Requests
    BY DEF Users
  <2>2. Cardinality(Users(c)) <= Cardinality(Requests) /\ Cardinality(Requests) \in Nat
    BY <2>1, FS_Subset, FS_CardinalityType DEF CacheBounds
  <2> QED BY <2>2 DEF CacheInv, CacheTyped, CacheCounts
<1>2. locks \in [Conns -> 0 .. Cardinality(Requests)]
  BY <1>1 DEF CacheInv, CacheTyped
<1>3. C!TypeOK
  <2>1. CacheTyped
    BY DEF CacheInv
  <2>2. /\ entry \in Conns \union {C!None} /\ flight \in Requests \union {C!None}
        /\ waiting \in [Requests -> SUBSET Requests]
        /\ req \in [Requests -> AcquireRow] /\ conn \in [Conns -> ConnRow]
        /\ timer \in [Conns -> {"off", "armed", "fired"}] /\ cache \in {"open", "closing", "closed"}
    BY <2>1 DEF CacheTyped
  <2>3. req \in [Requests -> [at : {"start", "join", "dial", "wait", "store", "lock", "using", "done"}, conn : Conns \union {C!None}]]
    BY <2>2 DEF AcquireRow
  <2>4. conn \in [Conns -> [life : {"undialed", "live", "dead"}, watch : {"none", "watching", "dropped", "forgotten", "over"}]]
    BY <2>2 DEF ConnRow
  <2>5. C!Cardinality(Requests) = Cardinality(Requests)
    BY DEF C!Cardinality, Cardinality
  <2> QED BY <1>2, <2>2, <2>3, <2>4, <2>5 DEF C!TypeOK
<1>4. C!NothingLeftOpen
  BY DEF C!NothingLeftOpen, CacheInv, CacheEnd, CacheWatched, WatchedRow, C!GroupDone
<1> QED BY <1>3, <1>4

\* When Close of the cache has returned, no connection is left open, for any number of requests that
\* acquire, share, release and dial connections meanwhile (Cache.Close and Acquire of
\* coderd/wsconncache/wsconncache.go): Close waits for the dials under way and for the goroutine of
\* each connection.  The counter of a connection never leaves the number of those that hold it.
THEOREM CloseLeavesNoConn ==
  ASSUME CacheBounds
  PROVE  C!Spec => [](C!TypeOK /\ C!NothingLeftOpen /\ CacheCounts)
<1>1. C!Init => CacheInv
  BY InitCache
<1>2. CacheInv /\ [C!Next]_(C!vars) => CacheInv'
  BY NextCache
<1>3. CacheInv => C!TypeOK /\ C!NothingLeftOpen /\ CacheCounts
  BY CacheSafe DEF CacheInv
<1> QED BY <1>1, <1>2, <1>3, PTL DEF C!Spec

-----------------------------------------------------------------------------
(* The tailnet connection.                                                 *)

TailnetBounds == MaxStatus \in Nat /\ MaxSessions \in Nat /\ MaxTime \in Nat \ {0}

LEMMA InitTailnet == ASSUME TailnetBounds, T!Init PROVE T!TypeOK
<1>1. T!NotSending \in [status : 0 .. MaxStatus, session : 0 .. MaxSessions]
  BY DEF TailnetBounds, T!NotSending
<1>2. 0 \in 0 .. MaxStatus /\ 0 \in 0 .. MaxSessions /\ 1 \in 1 .. MaxTime /\ 0 \in 0 .. MaxTime /\ T!Never \in 0 .. T!Never
  BY DEF TailnetBounds, T!Never
<1> QED BY <1>1, <1>2 DEF T!Init, T!TypeOK

LEMMA SendNodeIs ==
  ASSUME T!TypeOK, NEW s \in 0 .. MaxStatus, NEW k \in 0 .. MaxSessions, T!sendNode(s, k)
  PROVE  /\ nodeSending' \in BOOLEAN /\ nodeChanged' \in BOOLEAN
         /\ sending' \in [status : 0 .. MaxStatus, session : 0 .. MaxSessions]
<1>0. nodeSending \in BOOLEAN /\ nodeChanged \in BOOLEAN /\ sending \in [status : 0 .. MaxStatus, session : 0 .. MaxSessions]
  BY DEF T!TypeOK
<1>1. PICK w : w = [status |-> s, session |-> k]
  OBVIOUS
<1>2. w \in [status : 0 .. MaxStatus, session : 0 .. MaxSessions]
  BY <1>1
<1>3. sending' = sending \/ sending' = w
  BY <1>1 DEF T!sendNode
<1>4. nodeSending' \in BOOLEAN
  BY <1>0 DEF T!sendNode
<1>5. nodeChanged' \in BOOLEAN
  BY <1>0 DEF T!sendNode
<1> QED BY <1>0, <1>2, <1>3, <1>4, <1>5

LEMMA NodeKeeps ==
  ASSUME TailnetBounds, T!TypeOK, T!NodeNext,
         UNCHANGED <<side, now, peerMap, handshake, listener, closed, tcp>>
  PROVE  T!TypeOK'
<1>0. /\ asOf \in 0 .. MaxStatus /\ lastStatus \in 0 .. MaxStatus /\ nodeCallback \in 0 .. MaxSessions
      /\ arriving \subseteq 1 .. MaxStatus /\ delivered \in 0 .. MaxStatus
      /\ nodeSending \in BOOLEAN /\ nodeChanged \in BOOLEAN
      /\ sending \in [status : 0 .. MaxStatus, session : 0 .. MaxSessions]
  BY DEF T!TypeOK
<1>1. SUFFICES /\ asOf' \in 0 .. MaxStatus /\ lastStatus' \in 0 .. MaxStatus /\ arriving' \subseteq 1 .. MaxStatus
               /\ nodeSending' \in BOOLEAN /\ nodeChanged' \in BOOLEAN
               /\ sending' \in [status : 0 .. MaxStatus, session : 0 .. MaxSessions]
               /\ nodeCallback' \in 0 .. MaxSessions /\ delivered' \in 0 .. MaxStatus
  BY DEF T!TypeOK, T!Never
<1>2. CASE T!EngineReports
  <2>1. asOf + 1 \in 1 .. MaxStatus /\ asOf + 1 \in 0 .. MaxStatus
    BY <1>0, <1>2 DEF T!EngineReports, TailnetBounds
  <2> QED BY <1>0, <1>2, <2>1 DEF T!EngineReports
<1>3. CASE T!SetNodeCallback
  <2>1. nodeCallback + 1 \in 0 .. MaxSessions /\ 0 \in 0 .. MaxStatus
    BY <1>0, <1>3 DEF T!SetNodeCallback, TailnetBounds
  <2>2. /\ nodeSending' \in BOOLEAN /\ nodeChanged' \in BOOLEAN
        /\ sending' \in [status : 0 .. MaxStatus, session : 0 .. MaxSessions]
    BY <1>0, <1>3, <2>1, SendNodeIs DEF T!SetNodeCallback
  <2> QED BY <1>0, <1>3, <2>1, <2>2 DEF T!SetNodeCallback
<1>4. CASE T!Sent
  <2>1. delivered' \in 0 .. MaxStatus
    BY <1>0, <1>4 DEF T!Sent
  <2>2. sending' \in [status : 0 .. MaxStatus, session : 0 .. MaxSessions]
    <3>1. 0 \in 0 .. MaxStatus /\ 0 \in 0 .. MaxSessions
      BY DEF TailnetBounds
    <3>2. PICK w : w = [status |-> lastStatus, session |-> nodeCallback]
      OBVIOUS
    <3>3. sending' = w \/ sending' = T!NotSending
      BY <1>4, <3>2 DEF T!Sent
    <3>4. w \in [status : 0 .. MaxStatus, session : 0 .. MaxSessions]
      BY <1>0, <3>2
    <3>5. T!NotSending \in [status : 0 .. MaxStatus, session : 0 .. MaxSessions]
      BY <3>1 DEF T!NotSending
    <3> QED BY <3>3, <3>4, <3>5
  <2>3. nodeSending' \in BOOLEAN
    BY <1>0, <1>4 DEF T!Sent
  <2>4. nodeChanged' \in BOOLEAN
    BY <1>4 DEF T!Sent
  <2> QED BY <1>0, <1>4, <2>1, <2>2, <2>3, <2>4 DEF T!Sent
<1>5. ASSUME NEW s \in 1 .. MaxStatus, T!StatusCallback(s)
      PROVE  /\ asOf' \in 0 .. MaxStatus /\ lastStatus' \in 0 .. MaxStatus /\ arriving' \subseteq 1 .. MaxStatus
             /\ nodeSending' \in BOOLEAN /\ nodeChanged' \in BOOLEAN
             /\ sending' \in [status : 0 .. MaxStatus, session : 0 .. MaxSessions]
             /\ nodeCallback' \in 0 .. MaxSessions /\ delivered' \in 0 .. MaxStatus
  <2>1. s \in 0 .. MaxStatus
    BY DEF TailnetBounds
  <2>2. arriving' \subseteq 1 .. MaxStatus /\ UNCHANGED <<asOf, nodeCallback, delivered>>
    BY <1>0, <1>5 DEF T!StatusCallback
  <2>3. CASE T!Outdated(s)
    <3>1. UNCHANGED <<lastStatus, nodeSending, nodeChanged, sending>>
      BY <1>5, <2>3 DEF T!StatusCallback
    <3> QED BY <1>0, <2>2, <3>1
  <2>4. CASE ~T!Outdated(s)
    <3>1. lastStatus' = s /\ T!sendNode(s, nodeCallback)
      BY <1>5, <2>4 DEF T!StatusCallback
    <3>2. /\ nodeSending' \in BOOLEAN /\ nodeChanged' \in BOOLEAN
          /\ sending' \in [status : 0 .. MaxStatus, session : 0 .. MaxSessions]
      BY <1>0, <2>1, <3>1, SendNodeIs
    <3> QED BY <1>0, <2>1, <2>2, <3>1, <3>2
  <2> QED BY <2>3, <2>4
<1> QED BY <1>2, <1>3, <1>4, <1>5 DEF T!NodeNext

LEMMA PeersKeep ==
  ASSUME TailnetBounds, T!TypeOK, T!PeersNext,
         UNCHANGED <<side, asOf, arriving, lastStatus, nodeSending, nodeChanged, sending, nodeCallback, delivered, listener, closed, tcp>>
  PROVE  T!TypeOK'
<1>0. now \in 1 .. MaxTime /\ peerMap \in [TailnetPeers -> 0 .. T!Never] /\ handshake \in [TailnetPeers -> 0 .. MaxTime] /\ T!Never = MaxTime + 1
  BY DEF T!TypeOK, T!Never
<1>1. SUFFICES now' \in 1 .. MaxTime /\ peerMap' \in [TailnetPeers -> 0 .. T!Never] /\ handshake' \in [TailnetPeers -> 0 .. MaxTime]
  BY DEF T!TypeOK, T!Never
<1>2. ASSUME NEW a \in SUBSET TailnetPeers, T!Tick(a)
      PROVE  now' \in 1 .. MaxTime /\ peerMap' \in [TailnetPeers -> 0 .. T!Never] /\ handshake' \in [TailnetPeers -> 0 .. MaxTime]
  <2>1. now' = now + 1 /\ now + 1 \in 1 .. MaxTime /\ now + 1 \in 0 .. MaxTime /\ UNCHANGED peerMap
    BY <1>0, <1>2 DEF T!Tick, TailnetBounds
  <2>2. handshake' \in [TailnetPeers -> 0 .. MaxTime]
    BY <1>0, <1>2, <2>1 DEF T!Tick
  <2> QED BY <1>0, <2>1, <2>2
<1>3. ASSUME NEW n \in SUBSET TailnetPeers, NEW k \in SUBSET TailnetPeers, T!UpdateNodes(n, k)
      PROVE  now' \in 1 .. MaxTime /\ peerMap' \in [TailnetPeers -> 0 .. T!Never] /\ handshake' \in [TailnetPeers -> 0 .. MaxTime]
  <2>1. now \in 0 .. T!Never /\ T!Never \in 0 .. T!Never
    BY <1>0 DEF TailnetBounds
  <2>2. peerMap' \in [TailnetPeers -> 0 .. T!Never]
    BY <1>0, <1>3, <2>1 DEF T!UpdateNodes
  <2> QED BY <1>0, <1>3, <2>2 DEF T!UpdateNodes
<1> QED BY <1>2, <1>3 DEF T!PeersNext

LEMMA ForwardKeeps ==
  ASSUME T!TypeOK, T!ForwardNext,
         UNCHANGED <<side, asOf, arriving, lastStatus, nodeSending, nodeChanged, sending, nodeCallback, delivered, now, peerMap, handshake>>
  PROVE  T!TypeOK'
<1>1. SUFFICES /\ listener' \in {"none", "open", "closed"} /\ closed' \in BOOLEAN
               /\ tcp' \in [TCPConns -> {"none", "lookup", "offered", "forwarded", "accepted", "closed"}]
  BY DEF T!TypeOK, T!Never
<1>2. /\ listener \in {"none", "open", "closed"} /\ closed \in BOOLEAN
      /\ tcp \in [TCPConns -> {"none", "lookup", "offered", "forwarded", "accepted", "closed"}]
  BY DEF T!TypeOK
<1>3. CASE T!Listen \/ T!ListenerClose \/ T!Close
  BY <1>2, <1>3 DEF T!Listen, T!ListenerClose, T!Close
<1>4. CASE \E c \in TCPConns : T!ForwardTCP(c) \/ T!Accept(c) \/ T!Abandon(c) \/ T!LocalEnds(c)
  BY <1>2, <1>4 DEF T!ForwardTCP, T!Accept, T!Abandon, T!LocalEnds
<1> QED BY <1>3, <1>4 DEF T!ForwardNext

LEMMA NextTailnet == ASSUME TailnetBounds, T!TypeOK, [T!Next]_(T!vars) PROVE T!TypeOK'
<1>1. CASE UNCHANGED T!vars
  BY <1>1 DEF T!vars, T!node, T!peers, T!forward, T!TypeOK, T!Never
<1> QED BY <1>1, NodeKeeps, PeersKeep, ForwardKeeps DEF T!Next

LEMMA ActiveStay == ASSUME TailnetBounds, T!TypeOK, T!Next PROVE T!OnlyStalePeersGo
<1>1. CASE UNCHANGED peerMap
  BY <1>1 DEF T!OnlyStalePeersGo
<1>2. ASSUME NEW n \in SUBSET TailnetPeers, NEW k \in SUBSET TailnetPeers, T!UpdateNodes(n, k) PROVE T!OnlyStalePeersGo
  <2>1. now # T!Never
    BY DEF T!TypeOK, T!Never, TailnetBounds
  <2> QED BY <1>2, <2>1 DEF T!OnlyStalePeersGo, T!UpdateNodes, T!Stale
<1> QED BY <1>1, <1>2 DEF T!Next, T!PeersNext, T!Tick

\* A peer that shook hands in the last five minutes is not dropped from the tailnet, for any number
\* of peers and of updates (Conn.UpdateNodes of tailnet/conn.go).
THEOREM ActivePeersAreKept == ASSUME TailnetBounds PROVE T!Spec => [](T!TypeOK) /\ T!ActivePeersStay
<1>1. T!Init => T!TypeOK
  BY InitTailnet
<1>2. T!TypeOK /\ [T!Next]_(T!vars) => T!TypeOK'
  BY NextTailnet
<1>3. T!TypeOK /\ [T!Next]_(T!vars) => [T!OnlyStalePeersGo]_(T!peers)
  BY ActiveStay DEF T!vars, T!peers
<1> QED BY <1>1, <1>2, <1>3, PTL DEF T!Spec, T!ActivePeersStay

-----------------------------------------------------------------------------
(* The row of an agent.                                                    *)

AgentRowBounds == MaxBuild \in Nat \ {0}

LEMMA InitConnection == ASSUME AgentRowBounds, N!Init PROVE N!TypeOK
<1>1. 1 \in 1 .. MaxBuild
  BY DEF AgentRowBounds
<1> QED BY <1>1 DEF N!Init, N!TypeOK

LEMMA MoveIs ==
  ASSUME N!TypeOK, NEW s \in Sessions, NEW at \in {"off", "read", "checked", "up", "ending", "gone"}, N!Move(s, at)
  PROVE  session_connection' \in [Sessions -> [at : {"off", "read", "checked", "up", "ending", "gone"}, disc : BOOLEAN]]
BY DEF N!TypeOK, N!Move

LEMMA NextConnection == ASSUME AgentRowBounds, N!TypeOK, [N!Next]_(N!vars) PROVE N!TypeOK'
<1>0. /\ row_connection \in [first : BOOLEAN, disc : {"null", "before", "after"}, recent : BOOLEAN, timely : BOOLEAN]
      /\ latest_connection \in 1 .. MaxBuild
      /\ session_connection \in [Sessions -> [at : {"off", "read", "checked", "up", "ending", "gone"}, disc : BOOLEAN]]
  BY DEF N!TypeOK
<1>1. SUFFICES /\ row_connection' \in [first : BOOLEAN, disc : {"null", "before", "after"}, recent : BOOLEAN, timely : BOOLEAN]
               /\ latest_connection' \in 1 .. MaxBuild
               /\ session_connection' \in [Sessions -> [at : {"off", "read", "checked", "up", "ending", "gone"}, disc : BOOLEAN]]
  BY DEF N!TypeOK
<1>2. CASE UNCHANGED N!vars
  BY <1>0, <1>2 DEF N!vars
<1>3. ASSUME NEW s \in Sessions PROVE /\ N!Beaten(s) \in [first : BOOLEAN, disc : {"null", "before", "after"}, recent : BOOLEAN, timely : BOOLEAN]
                                      /\ N!Disconnected(s) \in [first : BOOLEAN, disc : {"null", "before", "after"}, recent : BOOLEAN, timely : BOOLEAN]
  BY <1>0 DEF N!Beaten, N!Disconnected
<1>4. ASSUME NEW s \in Sessions, N!Read(s)
      PROVE  session_connection' \in [Sessions -> [at : {"off", "read", "checked", "up", "ending", "gone"}, disc : BOOLEAN]]
  <2>1. PICK w : w = [at |-> "read", disc |-> row_connection.disc # "null"]
    OBVIOUS
  <2>2. w \in [at : {"off", "read", "checked", "up", "ending", "gone"}, disc : BOOLEAN]
    BY <2>1
  <2>3. session_connection' = [session_connection EXCEPT ![s] = w]
    BY <1>4, <2>1 DEF N!Read
  <2> QED BY <1>0, <2>2, <2>3
<1>5. ASSUME NEW s \in Sessions, N!Check(s) \/ N!Connect(s) \/ N!Beat(s) \/ N!Break(s) \/ N!Disconnect(s) \/ N!Vanish(s)
      PROVE  session_connection' \in [Sessions -> [at : {"off", "read", "checked", "up", "ending", "gone"}, disc : BOOLEAN]]
  <2>1. \E at \in {"off", "read", "checked", "up", "ending", "gone"} : N!Move(s, at)
    BY <1>5 DEF N!Check, N!Connect, N!Beat, N!Break, N!Disconnect, N!Vanish
  <2> QED BY <2>1, MoveIs
<1>6. CASE \E s \in Sessions :
             N!Read(s) \/ N!Check(s) \/ N!Connect(s) \/ N!Beat(s) \/ N!Break(s) \/ N!Disconnect(s) \/ N!Vanish(s)
  <2>1. PICK s \in Sessions :
             N!Read(s) \/ N!Check(s) \/ N!Connect(s) \/ N!Beat(s) \/ N!Break(s) \/ N!Disconnect(s) \/ N!Vanish(s)
    BY <1>6
  <2>2. UNCHANGED latest_connection /\ (UNCHANGED row_connection \/ row_connection' = N!Beaten(s) \/ row_connection' = N!Disconnected(s))
    BY <2>1 DEF N!Read, N!Check, N!Connect, N!Beat, N!Break, N!Disconnect, N!Vanish
  <2>3. session_connection' \in [Sessions -> [at : {"off", "read", "checked", "up", "ending", "gone"}, disc : BOOLEAN]]
    BY <2>1, <1>4, <1>5
  <2> QED BY <1>0, <1>3, <2>2, <2>3
<1>7. CASE N!NewBuild
  BY <1>0, <1>7 DEF N!NewBuild, AgentRowBounds
<1>8. CASE N!Inactive \/ N!Late
  BY <1>0, <1>8 DEF N!Inactive, N!Late
<1> QED BY <1>2, <1>6, <1>7, <1>8 DEF N!Next

-----------------------------------------------------------------------------
(* What connects replicas and agents.                                      *)

\* What each component needs to know of its constants.
ReplicasConstants == ReplicaBounds /\ CacheBounds /\ TailnetBounds /\ AgentRowBounds

\* Each component keeps its invariant in its own behaviours.
PartsInv ==
    /\ part = "replicas" => ReplicasInv
    /\ part = "cache" => CacheInv
    /\ part = "tailnet" => T!TypeOK
    /\ part = "connection" => N!TypeOK

LEMMA InitParts == ASSUME ReplicasConstants, Init PROVE PartsInv
<1>1. ReplicasInv
  BY InitReplicas DEF Init, ReplicasConstants
<1>2. CacheInv
  BY InitCache DEF Init
<1>3. T!TypeOK
  BY InitTailnet DEF Init, ReplicasConstants
<1>4. N!TypeOK
  BY InitConnection DEF Init, ReplicasConstants
<1> QED BY <1>1, <1>2, <1>3, <1>4 DEF PartsInv

\* A step is one of the component that the behaviour is of.
LEMMA PartSteps ==
  ASSUME [Next]_vars
  PROVE  /\ part' = part
         /\ part = "replicas" => [R!Next]_(R!vars)
         /\ part = "cache" => [C!Next]_(C!vars)
         /\ part = "tailnet" => [T!Next]_(T!vars)
         /\ part = "connection" => [N!Next]_(N!vars)
<1>1. CASE Next
  BY <1>1 DEF Next
<1>2. CASE UNCHANGED vars
  BY <1>2 DEF vars, varsR, varsC, varsT, varsN, R!vars, C!vars, T!vars, T!node, T!peers, T!forward, N!vars
<1> QED BY <1>1, <1>2

LEMMA NextParts == ASSUME ReplicasConstants, PartsInv, [Next]_vars PROVE PartsInv'
<1>1. part' = part
  BY PartSteps
<1>2. part = "replicas" => ReplicasInv'
  BY PartSteps, NextReplicas DEF PartsInv, ReplicasConstants
<1>3. part = "cache" => CacheInv'
  BY PartSteps, NextCache DEF PartsInv, ReplicasConstants
<1>4. part = "tailnet" => (T!TypeOK)'
  BY PartSteps, NextTailnet DEF PartsInv, ReplicasConstants
<1>5. part = "connection" => (N!TypeOK)'
  BY PartSteps, NextConnection DEF PartsInv, ReplicasConstants
<1> QED BY <1>1, <1>2, <1>3, <1>4, <1>5 DEF PartsInv

LEMMA PartsFollow == ASSUME ReplicasConstants, PartsInv PROVE ReplicasSafe
<1>1. part = "replicas" => R!TypeOK
  BY ReplicasTypes DEF PartsInv
<1>2. part = "cache" => C!TypeOK /\ C!NothingLeftOpen
  BY CacheSafe DEF PartsInv, ReplicasConstants
<1> QED BY <1>1, <1>2 DEF ReplicasSafe, PartsInv

(* What is open, known and counted between replicas and agents is what it  *)
(* should be, in every behaviour of the suite.                             *)
THEOREM ReplicasAreSafe ==
  ASSUME ReplicasConstants
  PROVE  Spec => []ReplicasSafe
<1>1. Init => PartsInv
  BY InitParts
<1>2. PartsInv /\ [Next]_vars => PartsInv'
  BY NextParts
<1>3. PartsInv => ReplicasSafe
  BY PartsFollow
<1> QED BY <1>1, <1>2, <1>3, PTL DEF Spec

\* What a step may never do, in the component that takes it.
LEMMA PartsStay ==
  ASSUME ReplicasConstants, PartsInv, [Next]_vars
  PROVE  [/\ part = "replicas" => R!StaysStopped
          /\ part = "tailnet" => T!OnlyStalePeersGo]_vars
<1>1. SUFFICES ASSUME Next PROVE (part = "replicas" => R!StaysStopped) /\ (part = "tailnet" => T!OnlyStalePeersGo)
  OBVIOUS
<1>2. part = "replicas" => R!Next
  BY <1>1 DEF Next
<1>3. part = "tailnet" => T!Next
  BY <1>1 DEF Next
<1>4. part = "replicas" => R!StaysStopped
  BY <1>2, StepsStay DEF PartsInv
<1>5. part = "tailnet" => T!OnlyStalePeersGo
  BY <1>3, ActiveStay DEF PartsInv, ReplicasConstants
<1> QED BY <1>4, <1>5

(* A replica that has stopped is not made to look alive again, and a peer  *)
(* that shook hands lately is not dropped, in every step of the suite.     *)
THEOREM ReplicasStepsHold ==
  ASSUME ReplicasConstants
  PROVE  Spec => ReplicasSteps
<1>1. Init => PartsInv
  BY InitParts
<1>2. PartsInv /\ [Next]_vars => PartsInv'
  BY NextParts
<1>3. PartsInv /\ [Next]_vars => [/\ part = "replicas" => R!StaysStopped
                                  /\ part = "tailnet" => T!OnlyStalePeersGo]_vars
  BY PartsStay
<1> QED BY <1>1, <1>2, <1>3, PTL DEF Spec, ReplicasSteps
=============================================================================
