---------------------------- MODULE WSConnCache ----------------------------
(***************************************************************************)
(* The cache of agent connections (coderd/wsconncache), for one agent:     *)
(* requests acquire and release a connection, a singleflight group lets    *)
(* one of them dial, a goroutine per connection watches for the idle       *)
(* timeout, the end of the connection and the end of the cache, and drops  *)
(* the agent's entry, whichever connection the entry holds by then.        *)
(***************************************************************************)
EXTENDS Naturals, FiniteSets

CONSTANTS
    Requests,
    Conns          \* the connections a dial may yield, each once

VARIABLES
    entry,         \* connMap[id], or None
    flight,        \* the request whose call the singleflight group has for the id, or None
    waiting,       \* for each request that dials, those that wait for its result
    req,           \* where each Acquire is, and its connection
    conn,          \* of each connection: its life, and where its goroutine is
    locks,         \* Conn.locks
    timer,         \* Conn.timeout
    cache          \* "open", "closing" (Close waits for closeGroup) or "closed"

vars == <<entry, flight, waiting, req, conn, locks, timer, cache>>

None == "none"

TypeOK ==
    /\ entry \in Conns \union {None} /\ flight \in Requests \union {None}
    /\ waiting \in [Requests -> SUBSET Requests]
    /\ req \in [Requests -> [at : {"start", "join", "dial", "wait", "store", "lock", "using", "done"},
                             conn : Conns \union {None}]]
    /\ conn \in [Conns -> [life : {"undialed", "live", "dead"},
                           watch : {"none", "watching", "dropped", "forgotten", "over"}]]
    /\ locks \in [Conns -> 0 .. Cardinality(Requests)]
    /\ timer \in [Conns -> {"off", "armed", "fired"}]
    /\ cache \in {"open", "closing", "closed"}

Init ==
    /\ entry = None /\ flight = None
    /\ waiting = [r \in Requests |-> {}]
    /\ req = [r \in Requests |-> [at |-> "start", conn |-> None]]
    /\ conn = [c \in Conns |-> [life |-> "undialed", watch |-> "none"]]
    /\ locks = [c \in Conns |-> 0] /\ timer = [c \in Conns |-> "off"]
    /\ cache = "open"

----------------------------------------------------------------------------
(* Acquire.                                                                 *)

\* connMap.Load
Load(r) ==
    /\ req[r].at = "start"
    /\ req' = [req EXCEPT ![r] = [at |-> IF entry = None THEN "join" ELSE "lock", conn |-> entry]]
    /\ UNCHANGED <<entry, flight, waiting, conn, locks, timer, cache>>

\* connGroup.Do: the request waits for the call that is under way, or makes one.
Join(r) ==
    /\ req[r].at = "join"
    /\ IF flight # None
       THEN /\ waiting' = [waiting EXCEPT ![flight] = @ \union {r}]
            /\ req' = [req EXCEPT ![r].at = "wait"]
            /\ UNCHANGED flight
       ELSE /\ cache # "closing"     \* closeMutex
            /\ req' = [req EXCEPT ![r].at = IF cache = "closed" THEN "done" ELSE "dial"]
            /\ flight' = IF cache = "closed" THEN None ELSE r
            /\ UNCHANGED waiting
    /\ UNCHANGED <<entry, conn, locks, timer, cache>>

\* The call returns to the request and to those that wait; the group drops it, if Forget
\* has not, and another call may be under way, which it leaves.
Results(r, res) ==
    /\ req' = [q \in Requests |-> IF q \in waiting[r] \union {r} THEN res ELSE req[q]]
    /\ waiting' = [waiting EXCEPT ![r] = {}]
    /\ flight' = IF flight = r THEN None ELSE flight

DialFails(r) ==
    /\ req[r].at = "dial"
    /\ Results(r, [at |-> "done", conn |-> None])
    /\ UNCHANGED <<entry, conn, locks, timer, cache>>

Dial(r, c) ==
    /\ req[r].at = "dial" /\ conn[c].life = "undialed"
    /\ conn' = [conn EXCEPT ![c] = [life |-> "live", watch |-> "watching"]]
    /\ Results(r, [at |-> "store", conn |-> c])
    /\ UNCHANGED <<entry, locks, timer, cache>>

\* connMap.Store
Store(r) ==
    /\ req[r].at = "store"
    /\ entry' = req[r].conn
    /\ req' = [req EXCEPT ![r].at = "lock"]
    /\ UNCHANGED <<flight, waiting, conn, locks, timer, cache>>

Stopped(c) == IF timer[c] = "armed" THEN "off" ELSE timer[c]

\* Mutant of Held: the user is not counted.
HeldUncounted(c) == locks[c]

Held(c) == locks[c] + 1

Lock(r) ==
    LET c == req[r].conn IN
    /\ req[r].at = "lock"
    /\ timer' = [timer EXCEPT ![c] = Stopped(c)]
    /\ locks' = [locks EXCEPT ![c] = Held(c)]
    /\ req' = [req EXCEPT ![r].at = "using"]
    /\ UNCHANGED <<entry, flight, waiting, conn, cache>>

\* Mutant of Rearmed: the timeout starts only after the first use.
RearmedOnce(c) == Stopped(c)

Rearmed(c) == IF locks[c] = 1 /\ timer[c] # "fired" THEN "armed" ELSE Stopped(c)

\* The function Acquire returns; the last one to call it starts the timeout.
Release(r) ==
    LET c == req[r].conn IN
    /\ req[r].at = "using"
    /\ timer' = [timer EXCEPT ![c] = Rearmed(c)]
    /\ locks' = [locks EXCEPT ![c] = @ - 1]
    /\ req' = [req EXCEPT ![r].at = "done"]
    /\ UNCHANGED <<entry, flight, waiting, conn, cache>>

----------------------------------------------------------------------------
(* The goroutine of a connection.                                           *)

TimerFires(c) ==
    /\ timer[c] = "armed"
    /\ timer' = [timer EXCEPT ![c] = "fired"]
    /\ UNCHANGED <<entry, flight, waiting, req, conn, locks, cache>>

\* connMap.Delete: the entry goes, whichever connection it is.
Drop(c) ==
    /\ conn[c].watch = "watching"
    /\ timer[c] = "fired" \/ conn[c].life = "dead" \/ cache # "open"
    /\ entry' = None
    /\ conn' = [conn EXCEPT ![c].watch = "dropped"]
    /\ UNCHANGED <<flight, waiting, req, locks, timer, cache>>

\* connGroup.Forget
Forget(c) ==
    /\ conn[c].watch = "dropped"
    /\ flight' = None
    /\ conn' = [conn EXCEPT ![c].watch = "forgotten"]
    /\ UNCHANGED <<entry, waiting, req, locks, timer, cache>>

\* CloseWithError stops the timer.
CloseConn(c) ==
    /\ conn[c].watch = "forgotten"
    /\ conn' = [conn EXCEPT ![c] = [life |-> "dead", watch |-> "over"]]
    /\ timer' = [timer EXCEPT ![c] = Stopped(c)]
    /\ UNCHANGED <<entry, flight, waiting, req, locks, cache>>

\* The agent goes away.
ConnDies(c) ==
    /\ conn[c].life = "live"
    /\ conn' = [conn EXCEPT ![c].life = "dead"]
    /\ UNCHANGED <<entry, flight, waiting, req, locks, timer, cache>>

----------------------------------------------------------------------------
(* Close.                                                                   *)

CloseBegin ==
    /\ cache = "open"
    /\ cache' = "closing"
    /\ UNCHANGED <<entry, flight, waiting, req, conn, locks, timer>>

\* Mutant of GroupDone: a dial under way is not counted in closeGroup.
GroupDoneEarly == \A c \in Conns : conn[c].watch \in {"none", "over"}

\* closeGroup: one for each dial under way and for each goroutine.
GroupDone ==
    /\ \A r \in Requests : req[r].at # "dial"
    /\ \A c \in Conns : conn[c].watch \in {"none", "over"}

CloseEnd ==
    /\ cache = "closing" /\ GroupDone
    /\ cache' = "closed"
    /\ UNCHANGED <<entry, flight, waiting, req, conn, locks, timer>>

Watch(c) == Drop(c) \/ Forget(c) \/ CloseConn(c)
AcquireStep(r) ==
    Load(r) \/ Join(r) \/ DialFails(r) \/ (\E c \in Conns : Dial(r, c)) \/ Store(r) \/ Lock(r)

Next ==
    \/ \E r \in Requests : AcquireStep(r) \/ Release(r)
    \/ \E c \in Conns : TimerFires(c) \/ Watch(c) \/ ConnDies(c)
    \/ CloseBegin \/ CloseEnd

Spec == Init /\ [][Next]_vars

\* Goroutines are scheduled and timers fire; a request may keep its connection for ever.
Fairness ==
    /\ \A r \in Requests : WF_vars(AcquireStep(r))
    /\ \A c \in Conns : WF_vars(TimerFires(c)) /\ WF_vars(Watch(c))
    /\ WF_vars(CloseEnd)

FairSpec == Spec /\ Fairness

----------------------------------------------------------------------------
\* When Close has returned, no connection is left open, also none whose dial was under way.
NothingLeftOpen == cache = "closed" => \A c \in Conns : conn[c].life # "live"

\* "Once zero locks exist on a connection, the inactive timeout will begin to tick down": a
\* connection nobody holds is used again or closed, also one that fell out of the cache.
IdleConnsClose == \A c \in Conns : (conn[c].life = "live" /\ locks[c] = 0) ~> (conn[c].life = "dead" \/ locks[c] > 0)

\* "After the time expires, the connection will be cleared from the cache."
DeadConnsNotCached ==
    \A c \in Conns : conn[c].watch = "over" => entry # c
============================================================================
