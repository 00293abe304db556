----------------------------- MODULE DerpMesh -----------------------------
(***************************************************************************)
(* The DERP mesh of one replica (enterprise/derpmesh).  Whenever the       *)
(* replica has synchronised, a goroutine reads the addresses of its peers  *)
(* and calls SetAddresses (enterprise/coderd/coderd.go); several of these  *)
(* goroutines may run at once.  addAddress takes the mutex for each        *)
(* address, the removal takes it once.                                     *)
(***************************************************************************)
EXTENDS Naturals, FiniteSets

CONSTANTS
    Addresses,
    Calls          \* the calls of SetAddresses

VARIABLES
    peers,         \* the addresses the replica manager knows
    call,          \* each call's total, and the addresses it has still to add
    active,        \* Mesh.active
    loops,         \* how many connection loops run for each address
    closed

vars == <<peers, call, active, loops, closed>>

NotBegun == [at |-> "begin"]
Done == [at |-> "done"]

TypeOK ==
    /\ peers \subseteq Addresses /\ active \subseteq Addresses
    /\ \A k \in Calls : call[k] \in {NotBegun, Done} \union
            [at : {"adding"}, total : SUBSET Addresses, left : SUBSET Addresses]
    /\ loops \in [Addresses -> 0 .. Cardinality(Calls)]
    /\ closed \in BOOLEAN

Init ==
    /\ peers = {} /\ active = {} /\ closed = FALSE
    /\ call = [k \in Calls |-> NotBegun]
    /\ loops = [a \in Addresses |-> 0]

\* syncReplicas stores other peers.
PeersChange(set) ==
    /\ set # peers
    /\ peers' = set
    /\ UNCHANGED <<call, active, loops, closed>>

\* The callback reads Regional and calls SetAddresses.
Begin(k) ==
    /\ call[k] = NotBegun
    /\ call' = [call EXCEPT ![k] = [at |-> "adding", total |-> peers, left |-> peers]]
    /\ UNCHANGED <<peers, active, loops, closed>>

\* Mutant of Meshes: what is active is not looked up.
MeshesAgain(a) == ~closed

\* Mutant of Meshes: the mesh does not look whether it is closed.
MeshesClosed(a) == a \notin active

\* addAddress dials unless the mesh is closed or the address is active already.
Meshes(a) == ~closed /\ a \notin active

Add(k, a) ==
    /\ call[k].at = "adding" /\ a \in call[k].left
    /\ call' = [call EXCEPT ![k].left = @ \ {a}]
    /\ active' = IF Meshes(a) THEN active \union {a} ELSE active
    /\ loops' = IF Meshes(a) THEN [loops EXCEPT ![a] = @ + 1] ELSE loops
    /\ UNCHANGED <<peers, closed>>

\* removeAddress, for what is active and not among the addresses: the connection loop ends,
\* the entry of active stays.
Remove(k) ==
    /\ call[k].at = "adding" /\ call[k].left = {}
    /\ loops' = [a \in Addresses |-> IF a \in active \ call[k].total THEN 0 ELSE loops[a]]
    /\ call' = [call EXCEPT ![k] = Done]
    /\ UNCHANGED <<peers, active, closed>>

Close ==
    /\ ~closed
    /\ closed' = TRUE
    /\ loops' = [a \in Addresses |-> 0]
    /\ UNCHANGED <<peers, call, active>>

Next ==
    \/ \E set \in SUBSET Addresses : PeersChange(set)
    \/ \E k \in Calls : Begin(k) \/ Remove(k) \/ \E a \in Addresses : Add(k, a)
    \/ Close

Spec == Init /\ [][Next]_vars

----------------------------------------------------------------------------
\* However calls of SetAddresses overlap, an address has one connection loop at most, and a
\* loop that runs is known to active, so that Close and a later call can end it.
OneLoopEach == \A a \in Addresses : loops[a] <= 1 /\ (loops[a] = 1 => a \in active)

\* Close ends all meshing: a callback that was under way starts nothing any more.
ClosedIsQuiet == closed => \A a \in Addresses : loops[a] = 0

\* "SetAddresses performs a diff of the incoming addresses and adds or removes DERP clients
\* from the mesh.": when a call that nothing overlapped is done, its addresses are meshed.
AddressesMeshed ==
    [][\A k \in Calls :
        Remove(k) /\ ~closed /\ (\A j \in Calls \ {k} : call[j].at # "adding")
            => \A a \in Addresses : loops'[a] = IF a \in call[k].total THEN 1 ELSE 0]_vars
============================================================================
