---------------------------- MODULE Entitlements ----------------------------
(***************************************************************************)
(* Licenses and entitlements (enterprise/coderd/coderd.go, licenses.go,    *)
(* license/license.go) at one replica.  It computes its entitlements from  *)
(* the licenses in the database, and when a feature is switched on or off  *)
(* it swaps the tailnet coordinator and the other hooks of the server.     *)
(* Licenses are changed through this replica or through another one, whose *)
(* change reaches it by a notification that may be lost; a timer resyncs.  *)
(* Replica sync calls back in goroutines that nothing orders.              *)
(***************************************************************************)
EXTENDS Integers, Sequences, FiniteSets

CONSTANTS
    Licenses,       \* the licenses an administrator may upload
    Grants,         \* license -> the features it grants
    AllFeatures,    \* the licenses that grant every feature
    LicenseExpires, \* license -> the start of its grace period
    Exp,            \* license -> the end of its grace period
    Knows,          \* the licenses the version and keys of this replica can parse
    Requests,       \* calls of postLicense and deleteLicense
    MaxTime, MaxFaults, MaxPeerChanges,
    MaxCalls        \* callbacks that replica sync lets overlap

VARIABLES
    now,
    table,          \* the table licenses, in the order of their IDs
    entitlements,   \* the features, and the error about unlicensed peers
    entitlementsMu, \* who holds the mutex, and with what context
    computed,       \* what that one has computed
    committer,      \* is the quota committer installed?
    coordinator,    \* the kind of tailnet coordinator in use
    unable,         \* setting up the HA coordinator failed
    callback,       \* the callback replica sync has
    calls,          \* the callbacks that are running
    meshed,         \* does the DERP mesh have the peer's address?
    peer,           \* has replica sync found a peer?
    loop,           \* where New and then runEntitlementsLoop is
    notified,       \* a notification is on its way
    updates,        \* the channel of capacity one holds an event
    request,        \* request -> [at, step]: here or at another replica
    faults, peerChanges

vars == <<now, table, entitlements, entitlementsMu, computed, committer, coordinator, unable, callback,
          calls, meshed, peer, loop, notified, updates, request, faults, peerChanges>>
server == <<committer, coordinator, unable, callback, calls, meshed>>

\* "rbac" stands for the features that switch a hook (audit log, browser only,
\* template RBAC), "ha" swaps the coordinator, "git" switches nothing (SCIM,
\* multiple Git auth, external provisioner daemons).  All are configured.
Features == {"rbac", "ha", "git"}
NotYet == [features |-> [f \in Features |-> "not_entitled"], error |-> FALSE, set |-> FALSE]
Enabled(e, f) == e.features[f] # "not_entitled"
Free == [by |-> "nobody", ctx |-> "none"]
\* A callback meshes the peers when it was set with high availability on; its
\* context is the one of the update that set it.
NoCallback == [mesh |-> FALSE, ctx |-> "none"]
Steps == {"mesh", "update"}

-----------------------------------------------------------------------------
(* license.Entitlements *)

\* A license that ran out is not selected, and one this replica cannot parse
\* is skipped.
ParseClaims(l) == l \in Knows
Valid(l) == Exp[l] > now /\ ParseClaims(l)

\* Mutant of Parsed: only the newest license counts.
ParsedLast(t) ==
    LET valid == {i \in DOMAIN t : Valid(t[i])} IN {i \in valid : \A j \in valid : j <= i}

Parsed(t) == {i \in DOMAIN t : Valid(t[i])}

\* The licenses are looked at in order: the last one that grants a feature
\* says whether it is in its grace period.
Entitlement(t, f) ==
    LET granting == {i \in Parsed(t) : f \in Grants[t[i]]}
        last == CHOOSE i \in granting : \A j \in granting : j <= i
    IN  IF \E i \in Parsed(t) : t[i] \in AllFeatures THEN "entitled"
        ELSE IF granting = {} THEN "not_entitled"
        ELSE IF now > LicenseExpires[t[last]] THEN "grace_period"
        ELSE "entitled"

Entitlements(t) ==
    [features |-> [f \in Features |-> Entitlement(t, f)],
     error |-> peer /\ Entitlement(t, "ha") = "not_entitled",
     set |-> TRUE]

-----------------------------------------------------------------------------
(* updateEntitlements, called by New and the loop, by requests and by the  *)
(* callbacks of replica sync; the mutex is held from Lock to Store.        *)

Init ==
    /\ now = 0 /\ table \in {<<>>} \cup {<<l>> : l \in Licenses}
    /\ entitlements = NotYet
    /\ entitlementsMu = Free
    /\ computed = NotYet
    /\ committer = FALSE
    /\ coordinator = "agpl"
    /\ unable = FALSE
    /\ callback = NoCallback
    /\ calls = {}
    /\ meshed = FALSE
    /\ peer = FALSE
    /\ loop = "new"
    /\ notified = FALSE /\ updates = FALSE
    /\ request = [q \in Requests |-> [at |-> "none", step |-> "idle"]]
    /\ faults = 0 /\ peerChanges = 0

\* The context of a request ends with its response, the one of the loop lasts.
Alive(ctx) == ctx \in Requests => request[ctx].step # "done"

\* Those that may take the mutex next.
Callers ==
    (IF loop \in {"new", "sync"} THEN {[by |-> "loop", ctx |-> "loop"]} ELSE {})
        \cup {[by |-> "request", ctx |-> q] :
                  q \in {q \in Requests : request[q].at = "here" /\ request[q].step = "update"}}
        \cup {[by |-> "callback", ctx |-> c.ctx] : c \in {c \in calls : c.step = "update" /\ Alive(c.ctx)}}

Lock(a) ==
    /\ entitlementsMu = Free /\ a \in Callers
    /\ entitlementsMu' = a
    /\ computed' = Entitlements(table)
    /\ calls' = {c \in calls : a.by = "callback" => c # [step |-> "update", ctx |-> a.ctx]}
    /\ UNCHANGED <<now, table, entitlements, committer, coordinator, unable, callback, meshed, peer, loop,
                   notified, updates, request, faults, peerChanges>>

\* What the caller does next: after a failure New gives up, the loop tries
\* again, and a request answers without publishing.
Unlock(ok) ==
    LET a == entitlementsMu
    IN  /\ entitlementsMu' = Free
        /\ computed' = NotYet
        /\ loop' = CASE a.by # "loop" -> loop
                     [] a.by = "loop" /\ loop = "new" -> IF ok THEN "subscribe" ELSE "failed"
                     [] OTHER -> IF ok THEN "wait" ELSE "sync"
        /\ request' = IF a.by = "request"
                      THEN [request EXCEPT ![a.ctx].step = IF ok THEN "publish" ELSE "done"] ELSE request

\* The database fails.
UpdateFails ==
    /\ entitlementsMu # Free
    /\ faults < MaxFaults /\ faults' = faults + 1
    /\ Unlock(FALSE)
    /\ UNCHANGED <<now, table, entitlements, server, peer, notified, updates, peerChanges>>

featureChangedSince(f) == entitlements.set /\ Enabled(entitlements, f) # Enabled(computed, f)
featureChanged(f) == ~entitlements.set \/ Enabled(entitlements, f) # Enabled(computed, f)

\* A new callback is called at once.
SetCallback(mesh) ==
    LET ctx == entitlementsMu.ctx
    IN  /\ callback' = [mesh |-> mesh, ctx |-> ctx]
        /\ calls' = calls \cup {[step |-> IF mesh THEN "mesh" ELSE "update", ctx |-> ctx]}

\* When the HA coordinator cannot be set up the old one stays in use.
SwapCoordinator ==
    IF Enabled(computed, "ha")
    THEN /\ SetCallback(TRUE)
         /\ UNCHANGED meshed
         /\ \/ /\ coordinator' = "ha"
               /\ unable' = FALSE
               /\ UNCHANGED faults
            \/ /\ faults < MaxFaults /\ faults' = faults + 1
               /\ unable' = TRUE
               /\ UNCHANGED coordinator
    ELSE /\ meshed' = FALSE
         /\ SetCallback(FALSE)
         /\ coordinator' = "agpl"
         /\ unable' = FALSE
         /\ UNCHANGED faults

Store ==
    /\ entitlementsMu # Free
    /\ committer' = IF featureChanged("rbac")
                    THEN Enabled(computed, "rbac") ELSE committer
    /\ IF featureChanged("ha") THEN SwapCoordinator
       ELSE UNCHANGED <<coordinator, unable, callback, calls, meshed, faults>>
    /\ entitlements' = computed
    /\ Unlock(TRUE)
    /\ UNCHANGED <<now, table, peer, notified, updates, peerChanges>>

-----------------------------------------------------------------------------
(* runEntitlementsLoop *)

Subscribe ==
    /\ loop = "subscribe"
    /\ \/ loop' = "sync" /\ UNCHANGED faults
       \/ faults < MaxFaults /\ faults' = faults + 1 /\ UNCHANGED loop
    /\ UNCHANGED <<now, table, entitlements, entitlementsMu, computed, server, peer, notified, updates,
                   request, peerChanges>>

TickIfUpdated ==
    /\ loop = "wait" /\ updates /\ loop' = "sync"
    /\ UNCHANGED <<now, table, entitlements, entitlementsMu, computed, server, peer, notified, updates,
                   request, faults, peerChanges>>

Tick ==
    /\ loop = "wait" /\ loop' = "sync"
    /\ UNCHANGED <<now, table, entitlements, entitlementsMu, computed, server, peer, notified, updates,
                   request, faults, peerChanges>>

GotUpdate ==
    /\ loop = "wait" /\ updates
    /\ loop' = "sync"
    /\ updates' = FALSE
    /\ UNCHANGED <<now, table, entitlements, entitlementsMu, computed, server, peer, notified, request,
                   faults, peerChanges>>

\* The listener never blocks: an event that finds the channel full is dropped.
Notify ==
    /\ notified /\ notified' = FALSE
    /\ updates' = TRUE
    /\ UNCHANGED <<now, table, entitlements, entitlementsMu, computed, server, peer, loop, request, faults,
                   peerChanges>>

\* The listener's connection to the database breaks: what is on its way is lost.
Lost ==
    /\ notified /\ notified' = FALSE
    /\ faults < MaxFaults /\ faults' = faults + 1
    /\ UNCHANGED <<now, table, entitlements, entitlementsMu, computed, server, peer, loop, updates, request,
                   peerChanges>>

-----------------------------------------------------------------------------
(* Callbacks of replica sync *)

\* Each sync of the replicas calls back, whether or not a peer came or went.
SyncReplicas(found) ==
    /\ Cardinality(calls) < MaxCalls
    /\ found # peer => peerChanges < MaxPeerChanges
    /\ peerChanges' = IF found # peer THEN peerChanges + 1 ELSE peerChanges
    /\ peer' = found
    /\ calls' = IF callback = NoCallback THEN calls
                ELSE calls \cup {[step |-> IF callback.mesh THEN "mesh" ELSE "update", ctx |-> callback.ctx]}
    /\ UNCHANGED <<now, table, entitlements, entitlementsMu, computed, committer, coordinator, unable,
                   callback, meshed, loop, notified, updates, request, faults>>

\* The callback reads the addresses, gives them to the mesh and updates.  An
\* update under the context of a request that was answered fails.
CallbackWithoutMesh(c) ==
    /\ c \in calls /\ (c.step = "update" => ~Alive(c.ctx))
    /\ calls' = IF c.step = "mesh" THEN (calls \ {c}) \cup {[c EXCEPT !.step = "update"]} ELSE calls \ {c}
    /\ UNCHANGED <<now, table, entitlements, entitlementsMu, computed, committer, coordinator, unable,
                   callback, meshed, peer, loop, notified, updates, request, faults, peerChanges>>

Callback(c) ==
    /\ c \in calls /\ (c.step = "update" => ~Alive(c.ctx))
    /\ calls' = IF c.step = "mesh" THEN (calls \ {c}) \cup {[c EXCEPT !.step = "update"]} ELSE calls \ {c}
    /\ meshed' = IF c.step = "mesh" THEN peer ELSE meshed
    /\ UNCHANGED <<now, table, entitlements, entitlementsMu, computed, committer, coordinator, unable,
                   callback, peer, loop, notified, updates, request, faults, peerChanges>>

-----------------------------------------------------------------------------
(* postLicense and deleteLicense *)

Begin(q, at) ==
    /\ request[q].step = "idle"
    /\ at = "here" => loop \notin {"new", "failed"}
    /\ request' = [request EXCEPT ![q] = [at |-> at, step |-> "update"]]
    /\ UNCHANGED <<now, entitlements, entitlementsMu, computed, server, peer, loop, notified, updates,
                   faults, peerChanges>>

\* Only a license the replica can parse, and that has not run out.
postLicense(q, at, l) ==
    /\ Begin(q, at)
    /\ at = "here" => ParseClaims(l)
    /\ Exp[l] > now
    /\ \A i \in DOMAIN table : table[i] # l
    /\ table' = Append(table, l)

deleteLicense(q, at, i) ==
    /\ Begin(q, at)
    /\ i \in DOMAIN table
    /\ table' = [j \in 1..(Len(table) - 1) |-> table[IF j < i THEN j ELSE j + 1]]

\* The other replica updates its own entitlements before it publishes.
UpdateElsewhere(q) ==
    /\ request[q].step = "update" /\ request[q].at = "elsewhere"
    /\ \/ request' = [request EXCEPT ![q].step = "publish"] /\ UNCHANGED faults
       \/ /\ faults < MaxFaults /\ faults' = faults + 1
          /\ request' = [request EXCEPT ![q].step = "done"]
    /\ UNCHANGED <<now, table, entitlements, entitlementsMu, computed, server, peer, loop, notified, updates,
                   peerChanges>>

\* A failed publish is only logged.
Publish(q) ==
    /\ request[q].step = "publish"
    /\ request' = [request EXCEPT ![q].step = "done"]
    /\ \/ notified' = (notified \/ loop \in {"sync", "wait"}) /\ UNCHANGED faults
       \/ faults < MaxFaults /\ faults' = faults + 1 /\ UNCHANGED notified
    /\ UNCHANGED <<now, table, entitlements, entitlementsMu, computed, server, peer, loop, updates,
                   peerChanges>>

Pass ==
    /\ now < MaxTime /\ now' = now + 1
    /\ UNCHANGED <<table, entitlements, entitlementsMu, computed, server, peer, loop, notified, updates,
                   request, faults, peerChanges>>

Calls == [step : Steps, ctx : Requests \cup {"loop"}]

Next ==
    \/ \E a \in Callers : Lock(a)
    \/ Store \/ UpdateFails
    \/ Subscribe \/ Tick \/ GotUpdate \/ Notify \/ Lost
    \/ \E found \in BOOLEAN : SyncReplicas(found)
    \/ \E c \in calls : Callback(c)
    \/ \E q \in Requests, at \in {"here", "elsewhere"} :
          \/ \E l \in Licenses : postLicense(q, at, l)
          \/ \E i \in DOMAIN table : deleteLicense(q, at, i)
    \/ \E q \in Requests : UpdateElsewhere(q) \/ Publish(q)
    \/ Pass

\* The loop's timer and replica sync keep running, and a caller in line gets
\* the mutex: a Go mutex is handed to the first in line after a millisecond.
Fairness ==
    /\ WF_vars(Store) /\ WF_vars(Subscribe) /\ WF_vars(Tick)
    /\ SF_vars(Lock([by |-> "loop", ctx |-> "loop"]))
    /\ WF_vars(SyncReplicas(peer))
    /\ \A c \in Calls : WF_vars(Callback(c)) /\ SF_vars(Lock([by |-> "callback", ctx |-> c.ctx]))

Spec == Init /\ [][Next]_vars /\ Fairness

-----------------------------------------------------------------------------

TypeOK ==
    /\ now \in 0..MaxTime /\ table \in Seq(Licenses)
    /\ faults \in 0..MaxFaults /\ peerChanges \in 0..MaxPeerChanges
    /\ calls \subseteq Calls
    /\ loop \in {"new", "failed", "subscribe", "sync", "wait"}
    /\ coordinator \in {"agpl", "ha"}
    /\ {committer, meshed, unable, peer, notified, updates} \subseteq BOOLEAN
    /\ \A q \in Requests : request[q].step \in {"idle", "update", "publish", "done"}

\* What the server uses is what its entitlements say: whenever the mutex is
\* free, the quota committer is installed exactly when its feature is enabled,
\* and the HA coordinator is in use exactly when high availability is enabled,
\* unless it could not be set up (coderd.go, updateEntitlements).
ServerFollows ==
    entitlementsMu = Free =>
        /\ committer = Enabled(entitlements, "rbac")
        /\ (coordinator = "ha") = (Enabled(entitlements, "ha") /\ ~unable)

\* licenses.go: "when an admin uploads a new license with different features
\* we generally don't want the old features to immediately break".  What the
\* replica computes after an upload has every feature it had before.
UploadKeepsFeatures ==
    \A l \in Licenses : \A f \in Features :
        Enabled(Entitlements(table), f) => Enabled(Entitlements(Append(table, l)), f)

\* Whatever notifications are lost, and though time alone expires licenses, a
\* replica that runs ends with the entitlements of the licenses that are left:
\* the loop resyncs (coderd.go, runEntitlementsLoop).
EntitlementsConverge == <>[](loop # "failed" => entitlements = Entitlements(table))

\* With high availability on, the DERP mesh ends with the peer replica sync
\* knows, though the callback's own context may be long over.
MeshFollowsPeers == <>[](callback.mesh => meshed = peer)

\* Does not hold: a callback that was started before the feature went off
\* gives the mesh its addresses again, and nothing takes them back.
MeshOffWithoutHA == <>[](loop # "failed" /\ ~Enabled(entitlements, "ha") => ~meshed)
=============================================================================
