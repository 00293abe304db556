--------------------------- MODULE BuildHistory ---------------------------
(***************************************************************************)
(* What coderd promises about the builds of a workspace: a history that    *)
(* only grows, in which a build is added when all earlier ones are over,   *)
(* and in which every build goes from waiting to running to over.          *)
(***************************************************************************)
EXTENDS Naturals, Sequences

CONSTANT Workspaces
VARIABLE history    \* history[w]: the phase of each build, in build_number order

Phases == {"waiting", "running", "over"}

HistoryInit == history = [w \in Workspaces |-> <<>>]

Add(w) ==
    /\ \A i \in 1 .. Len(history[w]) : history[w][i] = "over"
    /\ history' = [history EXCEPT ![w] = Append(@, "waiting")]

Begin(w, i) ==
    /\ history[w][i] = "waiting"
    /\ history' = [history EXCEPT ![w][i] = "running"]

End(w, i) ==
    /\ history[w][i] # "over"
    /\ history' = [history EXCEPT ![w][i] = "over"]

HistoryNext ==
    \E w \in Workspaces :
        \/ Add(w)
        \/ \E i \in 1 .. Len(history[w]) : Begin(w, i) \/ End(w, i)

HistorySpec == HistoryInit /\ [][HistoryNext]_history
============================================================================
