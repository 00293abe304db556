------------------------ MODULE MCProvisionerJobs ------------------------
(* Instances of ProvisionerJobs for TLC. *)
EXTENDS ProvisionerJobs, TLC

CONSTANTS j1, j2, d1, d2, c1, c2, c3, r1, docker, gpu, arm

\* j1 builds a workspace, j2 (an import) asks for a tag only one daemon offers.
MCJobTags == [j \in Jobs |-> IF j = j1 THEN {docker} ELSE {docker, gpu}]
MCDaemonTags == [d \in Daemons |-> IF d = d1 THEN {docker, gpu, arm} ELSE {docker}]

\* The faults of an instance: once each of the kinds in one of the sets.
CONSTANT FaultKinds
MCFaultBudgets == {[f \in Faults |-> IF f \in kinds THEN 1 ELSE 0] : kinds \in FaultKinds}

ConnSymmetry == Permutations(Conns)
==========================================================================
