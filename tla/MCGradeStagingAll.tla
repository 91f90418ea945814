-------------------------- MODULE MCGradeStagingAll --------------------------
(* The workflow of MCGradeStaging under a constraint that splits the work:     *)
(* faults happen while one handler runs at a time, and two handlers run at     *)
(* once where the bound on faults is used up, until a correction is logged.    *)
(* At most two are logged.                                                     *)
EXTENDS MCGradeStaging, FiniteSets

FaultsOrCompany ==
    \/ faults = MaxFaults /\ late = {} /\ log = {}
    \/ Cardinality(log) <= 2 /\ Cardinality({q \in Requests : requests[q] # Idle}) <= 1
=============================================================================
