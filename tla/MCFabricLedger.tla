--------------------------- MODULE MCFabricLedger ---------------------------
(* Concurrent transactions for TLC: every interleaving of the simulation and *)
(* the ordering of four transactions of a chairperson, who may issue, return, *)
(* correct and approve, and the registrar, who may do all but issue.         *)
EXTENDS FabricLedger

Chair     == [cn |-> "chair", msp |-> "DepartmentMSP", role |-> "department_admin"]
Registrar == [cn |-> "registrar", msp |-> "RegistrarMSP", role |-> "registrar"]
MCCerts   == {Chair, Registrar}

Item(id) == [id |-> id, student |-> "student", grade |-> "1.00", version |-> 0]
MCBatches == {<<Item(a), Item(b)>> : a, b \in RecordIds}

\* Ids are interchangeable: proposals take them in order.
MCNext ==
    \E t \in TxIds :
        /\ \A u \in TxIds : u < t => inflight[u] # Idle \/ u \in used
        /\ Peers(t)
MCSpec == FabricInit /\ [][MCNext]_fabricVars
=============================================================================
