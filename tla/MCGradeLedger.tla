--------------------------- MODULE MCGradeLedger ---------------------------
(* A small ledger for TLC: a chairperson, who may do all a professor may, a   *)
(* registrar, a student, and a registrar's role in the wrong organisation;    *)
(* one record besides the genesis record.                                     *)
EXTENDS GradeLedger

Chair     == [cn |-> "chair", msp |-> "DepartmentMSP", role |-> "department_admin"]
Registrar == [cn |-> "registrar", msp |-> "RegistrarMSP", role |-> "registrar"]
Student   == [cn |-> "student", msp |-> "RegistrarMSP", role |-> "student"]
Misplaced == [cn |-> "misplaced", msp |-> "FacultyMSP", role |-> "registrar"]

MCCerts == {Chair, Registrar, Student, Misplaced}

Item(id, g, v) == [id |-> id, student |-> "student", grade |-> g, version |-> v]
NewIds == RecordIds \ {GenesisId}
NoBatches == {}
MCBatches ==
    {<<>>} \cup {<<Item(a, "1.00", 0), Item(b, g, 3)>> :
                    a \in RecordIds \cup {NoId}, b \in NewIds, g \in {"2.00", NoGrade}}

\* Transaction ids are interchangeable: handing them out in order loses no behaviour
\* but for the names of the ids.
MCNext == \E t \in TxIds : (\A u \in TxIds \ used : t <= u) /\ Transaction(t)
MCSpec == Init /\ [][MCNext]_vars
=============================================================================
