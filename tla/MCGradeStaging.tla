--------------------------- MODULE MCGradeStaging ---------------------------
(* A small grade workflow for TLC: one professor, one chairperson, one        *)
(* registrar, one entry of one student, and up to two handlers at once.       *)
EXTENDS GradeStaging, TLC

MCProfessor == [cn |-> "prof", msp |-> "FacultyMSP", role |-> "faculty"]
MCChair     == [cn |-> "chair", msp |-> "DepartmentMSP", role |-> "department_admin"]
MCRegistrar == [cn |-> "registrar", msp |-> "RegistrarMSP", role |-> "registrar"]
MCCerts     == {MCProfessor, MCChair, MCRegistrar}

MCStudentOf == [id \in RecordIds |-> "student"]
NoBatches   == {}

\* Handlers are interchangeable.
Symmetry == Permutations(Requests)
=============================================================================
