SPECIFICATION Spec
CONSTANTS
    RecordIds = {g, r1}
    GenesisId = g
    TxIds = {t}
    Grades = {"1.00", "2.00"}
    Notes = {"fix"}
    Certs <- MCCerts
    Batches <- NoBatches
    Students = {"student"}
    StudentOf <- MCStudentOf
    Professor <- MCProfessor
    Chair <- MCChair
    Registrar <- MCRegistrar
    Slots = {s1}
    Requests = {q1, q2}
    Reasons = {"fix"}
    Suspect = {r1}
    MaxVersion = 4
    MaxFaults = 1
INVARIANTS
    TypeOK
    NothingVanishes
    LedgerGradesWereForwarded
    LoggedCorrectionsHappened
CONSTRAINT FaultsOrCompany
SYMMETRY Symmetry
CHECK_DEADLOCK FALSE
