SPECIFICATION FairSpec
CONSTANTS
    RecordIds = {g, r1}
    GenesisId = g
    TxIds = {t}
    Grades = {"1.00"}
    Notes = {"fix"}
    Certs <- MCCerts
    Batches <- NoBatches
    Students = {"student"}
    StudentOf <- MCStudentOf
    Professor <- MCProfessor
    Chair <- MCChair
    Registrar <- MCRegistrar
    Slots = {s1}
    Requests = {q1, q2}
    Reasons = {}
    Suspect = {}
    MaxVersion = 4
    MaxFaults = 2
PROPERTY RetryFinishes
CHECK_DEADLOCK FALSE
