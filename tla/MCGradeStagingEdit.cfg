SPECIFICATION Spec
CONSTANTS
    RecordIds = {g, r1}
    GenesisId = g
    TxIds = {t}
    Grades = {"1.00", "2.00"}
    Notes = {"fix"}
    Certs <- MCCerts
    Batches <- NoBatches
    Students = {"student"}
    StudentOf <- MCStudentOf
    Professor <- MCProfessor
    Chair <- MCChair
    Registrar <- MCRegistrar
    Slots = {s1}
    Requests = {q1}
    Reasons = {"fix"}
    Suspect = {}
    MaxVersion = 4
    MaxFaults = 0
PROPERTY ApprovedGradesStay
CHECK_DEADLOCK FALSE
