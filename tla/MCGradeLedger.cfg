SPECIFICATION MCSpec
CONSTANTS
    RecordIds = {g, r1}
    GenesisId = g
    TxIds = {1, 2, 3, 4, 5}
    Grades = {"1.00", "2.00"}
    Notes = {"fix"}
    Certs <- MCCerts
    Batches <- MCBatches
    Students = {"student", "other"}
INVARIANTS
    TypeOK
    FinalGradesWereApproved
    HistoryIsLegal
    StudentSeesALegalPath
CHECK_DEADLOCK FALSE
