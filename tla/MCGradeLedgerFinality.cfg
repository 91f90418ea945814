SPECIFICATION MCSpec
CONSTANTS
    RecordIds = {g, r1}
    GenesisId = g
    TxIds = {1, 2, 3, 4, 5, 6}
    Grades = {"1.00", "2.00"}
    Notes = {"fix"}
    Certs <- MCCerts
    Batches <- NoBatches
    Students = {"student", "other"}
PROPERTY FinalizedIsImmutable
CHECK_DEADLOCK FALSE
