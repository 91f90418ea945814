SPECIFICATION MCSpec
CONSTANTS
    RecordIds = {g, r1}
    GenesisId = g
    TxIds = {1, 2, 3, 4}
    Grades = {"1.00"}
    Notes = {"fix"}
    Certs <- MCCerts
    Batches <- MCBatches
    Students = {"student"}
INVARIANTS
    FabricTypeOK
    NoLostUpdate
PROPERTIES
    ImplementsGradeLedger
    ResetIsComplete
    BatchIsAllOrNothing
CHECK_DEADLOCK FALSE
