SPECIFICATION MCSpec
CONSTANTS
    Ops = {o1, o2, o3, o4}
    NoOp = NoOp
    c1 = c1
    c2 = c2
    s1 = s1
    s2 = s2
    Ids = {1, 2}
    Students = {1, 2}
    Sections = {s1, s2}
    Unassigned = unassigned
    NotEnrolled = notEnrolled
    Txs = {t1, t2}
INVARIANTS
    ContractTypeOK
    Serialized
    RunsInCallOrder
    TxTypeOK
    StaleRosterMovesNobody
    CirclesNeedPromotions
PROPERTIES
    EveryCallAnswered
    RefusalsEnd
    ImplementsEnrollments
    RequestsEnd
CHECK_DEADLOCK FALSE
