SPECIFICATION EncodingSpec
CONSTANTS
    Pupils = {s1, s2}
    Marks = {m}
    Loads = {l1, l2}
    Jobs = {l1, l2}
    MaxEncodingActs = 4
    MaxEncodingChanges = 3
PROPERTY SubmittedAreGraded
CHECK_DEADLOCK FALSE
