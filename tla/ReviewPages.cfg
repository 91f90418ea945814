SPECIFICATION ReviewSpec
CONSTANTS
    Class = {s1, s2}
    MaxReviewSaves = 3
INVARIANT ForwardedSectionsAreWhole
CHECK_DEADLOCK FALSE
