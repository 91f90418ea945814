SPECIFICATION MCSpec
CONSTANTS
    Ids = {1, 2}
    Students = {1, 2}
    Sections = {1, 2}
    Unassigned = unassigned
    NotEnrolled = notEnrolled
    Off = off
    FinalYear = FALSE
    Browsers = {a1, a2}
    Files <- MCFiles
    MaxActs = 2
    MaxMessages = 1
    Users = {"ana", "sys"}
    ReadIdentity = "sys"
    Actors <- TwoRoles
    Calls = {a1, a2}
    Routes = {"own", "all"}
    Gateways = {1, 2}
    MaxUsers = 1
    MaxCert = 2
    ConnectionFaults = TRUE
    Pupils = {"eve", "flo"}
    Marks = {"1.00"}
    Loads = {a1, a2}
    Jobs = {a1, a2}
    MaxEncodingActs = 3
    MaxEncodingChanges = 3
    Class = {a1, a2}
    MaxReviewSaves = 3
    Partners = {"ben", "cy"}
    MaxChatMessages = 2
    MaxChatClicks = 2
    MaxChatBreaks = 2
    UserIds = {1, 2, 3}
    Emails = {"ann", "bo"}
    Desks = {a1, a2}
    MaximumRegistrarAccounts = 1
    MaxRequests = 4
INVARIANTS
    GatewayTypeOK
    CachedAreConnected
    ContractFitsRole
    RemovedGetsNothing
    CacheWithinCapacity
    PagesTypeOK
    SavedWasTrue
    SuccessPlacesEveryone
    PromotedTogether
    LoadsRepair
    CommitIsTrue
    NothingMissed
    RegistrarsWithinLimit
    WalletsFollowAccounts
PROPERTIES
    SubmittedAsSent
    NoGatewayLeaks
SYMMETRY Symmetry
CHECK_DEADLOCK FALSE
