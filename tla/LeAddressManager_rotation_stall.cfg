CONSTANTS
    c1 = c1
    c2 = c2
    Clients <- MCOneClient
    PolicyChoices = {"USE_RESOLVABLE_ADDRESS"}
    MaxRegistrations = 1
    MaxUnregistrations = 0
    MaxFilterUpdates = 0
    MaxAlarmFires = 2
    LateRegistration = FALSE
    EarlyRegistration = FALSE
    MaxTestPolicies = 0
    ReplacePolicy = FALSE
SYMMETRY MCSymmetry
SPECIFICATION FairSpec
PROPERTY CachedCommandsDrain
CHECK_DEADLOCK FALSE
