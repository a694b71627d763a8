CONSTANTS
    c1 = c1
    c2 = c2
    Clients <- MCOneClient
    PolicyChoices = {"USE_RESOLVABLE_ADDRESS"}
    MaxRegistrations = 1
    MaxUnregistrations = 0
    MaxFilterUpdates = 1
    MaxAlarmFires = 1
    LateRegistration = FALSE
    EarlyRegistration = FALSE
    MaxTestPolicies = 0
    ReplacePolicy = FALSE
SPECIFICATION Spec
INVARIANT AtMostOneCommandInFlight
CHECK_DEADLOCK FALSE
