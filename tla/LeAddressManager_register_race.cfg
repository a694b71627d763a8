CONSTANTS
    c1 = c1
    c2 = c2
    Clients <- MCClients
    PolicyChoices = {"USE_RESOLVABLE_ADDRESS"}
    MaxRegistrations = 2
    MaxUnregistrations = 0
    MaxFilterUpdates = 0
    MaxAlarmFires = 0
    LateRegistration = TRUE
    EarlyRegistration = FALSE
    MaxTestPolicies = 0
    ReplacePolicy = FALSE
SYMMETRY MCSymmetry
SPECIFICATION Spec
INVARIANT ClientsQuiescentDuringCommand
CHECK_DEADLOCK FALSE
