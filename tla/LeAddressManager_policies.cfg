CONSTANTS
    c1 = c1
    c2 = c2
    Clients <- MCClients
    PolicyChoices = {"USE_RESOLVABLE_ADDRESS", "USE_STATIC_ADDRESS", "USE_PUBLIC_ADDRESS"}
    MaxRegistrations = 2
    MaxUnregistrations = 1
    MaxFilterUpdates = 1
    MaxAlarmFires = 1
    LateRegistration = TRUE
    EarlyRegistration = TRUE
    MaxTestPolicies = 1
    ReplacePolicy = FALSE
SYMMETRY MCSymmetry
SPECIFICATION Spec
INVARIANT RotationScheduled
CHECK_DEADLOCK FALSE
