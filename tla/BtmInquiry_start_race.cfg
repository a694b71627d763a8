CONSTANTS
    d1 = d1
    d2 = d2
    Devices <- MCDevices
    LeDevices <- MCNoLeDevices
    ResultKinds = {"STD"}
    MaxInquiries = 1
    MaxObserves = 0
    ZeroDuration = TRUE
    MaxResults = 0
SPECIFICATION Spec
INVARIANT InquiryActiveOnlyWhileRunning
CHECK_DEADLOCK FALSE
