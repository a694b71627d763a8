CONSTANTS
    d1 = d1
    d2 = d2
    Devices <- MCDevices
    LeDevices <- MCLeDevices
    ResultKinds = {"STD", "RSSI", "EIR"}
    MaxInquiries = 2
    MaxObserves = 2
    ZeroDuration = FALSE
    MaxResults = 3
SPECIFICATION FairSpec
 
INVARIANT ObserveCompletedAtMostOnce
PROPERTY ObserveWithTimeoutCompletes
PROPERTY ScanningStops
CHECK_DEADLOCK FALSE
