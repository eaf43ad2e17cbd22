SPECIFICATION Spec
CONSTANTS
    Keys = {master, pan}
    Master = master
    Values = {0, 1}
    Retries = 3
    MaxCalls = 3
    MaxWrites = 1
    MaxFaults = 2
INVARIANT SnapshotIsServerState
INVARIANT RecoversLosses
INVARIANT RaiseConfirmed
PROPERTY ReadbackIsOfKey
CHECK_DEADLOCK FALSE
