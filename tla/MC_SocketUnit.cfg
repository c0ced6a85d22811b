CONSTANTS
    NPorts = 2
    MaxCommands = 2
    MaxProcs = 3
    Configs <- MCConfigs
SPECIFICATION Spec
INVARIANT TypeOK
INVARIANT FdLifetime
INVARIANT ControlChildTracked
INVARIANT WakeupPending
INVARIANT ControlChildRunning
INVARIANT FailedIffResult
INVARIANT FailureStopsActivation
