CONSTANTS
    NPorts = 2
    MaxCommands = 2
    MaxProcs = 2
    Configs <- MCReexecConfigs
    MaxReexecs = 2
    ColdplugCanFail = FALSE
    StrayFds = FALSE
SPECIFICATION ReexecFairSpec
PROPERTY ReexecKeepsControlChild
PROPERTY FailureLatched
PROPERTY DeactivationTerminates
