CONSTANTS
    NPorts = 2
    MaxCommands = 2
    MaxProcs = 2
    Configs <- MCProcessConfigs
    MaxReexecs = 1
    ColdplugCanFail = FALSE
    StrayFds = TRUE
SPECIFICATION ReexecSpec
PROPERTY LifecycleRefined
