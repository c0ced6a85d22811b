CONSTANTS
    NPorts = 2
    MaxCommands = 2
    MaxProcs = 2
    Configs <- MCConfigs
SPECIFICATION Spec
PROPERTY LifecycleRefined
