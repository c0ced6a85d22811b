CONSTANTS
    NPorts = 2
    MaxCommands = 2
    MaxProcs = 2
    Configs <- MCReexecConfigs
    MaxReexecs = 1
    ColdplugCanFail = FALSE
    StrayFds = FALSE
SPECIFICATION ReexecSpec
INVARIANT CursorTracksChild
