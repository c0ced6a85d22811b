CONSTANTS
    NPorts = 2
    MaxCommands = 2
    MaxProcs = 3
    Configs <- MCConfigs
SPECIFICATION Spec
PROPERTY ResultFirstFailureWins
