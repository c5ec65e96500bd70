SPECIFICATION DeploymentSpec
CONSTANTS
    Networks <- MCNetworks
    Configs <- MCConfigs
    Starts <- MCStarts
    OpenTags <- MCTags
    Remotes <- MCRemotes
    MaxRuns = 2
CHECK_DEADLOCK FALSE
INVARIANTS
    DeploymentInv
PROPERTIES
    RerunsStopEarly
    FreshRunCompletes
