SPECIFICATION Spec
CONSTANTS
    Configs <- MCConfigs
    MaxSteps = 4
    MaxGlobal = 6
INVARIANTS
    NetworksInPace
    WindowsAreTheEpisodes
    ReturnsAreTheEpisodes
CHECK_DEADLOCK FALSE
