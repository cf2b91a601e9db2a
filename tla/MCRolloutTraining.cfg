SPECIFICATION Spec
CONSTANTS
    Configs <- MCConfigs
    MaxRollouts = 2
    MaxTotal = 3
INVARIANTS
    ReturnsReachTheirHorizon
    ReplayedMemoryIsTheEpisode
    BaselineIsTrained
    NormalizerFollowsTraining
    CheckpointsNeverOverdue
