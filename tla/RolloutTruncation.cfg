SPECIFICATION Spec
CONSTANTS
    Configs <- PPOOnly
    MaxRollouts = 2
    MaxTotal = 3
INVARIANTS
    ReturnsStayInEpisode
