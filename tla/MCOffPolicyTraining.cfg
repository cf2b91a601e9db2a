SPECIFICATION Spec
CONSTANTS
    Configs <- MCConfigs
    MaxSteps = 4
    MaxGlobal = 5
INVARIANTS
    BootstrapsStayInEpisode
    TargetLagBounded
    ActorFollowsCritic
    UpdatesFollowPolicySteps
