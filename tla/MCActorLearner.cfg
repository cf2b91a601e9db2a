SPECIFICATION Spec
CONSTANTS
  Configs <- MCConfigs
  DefaultSteps = 1
INVARIANTS
  SnapshotsAreWhole
  RolloutsAreUnbroken
PROPERTIES
  ActorsStop
  TrainEnds
