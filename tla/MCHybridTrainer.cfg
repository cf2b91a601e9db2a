CONSTANTS
  NSteps = 2
  Capacity = 2
  MaxSyncs = 3
  MaxUpdates = 3
SPECIFICATION TrainerSpec
INVARIANTS NoBatchFromEarlierUpdates
PROPERTIES TrainEnds
\* The trainer stops for good when recv waits on a collector that has ended,
\* and when train has returned for the last time.
CHECK_DEADLOCK FALSE
