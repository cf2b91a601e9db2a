CONSTANTS
  NSteps = 2
  Capacity = 2
  MaxSyncs = 2
SPECIFICATION Spec
INVARIANTS WholeRollouts StoppedMeansEnded StalenessBounded
PROPERTIES RefinesChannel RecvServed
\* The system may stop for good: recv waits forever on a collector that has
\* ended, and a dropped collector does nothing more.
CHECK_DEADLOCK FALSE
