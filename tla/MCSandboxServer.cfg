CONSTANTS
  r1 = r1
  r2 = r2
  v1 = v1
  Rollouts = {r1, r2}
  Verifies = {v1}
  Permits = 3
  GroupSize = 2
  NTasks = 2
  AdversarialTasks = {2}
  AdversarialVerifies = {v1}
  BadTimeouts = {r2}
  Exits = {"Clean", "Timeout"}
SPECIFICATION Spec
INVARIANTS SlotsAccounted ResultsInOrder TelemetryAddsUp
PROPERTIES RequestsEnd
\* The server is idle for good once every request has ended.
CHECK_DEADLOCK FALSE
