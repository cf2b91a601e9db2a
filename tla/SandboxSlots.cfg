CONSTANTS
  r1 = r1
  r2 = r2
  v1 = v1
  Rollouts = {r1, r2}
  Verifies = {v1}
  Permits = 2
  GroupSize = 2
  NTasks = 1
  AdversarialTasks = {1}
  AdversarialVerifies = {v1}
  BadTimeouts = {}
  Exits = {"Clean"}
SPECIFICATION SpecConnected
PROPERTIES SlotReturnsAfterExit
CHECK_DEADLOCK FALSE
