SPECIFICATION WorkerSpec
INVARIANTS ProgramConfined NothingLeftBehind ResultTellsWhatRan
PROPERTIES RunEnds
CHECK_DEADLOCK FALSE
