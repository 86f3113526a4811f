SPECIFICATION Spec
CONSTANTS
  Callers = {a, b}
  Restartable = FALSE
  MaxRuns = 2
  MaxStops = 2
  MaxUpdates = 1
  MaxMessages = 2
  Nil = Nil
SYMMETRY Symmetry
INVARIANTS CountIsExact HandledSerially DoneIsQuiet RunIsHeard NothingLostUncancelled NobodyStuck
CHECK_DEADLOCK FALSE
