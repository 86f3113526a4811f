SPECIFICATION Spec
CONSTANTS
  HighFrames = {h1, h2}
  LowFrames = {l1, l2}
  QueueSize = 1
  MaxRuns = 2
  Closers = {c}
  Nil = Nil
SYMMETRY Symmetry
INVARIANTS OneWriterUntilClosed OnePlace HighInOrder CloseEndsAll
CHECK_DEADLOCK FALSE
