SPECIFICATION FairSpec
CONSTANTS
  Nodes = {1, 2, 9, 10}
  TopBit = 8
  LastAddress = 2
  AppAddresses = {1}
  CommandAddresses = {2}
  InfoAddresses = {0, 2}
  Nil = Nil
  Bounds <- MCBounds
INVARIANTS QuietMeansDistinct LowestNameUndisturbed
PROPERTIES NobodyLostNeedlessly Settles
CHECK_DEADLOCK FALSE
