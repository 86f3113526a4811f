SPECIFICATION FairSpec
CONSTANTS
  LastAddress = 1
  Names = {1}
  Kinds = {"ConfigInfo"}
  Values = {v}
  EmptyList = none
  ClaimSources = {0}
  InfoSources = {0}
  Nil = Nil
  TopBit = 8
  DefaultAddress = 0
  OwnNames = {10}
  AppAddresses = {0, 3}
  CommandAddresses = {1}
  QueueSize = 1
  SeqModulus = 2
  Stoppers = {s}
  WriteMayFail = TRUE
  MaxClaimCalls = 2
  MaxConfigCalls = 1
  MaxStarts = 2
  MaxMessages = 1
INVARIANTS NoAddressNoWrites StoppedMeansExited
PROPERTIES ClaimResolves StopReturns
CHECK_DEADLOCK FALSE
