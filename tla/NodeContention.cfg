SPECIFICATION Spec
CONSTANTS
  LastAddress = 2
  Names = {1, 10, 11}
  Kinds = {"ProductInfo"}
  Values = {v}
  EmptyList = none
  ClaimSources = {0, 1, 2}
  InfoSources = {0, 2}
  Nil = Nil
  TopBit = 8
  DefaultAddress = 0
  OwnNames = {10}
  AppAddresses = {1}
  CommandAddresses = {0}
  QueueSize = 2
  SeqModulus = 2
  Stoppers = {}
  WriteMayFail = FALSE
  MaxClaimCalls = 1
  MaxConfigCalls = 0
  MaxStarts = 1
  MaxMessages = 3
INVARIANTS TypeOK ClaimedIsAnnounced WritesFromWonAddress
CHECK_DEADLOCK FALSE
