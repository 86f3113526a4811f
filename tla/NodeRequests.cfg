SPECIFICATION SpecRequests
CONSTANTS
  LastAddress = 1
  Names = {1}
  Kinds = {}
  Values = {}
  EmptyList = none
  ClaimSources = {0}
  InfoSources = {}
  Nil = Nil
  TopBit = 8
  DefaultAddress = 0
  OwnNames = {10}
  AppAddresses = {0, 3}
  CommandAddresses = {}
  QueueSize = 1
  SeqModulus = 2
  Stoppers = {s}
  WriteMayFail = TRUE
  MaxClaimCalls = 2
  MaxConfigCalls = 0
  MaxStarts = 1
  MaxMessages = 2
  u = u
  w = w
  Requests <- MCRequests
  ConfigValues = {u, w}
  InitialValues = {u}
  LongValues = {w}
  BadValue = bad
  TransmitPGNs <- MCTransmit
  ReceivePGNs <- MCReceive
  ProviderMayFail = TRUE
  MaxEdits = 1
  MaxRequests = 1
INVARIANTS AnswersComeFromAsked AnswersFromWonAddress RepliesTellTheTruth AnswersAreAdvertised WritesAreWhole
CHECK_DEADLOCK FALSE
