SPECIFICATION Spec
CONSTANTS
  LastAddress = 1
  Names = {0, 1, 2}
  Kinds = {"TransmitPGNs"}
  Values = {v, none}
  EmptyList = none
  ClaimSources = {0, 1}
  InfoSources = {0, 1}
  Followers = {f, g}
  Nil = Nil
INVARIANTS FollowerInSync RegistryInv OneDevicePerAddress IndexedIsPlaced RetryAddressIsFree
PROPERTY ImplementsDirectory
SYMMETRY Symmetry
