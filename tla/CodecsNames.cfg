\* The claims of every accepted identity at the ends of its ranges.
CONSTANTS
  Nil = Nil
  MaxPGNLength = 12
  LengthBits = 11
  Messages <- MCIdentities
SPECIFICATION Spec
INVARIANT ClaimCarriesName
