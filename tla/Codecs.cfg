\* Every message once, from Write to the receiving node's subscribers.
CONSTANTS
  Nil = Nil
  MaxPGNLength = 12
  LengthBits = 11
  Messages <- MCMessages
SPECIFICATION Spec
INVARIANTS
  ReadBackIsWritten
  NothingInvented
  NamesAgree
  FittingIsSent
