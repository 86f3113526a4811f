\* Acknowledgements whose parameters do not fill their last byte.
CONSTANTS
  Nil = Nil
  MaxPGNLength = 12
  LengthBits = 11
  Messages <- MCAcknowledgements
SPECIFICATION Spec
INVARIANT RoundTrips
