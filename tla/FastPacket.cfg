SPECIFICATION Spec
CONSTANTS
  Streams = {p, q}
  Lengths = {6, 13, 14}
  Writers = {w}
  SeqModulus = 2
  MaxFrameNum = 2
  WireSize = 3
  MaxMessages = 4
  MaxFaults = 2
  Nil = Nil
INVARIANTS DeliveredIsSent IntactIsDelivered
CHECK_DEADLOCK FALSE
