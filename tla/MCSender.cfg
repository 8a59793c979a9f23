\* Three events, two of which fill the ring, two destinations, one restart.
SPECIFICATION Spec
SYMMETRY Symmetry
CONSTANTS
  Event = {e1, e2, bad}
  TooLarge = {}
  Unencodable = {bad}
  SlotCount = 2
  MaxPosition = 3
  r1 = r1
  r2 = r2
  Destination = {r1, r2}
  Destinations <- TwoDestinations
  Session = {s1, s2}
  MaxSequence = 2
  MaxInvalid = 1
  NoPacket = NoPacket
INVARIANTS
  Accounting
  OneSequencePerEvent
  ReturnsClean
CHECK_DEADLOCK FALSE
