\* One destination is enough for progress; one restart.
SPECIFICATION FairSpec
CONSTANTS
  Event = {e1, bad}
  TooLarge = {}
  Unencodable = {bad}
  SlotCount = 2
  MaxPosition = 3
  r1 = r1
  r2 = r2
  Destination = {r1, r2}
  Destinations <- TwoDestinations
  Session = {s1, s2}
  MaxSequence = 2
  MaxInvalid = 1
  NoPacket = NoPacket
PROPERTY
  RunReturns
CHECK_DEADLOCK FALSE
