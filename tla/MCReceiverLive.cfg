\* Datagrams without end, with packet sequences up to three; the counters
\* start over after three.
SPECIFICATION FairSpec
CONSTANTS
  Session = {s1, s2}
  NoSession = NoSession
  MaxSequence = 3
  Event = {e1, big}
  TooLarge = {big}
  SlotCount = 2
  MaxPosition = 3
  Position = {1}
  MaxDatagrams = 3
  NoPacket = NoPacket
PROPERTIES
  StopReturns
  ConsumerReleased
CHECK_DEADLOCK FALSE
