\* Any five datagrams with packet sequences up to six.
SPECIFICATION Spec
SYMMETRY Symmetry
CONSTANTS
  Session = {s1, s2}
  NoSession = NoSession
  MaxSequence = 6
  Event = {e1, big}
  TooLarge = {big}
  SlotCount = 2
  MaxPosition = 3
  Position = {1}
  MaxDatagrams = 5
  NoPacket = NoPacket
INVARIANTS
  EverySequenceAccounted
  EveryDatagramAccounted
  DeliveredInOrder
  ReturnLeavesClosed
CHECK_DEADLOCK FALSE
