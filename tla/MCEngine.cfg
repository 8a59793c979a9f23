\* Three events, one sender restart, three deliveries; corrupt slots are left
\* to the run of the sender alone.
SPECIFICATION Spec
SYMMETRY Symmetry
CONSTANTS
  Event = {e1, e2}
  SlotCount = 2
  MaxPosition = 3
  IngressTooLarge = {}
  EgressTooLarge = {}
  Unencodable = {}
  here = here
  Destination = {here}
  Destinations <- HereFirst
  Session = {s1, s2}
  MaxSequence = 2
  MaxInvalid = 0
  NoPacket = NoPacket
  NoSession = NoSession
  MaxDatagrams = 3
  Here = here
INVARIANTS
  EndToEndInOrder
  MissedWereSent
PROPERTY
  ImplementsStream
CHECK_DEADLOCK FALSE
