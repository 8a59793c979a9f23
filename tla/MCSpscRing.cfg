\* Safety and refinement: three laps of a two-slot ring.
SPECIFICATION Spec
SYMMETRY Symmetry
CONSTANTS
  SlotCount = 2
  MaxPosition = 6
  Event = {e1, e2, big}
  TooLarge = {big}
  NoEvent = NoEvent
INVARIANTS
  TypeOK
  NoDataRace
  HeldViewIntact
  ExactlyOnceInOrder
  ClosedMeansDrained
  NoFalseCorruption
  WithinCapacity
PROPERTY
  ImplementsQueue
