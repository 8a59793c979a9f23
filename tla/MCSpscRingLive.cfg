\* Liveness: two laps of a two-slot ring, no symmetry.
SPECIFICATION FairSpec
CONSTANTS
  SlotCount = 2
  MaxPosition = 4
  Event = {e1, big}
  TooLarge = {big}
  NoEvent = NoEvent
PROPERTIES
  DrainedAfterClose
  FullIsTransient
