\* Construction, attachment to fresh and unknown segments, and moves.  A
\* 32-bit value stops at 191, a size at 1023: 16 slots of 64 bytes and 8 of
\* 128 overflow a size, a capacity of 161 a stride (704 bytes would hold two).
SPECIFICATION Spec
CONSTANTS
  HeaderBytes = 192
  SlotMetadataBytes = 32
  CacheLineBytes = 64
  MaxU32 = 191
  MaxSize = 1023
  SlotCounts = {0, 1, 2, 3, 4, 8, 16}
  Capacities = {0, 32, 33, 161}
  Strides = {0, 64, 128}
  Sizes = {0, 191, 192, 320, 448, 704}
  CreatorObject = {c1, c2}
  AttacherObject = {a1, a2}
  MaxEvents = 3
INVARIANTS
  AttachAfterSetup
  SlotsInsideMapping
  GoodRingAccepted
  RightsMovedNotCopied
PROPERTY
  HeaderStable
