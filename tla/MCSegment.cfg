\* Two processes compete for one name, with two handles each.
SPECIFICATION Spec
SYMMETRY Symmetry
CONSTANTS
  Process = {p1, p2}
  Name = {shm}
  Slot = {h1, h2}
  Descriptor = {d1, d2}
  Address = {a1, a2}
  MaxObjects = 2
  None = None
INVARIANTS
  TypeOK
  RemovesOnlyItsOwn
  EveryNameHasAnOwner
  ResourcesHeldOnce
