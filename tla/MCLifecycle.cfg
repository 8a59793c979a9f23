\* Startup, moves and destruction of up to three engines on one host.
SPECIFICATION Spec
SYMMETRY Symmetry
CONSTANTS
  Slot = {s1, s2, s3}
  Name = {n1}
  Port = {p1}
  Socket = {f1, f2}
  MaxObjects = 2
  None = None
INVARIANTS
  SocketsHeldOnce
  NamesHaveTheirOwner
  RingFollowsReceiver
  StopSurvivesMove
