\* Safety and liveness of receive() over a queue of two datagrams.
SPECIFICATION FairUdpSpec
CONSTANTS
  BufferBytes = 2
  DatagramBytes = {0, 2, 3}
  QueueLength = 2
  MaxArrivals = 4
INVARIANTS
  WholeAndInOrder
PROPERTY
  TimedCallReturns
