\* Encode, alter and decode: one byte overwritten and one change of length.
SPECIFICATION Spec
CONSTANTS
  Nibble = 3
  kMagic = 7
  kVersion = 1
  Data = 1
  kMaxSingleEventPayloadBytes = 6
  Message <- Messages
  OutputBytes = {47, 48}
  AlteredByte = {0, 1, 2, 8}
  AlteredLength = {0, 7, 8, 36, 40, 43, 44, 45, 46, 48, 49}
INVARIANTS
  RoundTrip
  AcceptedIsCanonical
