-------------------------------- MODULE Codec --------------------------------
(***************************************************************************)
(* The LLEP v1 codec: encode_data() into the sender's reused packet buffer *)
(* (src/protocol/encoder.cpp), decode_data() of whatever datagram arrives  *)
(* (src/protocol/decoder.cpp), byte by byte.  A byte has Nibble * Nibble   *)
(* values: 16 * 16 in the code, fewer for TLC, whose integers are short.   *)
(***************************************************************************)
EXTENDS Alignment, Sequences

CONSTANTS
  Nibble,        \* values of half a byte
  kMagic, kVersion, Data,        \* the first byte, and the halves of the second
  kMaxSingleEventPayloadBytes,
  Message,       \* the arguments encode_data() is called with
  OutputBytes,   \* sizes of the output buffer offered
  AlteredByte, AlteredLength     \* what the network may turn a datagram into

\* Numbers of values of a byte and of two and four bytes.
Base == Nibble * Nibble
U16 == Base * Base
U32 == U16 * U16
Byte == 0..Base - 1

kCommonHeaderBytes == 8
kDataFixedBytes == 36
kEventFrameHeaderBytes == 6
kEventFrameAlignmentBytes == 4
kMinDataPacketBytes == 44
payload_offset == kDataFixedBytes + kEventFrameHeaderBytes
kMaxPacketBytes == payload_offset + kMaxSingleEventPayloadBytes

\* The arguments of encode_data(), in the widths of their types.
MessageType ==
  [session_id : 0..U32 - 1, packet_sequence : 0..U32 * U32 - 1,
   sequence : 0..U32 * U32 - 1, source_timestamp_ns : 0..U32 * U32 - 1,
   stream_id : 0..U32 - 1, payload : Seq(Byte)]

ASSUME CodecAssumption ==
  /\ Nibble \in Nat /\ Nibble > 2
  /\ kMaxSingleEventPayloadBytes \in Nat
  /\ kMagic \in Byte /\ kVersion \in 0..Nibble - 1 /\ Data \in 0..Nibble - 1
  /\ kMaxPacketBytes % kEventFrameAlignmentBytes = 0
  /\ kMaxPacketBytes < U16
  /\ Message \subseteq MessageType /\ OutputBytes \subseteq 0..kMaxPacketBytes
  /\ AlteredByte \subseteq Byte /\ AlteredLength \subseteq Nat

VARIABLES
  output,     \* the sender's packet buffer, reused for every event
  sent,       \* the message encoded last
  datagram,   \* its packet, or <<>> after an error
  received,   \* the datagram decoded last
  result,     \* of the last call: "Ok" or the error
  decoded     \* the fields of the last view decode_data() returned

vars == <<output, sent, datagram, received, result, decoded>>

-----------------------------------------------------------------------------
\* Little-endian: the low half first, each half cut to its width.
write_u16(value) == <<value % Base, (value \div Base) % Base>>
write_u32(value) == write_u16(value % U16) \o write_u16((value \div U16) % U16)
write_u64(value) == write_u32(value % U32) \o write_u32((value \div U32) % U32)

read_u16(p, offset) == p[offset + 1] + p[offset + 2] * Base
read_u32(p, offset) == read_u16(p, offset) + read_u16(p, offset + 2) * U16
read_u64(p, offset) == read_u32(p, offset) + read_u32(p, offset + 4) * U32

FrameBytes(payloadSize) ==
  AlignUp(kEventFrameHeaderBytes + payloadSize, kEventFrameAlignmentBytes)
PacketBytes(payloadSize) == kDataFixedBytes + FrameBytes(payloadSize)

\* Fault: what the buffer held before is sent as padding.
PaddingFrom(buffer, first, last) == SubSeq(buffer, first, last)

\* The bytes after the payload are overwritten with zeros.
Padding(buffer, first, last) == [k \in 1..last - first + 1 |-> 0]

\* The packet that encode_data() leaves at the front of a buffer.
EncodedPacket(m, buffer) ==
  LET length == Len(m.payload)
      size == PacketBytes(length)
  IN  <<kMagic, kVersion * Nibble + Data>>
        \o write_u16(size) \o write_u32(m.session_id) \o write_u64(m.packet_sequence)
        \o write_u64(m.sequence) \o write_u64(m.source_timestamp_ns)
        \o write_u32(m.stream_id) \o write_u32(0) \o write_u16(length) \o m.payload
        \o Padding(buffer, payload_offset + length + 1, size)

EncodeError(m, outputBytes) ==
  IF m.session_id = 0 THEN "InvalidSessionId"
  ELSE IF m.packet_sequence = 0 THEN "InvalidPacketSequence"
  ELSE IF m.sequence = 0 THEN "InvalidEventSequence"
  ELSE IF Len(m.payload) > kMaxSingleEventPayloadBytes THEN "PayloadTooLarge"
  ELSE IF PacketBytes(Len(m.payload)) > outputBytes THEN "OutputTooSmall"
  ELSE "Ok"

-----------------------------------------------------------------------------
\* Fault: padding is not looked at.
PaddingUnchecked(p, payloadSize) == TRUE

\* All bytes between the payload and the end of its frame are zero.
PaddingIsZero(p, payloadSize) ==
  \A k \in payload_offset + payloadSize + 1 .. PacketBytes(payloadSize) : p[k] = 0

\* The checks on the common header, made before anything behind it is read.
HeaderError(p) ==
  IF Len(p) < kCommonHeaderBytes THEN "Truncated"
  ELSE IF Len(p) > kMaxPacketBytes THEN "PacketTooLarge"
  ELSE IF p[1] # kMagic THEN "InvalidMagic"
  ELSE IF p[2] \div Nibble # kVersion THEN "UnsupportedVersion"
  ELSE IF p[2] % Nibble # Data THEN "UnsupportedType"
  ELSE IF read_u16(p, 2) # Len(p) THEN "PacketLengthMismatch"
  ELSE IF read_u32(p, 4) = 0 THEN "InvalidSessionId"
  ELSE IF Len(p) < kMinDataPacketBytes THEN "Truncated"
  ELSE "Ok"

\* The checks on the event and its frame, for a packet long enough.
FrameError(p) ==
  LET payloadSize == read_u16(p, 40)
  IN  IF read_u64(p, 8) = 0 THEN "InvalidPacketSequence"
      ELSE IF read_u64(p, 16) = 0 THEN "InvalidEventSequence"
      ELSE IF read_u32(p, 36) # 0 THEN "MalformedFrame"
      ELSE IF payloadSize > kMaxSingleEventPayloadBytes
                \/ Len(p) < PacketBytes(payloadSize) THEN "MalformedFrame"
      ELSE IF ~PaddingIsZero(p, payloadSize) THEN "NonZeroPadding"
      ELSE IF Len(p) # PacketBytes(payloadSize) THEN "UnsupportedBatch"
      ELSE "Ok"

DecodeError(p) == IF HeaderError(p) # "Ok" THEN HeaderError(p) ELSE FrameError(p)

\* The view of an accepted packet.
DecodedDataView(p) ==
  [session_id |-> read_u32(p, 4), packet_sequence |-> read_u64(p, 8),
   sequence |-> read_u64(p, 16), source_timestamp_ns |-> read_u64(p, 24),
   stream_id |-> read_u32(p, 32),
   payload |-> SubSeq(p, payload_offset + 1, payload_offset + read_u16(p, 40))]

-----------------------------------------------------------------------------
NoMessage == [session_id |-> 0, packet_sequence |-> 0, sequence |-> 0,
              source_timestamp_ns |-> 0, stream_id |-> 0, payload |-> <<>>]

Init ==
  /\ output = [k \in 1..kMaxPacketBytes |-> 0]
  /\ sent = NoMessage /\ decoded = NoMessage
  /\ datagram = <<>> /\ received = <<>>
  /\ result = "None"

\* An error leaves the buffer as it was.
Encode(m, bytes) ==
  /\ result' = EncodeError(m, bytes)
  /\ sent' = m
  /\ datagram' = IF result' = "Ok" THEN EncodedPacket(m, output) ELSE <<>>
  /\ output' = datagram' \o SubSeq(output, Len(datagram') + 1, kMaxPacketBytes)
  /\ received' = <<>> /\ decoded' = NoMessage

Decode(p) ==
  /\ datagram # <<>> /\ received = <<>>
  /\ result' = DecodeError(p)
  /\ decoded' = IF result' = "Ok" THEN DecodedDataView(p) ELSE NoMessage
  /\ received' = IF result' = "Ok" \/ p = datagram THEN p ELSE <<>>
  /\ UNCHANGED <<output, sent, datagram>>

\* One byte overwritten, then cut off or filled up with zeros.
Altered(p, k, b, n) ==
  [i \in 1..n |-> IF i = k THEN b ELSE IF i <= Len(p) THEN p[i] ELSE 0]

Next ==
  \/ \E m \in Message, bytes \in OutputBytes : Encode(m, bytes)
  \/ Decode(datagram)
  \/ \E k \in 1..kMaxPacketBytes, b \in AlteredByte, n \in AlteredLength :
       Decode(Altered(datagram, k, b, n))

Spec == Init /\ [][Next]_vars

-----------------------------------------------------------------------------
\* A datagram that arrives as it was sent is accepted and gives back every
\* field and the payload, whatever the reused buffer held before.
RoundTrip ==
  received # <<>> /\ received = datagram => result = "Ok" /\ decoded = sent

\* decode_data() accepts one byte sequence per message, the encoder's: no
\* other length, padding or reserved field passes, and so the payload of a
\* view never reaches beyond the bytes that arrived.
AcceptedIsCanonical ==
  received # <<>> /\ result = "Ok" =>
    /\ EncodeError(decoded, kMaxPacketBytes) = "Ok"
    /\ received = EncodedPacket(decoded, output)
=============================================================================
