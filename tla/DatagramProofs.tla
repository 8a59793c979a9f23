--------------------------- MODULE DatagramProofs ---------------------------
(***************************************************************************)
(* Proofs about the path of a datagram: the codec, for every width of a    *)
(* byte, every message and every byte sequence that may arrive; then the   *)
(* call that takes it from the socket.                                     *)
(***************************************************************************)
EXTENDS Codec, UdpReceiver, SequenceTheorems, TLAPS

-----------------------------------------------------------------------------
(***************************************************************************)
(* Arithmetic: a number and its two halves.                                *)
(***************************************************************************)
\* Quotient and remainder of a number below w * w are below w and give it back.
LEMMA SplitHalves ==
  ASSUME NEW w \in Nat \ {0}, NEW v \in 0..w * w - 1
  PROVE  /\ v % w \in 0..w - 1 /\ v \div w \in 0..w - 1
         /\ (v % w) % w = v % w
         /\ (v \div w) % w = v \div w
         /\ v = (v % w) + (v \div w) * w
<1>1. v \in Nat /\ v < w * w
  OBVIOUS
<1>2. v % w \in 0..w - 1 /\ v \div w \in Nat /\ v = w * (v \div w) + (v % w)
  BY <1>1
<1> DEFINE q == v \div w
<1>3. q \in Nat /\ w * q < w * w
  BY <1>1, <1>2
<1> HIDE DEF q
<1>4. q < w
  <2>1. \A x, y \in Nat : x >= y => w * x >= w * y
    OBVIOUS
  <2> QED BY <2>1, <1>3
<1>5. \A x \in 0..w - 1 : x % w = x
  OBVIOUS
<1> QED BY <1>2, <1>3, <1>4, <1>5 DEF q

\* Two numbers below w are the halves of what they make up.
LEMMA JoinHalves ==
  ASSUME NEW w \in Nat \ {0}, NEW lo \in 0..w - 1, NEW hi \in 0..w - 1
  PROVE  /\ lo + hi * w \in 0..w * w - 1
         /\ (lo + hi * w) % w = lo
         /\ (lo + hi * w) \div w = hi
<1>1. hi * w + w <= w * w
  OBVIOUS
<1>2. lo + hi * w \in Nat /\ lo + hi * w < w * w
  BY <1>1
<1>3. (lo + hi * w) % w = lo /\ (lo + hi * w) \div w = hi
  OBVIOUS
<1> QED BY <1>2, <1>3

\* The widths are nonzero, and each is the square of the one before.
LEMMA Widths ==
  /\ Nibble \in Nat \ {0} /\ Base \in Nat \ {0} /\ U16 \in Nat \ {0} /\ U32 \in Nat \ {0}
  /\ Base = Nibble * Nibble /\ U16 = Base * Base /\ U32 = U16 * U16
  /\ kVersion \in 0..Nibble - 1 /\ Data \in 0..Nibble - 1 /\ kMagic \in Byte
<1>1. \A x \in Nat \ {0} : x * x \in Nat \ {0}
  OBVIOUS
<1>2. Nibble \in Nat \ {0} /\ kMagic \in Byte
      /\ kVersion \in 0..Nibble - 1 /\ Data \in 0..Nibble - 1
  BY CodecAssumption
<1>3. Base \in Nat \ {0}
  BY <1>1, <1>2 DEF Base
<1>4. U16 \in Nat \ {0}
  BY <1>1, <1>3 DEF U16
<1>5. U32 \in Nat \ {0}
  BY <1>1, <1>4 DEF U32
<1> QED BY <1>2, <1>3, <1>4, <1>5 DEF Base, U16, U32

-----------------------------------------------------------------------------
(***************************************************************************)
(* write_u16(), write_u32() and write_u64() against read_u16(), read_u32() *)
(* and read_u64().                                                         *)
(***************************************************************************)
\* w is a sequence of n bytes.
IsBytes(w, n) == w \in Seq(Byte) /\ Len(w) = n

\* Concatenation, under a name that the provers do not expand.
Cat(s, t) == s \o t

\* Where the bytes of two sequences lie in their concatenation.
LEMMA Joined ==
  ASSUME NEW s, NEW t, NEW n \in Nat, NEW k \in Nat, IsBytes(s, n), IsBytes(t, k)
  PROVE  /\ IsBytes(Cat(s, t), n + k)
         /\ \A j \in 1..n : Cat(s, t)[j] = s[j]
         /\ \A j \in 1..k : Cat(s, t)[n + j] = t[j]
<1> USE DEF IsBytes, Cat
<1>1. s \in Seq(Byte) /\ t \in Seq(Byte) /\ Len(s) = n /\ Len(t) = k
  OBVIOUS
<1>2. s \o t \in Seq(Byte) /\ Len(s \o t) = n + k
  BY <1>1
<1>3. ASSUME NEW j \in 1..n PROVE (s \o t)[j] = s[j]
  BY <1>1
<1>4. ASSUME NEW j \in 1..k PROVE (s \o t)[n + j] = t[j]
  <2>1. (s \o t)[n + j] = t[(n + j) - n]
    BY <1>1
  <2>2. (n + j) - n = j
    OBVIOUS
  <2> QED BY <2>1, <2>2
<1> QED BY <1>2, <1>3, <1>4

\* The bytes w lie in p behind the first offset ones.
Lies(w, p, offset) == \A j \in 1..Len(w) : p[offset + j] = w[j]

\* What write_u16() writes.
LEMMA Written16 ==
  ASSUME NEW v \in 0..U16 - 1
  PROVE  /\ IsBytes(write_u16(v), 2)
         /\ write_u16(v)[1] = v % Base /\ write_u16(v)[2] = v \div Base
<1>1. v % Base \in Byte /\ v \div Base \in Byte /\ (v \div Base) % Base = v \div Base
  BY Widths, SplitHalves DEF Byte
<1> QED BY <1>1 DEF write_u16, IsBytes

\* What write_u32() writes: the two halves, each by write_u16().
LEMMA Written32 ==
  ASSUME NEW v \in 0..U32 - 1
  PROVE  /\ v % U16 \in 0..U16 - 1 /\ v \div U16 \in 0..U16 - 1
         /\ v = (v % U16) + (v \div U16) * U16
         /\ IsBytes(write_u32(v), 4)
         /\ \A j \in 1..2 : /\ write_u32(v)[j] = write_u16(v % U16)[j]
                            /\ write_u32(v)[2 + j] = write_u16(v \div U16)[j]
<1> DEFINE lo == v % U16  hi == v \div U16
<1>1. /\ lo \in 0..U16 - 1 /\ hi \in 0..U16 - 1 /\ hi % U16 = hi
      /\ v = lo + hi * U16
  <2>1. U16 \in Nat \ {0} /\ v \in 0..U16 * U16 - 1
    BY Widths
  <2> QED BY <2>1, SplitHalves
<1>2. write_u32(v) = Cat(write_u16(lo), write_u16(hi))
  BY <1>1 DEF write_u32, Cat
<1> HIDE DEF lo, hi
<1>3. /\ IsBytes(write_u16(lo), 2)
      /\ IsBytes(write_u16(hi), 2)
  BY <1>1, Written16
<1>4. /\ IsBytes(write_u32(v), 4)
      /\ \A j \in 1..2 : /\ write_u32(v)[j] = write_u16(lo)[j]
                         /\ write_u32(v)[2 + j] = write_u16(hi)[j]
  BY <1>2, <1>3, Joined
<1> QED BY <1>1, <1>4 DEF lo, hi

\* What write_u64() writes: the two halves, each by write_u32().
LEMMA Written64 ==
  ASSUME NEW v \in 0..U32 * U32 - 1
  PROVE  /\ v % U32 \in 0..U32 - 1 /\ v \div U32 \in 0..U32 - 1
         /\ v = (v % U32) + (v \div U32) * U32
         /\ IsBytes(write_u64(v), 8)
         /\ \A j \in 1..4 : /\ write_u64(v)[j] = write_u32(v % U32)[j]
                            /\ write_u64(v)[4 + j] = write_u32(v \div U32)[j]
<1> DEFINE lo == v % U32  hi == v \div U32
<1>1. /\ lo \in 0..U32 - 1 /\ hi \in 0..U32 - 1 /\ hi % U32 = hi
      /\ v = lo + hi * U32
  <2>1. U32 \in Nat \ {0} /\ v \in 0..U32 * U32 - 1
    BY Widths
  <2> QED BY <2>1, SplitHalves
<1>2. write_u64(v) = Cat(write_u32(lo), write_u32(hi))
  BY <1>1 DEF write_u64, Cat
<1> HIDE DEF lo, hi
<1>3. /\ IsBytes(write_u32(lo), 4)
      /\ IsBytes(write_u32(hi), 4)
  BY <1>1, Written32
<1>4. /\ IsBytes(write_u64(v), 8)
      /\ \A j \in 1..4 : /\ write_u64(v)[j] = write_u32(lo)[j]
                         /\ write_u64(v)[4 + j] = write_u32(hi)[j]
  BY <1>2, <1>3, Joined
<1> QED BY <1>1, <1>4 DEF lo, hi

\* What write_u16() wrote, read_u16() reads.
LEMMA ReadBack16 ==
  ASSUME NEW v \in 0..U16 - 1, NEW p, NEW offset \in Nat, Lies(write_u16(v), p, offset)
  PROVE  read_u16(p, offset) = v
<1>1. p[offset + 1] = v % Base /\ p[offset + 2] = v \div Base
  BY Written16 DEF Lies, IsBytes
<1>2. v = (v % Base) + (v \div Base) * Base
  BY Widths, SplitHalves
<1> QED BY <1>1, <1>2 DEF read_u16

\* What write_u32() wrote, read_u32() reads.
LEMMA ReadBack32 ==
  ASSUME NEW v \in 0..U32 - 1, NEW p, NEW offset \in Nat,
         Lies(write_u32(v), p, offset)
  PROVE  read_u32(p, offset) = v
<1> DEFINE lo == v % U16  hi == v \div U16
<1>1. /\ lo \in 0..U16 - 1 /\ hi \in 0..U16 - 1 /\ v = lo + hi * U16
      /\ IsBytes(write_u32(v), 4)
      /\ \A j \in 1..2 : /\ write_u32(v)[j] = write_u16(lo)[j]
                         /\ write_u32(v)[2 + j] = write_u16(hi)[j]
  BY Written32
<1> HIDE DEF lo, hi
<1>2. IsBytes(write_u16(lo), 2) /\ IsBytes(write_u16(hi), 2)
  BY <1>1, Written16
<1>3. Lies(write_u16(lo), p, offset)
  <2>1. ASSUME NEW j \in 1..2 PROVE p[offset + j] = write_u16(lo)[j]
    <3>1. j \in 1..4
      OBVIOUS
    <3> QED BY <1>1, <3>1 DEF Lies, IsBytes
  <2> QED BY <1>2, <2>1 DEF Lies, IsBytes
<1>4. Lies(write_u16(hi), p, offset + 2)
  <2>1. ASSUME NEW j \in 1..2 PROVE p[offset + 2 + j] = write_u16(hi)[j]
    <3>1. 2 + j \in 1..4 /\ offset + (2 + j) = offset + 2 + j
      OBVIOUS
    <3> QED BY <1>1, <3>1 DEF Lies, IsBytes
  <2> QED BY <1>2, <2>1 DEF Lies, IsBytes
<1>5. read_u16(p, offset) = lo /\ read_u16(p, offset + 2) = hi
  BY <1>1, <1>3, <1>4, ReadBack16
<1> QED BY <1>1, <1>5 DEF read_u32

\* What write_u64() wrote, read_u64() reads.
LEMMA ReadBack64 ==
  ASSUME NEW v \in 0..U32 * U32 - 1, NEW p, NEW offset \in Nat,
         Lies(write_u64(v), p, offset)
  PROVE  read_u64(p, offset) = v
<1> DEFINE lo == v % U32  hi == v \div U32
<1>1. /\ lo \in 0..U32 - 1 /\ hi \in 0..U32 - 1 /\ v = lo + hi * U32
      /\ IsBytes(write_u64(v), 8)
      /\ \A j \in 1..4 : /\ write_u64(v)[j] = write_u32(lo)[j]
                         /\ write_u64(v)[4 + j] = write_u32(hi)[j]
  BY Written64
<1> HIDE DEF lo, hi
<1>2. IsBytes(write_u32(lo), 4) /\ IsBytes(write_u32(hi), 4)
  BY <1>1, Written32
<1>3. Lies(write_u32(lo), p, offset)
  <2>1. ASSUME NEW j \in 1..4 PROVE p[offset + j] = write_u32(lo)[j]
    <3>1. j \in 1..8
      OBVIOUS
    <3> QED BY <1>1, <3>1 DEF Lies, IsBytes
  <2> QED BY <1>2, <2>1 DEF Lies, IsBytes
<1>4. Lies(write_u32(hi), p, offset + 4)
  <2>1. ASSUME NEW j \in 1..4 PROVE p[offset + 4 + j] = write_u32(hi)[j]
    <3>1. 4 + j \in 1..8 /\ offset + (4 + j) = offset + 4 + j
      OBVIOUS
    <3> QED BY ZenonT(40), <1>1, <3>1 DEF Lies, IsBytes
  <2> QED BY <1>2, <2>1 DEF Lies, IsBytes
<1>5. read_u32(p, offset) = lo /\ read_u32(p, offset + 4) = hi
  BY <1>1, <1>3, <1>4, ReadBack32
<1> QED BY <1>1, <1>5 DEF read_u64

\* What read_u16() reads is what write_u16() would have written there.
LEMMA Reread16 ==
  ASSUME NEW p, NEW offset \in Nat, \A j \in 1..2 : p[offset + j] \in Byte
  PROVE  /\ read_u16(p, offset) \in 0..U16 - 1
         /\ Lies(write_u16(read_u16(p, offset)), p, offset)
<1> DEFINE lo == p[offset + 1]  hi == p[offset + 2]
<1>1. lo \in 0..Base - 1 /\ hi \in 0..Base - 1 /\ read_u16(p, offset) = lo + hi * Base
  BY DEF Byte, read_u16
<1> HIDE DEF lo, hi
<1> DEFINE v == read_u16(p, offset)
<1>2. v \in 0..U16 - 1 /\ v % Base = lo /\ v \div Base = hi
  <2>1. Base \in Nat \ {0} /\ U16 = Base * Base
    BY Widths
  <2> QED BY ZenonT(40), <1>1, <2>1, JoinHalves
<1> HIDE DEF v
<1>3. IsBytes(write_u16(v), 2) /\ write_u16(v)[1] = lo /\ write_u16(v)[2] = hi
  BY <1>2, Written16
<1>4. Lies(write_u16(v), p, offset)
  BY <1>3 DEF Lies, IsBytes, lo, hi
<1> QED BY <1>2, <1>4 DEF v

\* What read_u32() reads is what write_u32() would have written there.
LEMMA Reread32 ==
  ASSUME NEW p, NEW offset \in Nat, \A j \in 1..4 : p[offset + j] \in Byte
  PROVE  /\ read_u32(p, offset) \in 0..U32 - 1
         /\ Lies(write_u32(read_u32(p, offset)), p, offset)
<1> DEFINE lo == read_u16(p, offset)  hi == read_u16(p, offset + 2)
<1>1. lo \in 0..U16 - 1 /\ Lies(write_u16(lo), p, offset)
  BY Reread16
<1>2. hi \in 0..U16 - 1 /\ Lies(write_u16(hi), p, offset + 2)
  <2>1. ASSUME NEW j \in 1..2 PROVE p[offset + 2 + j] \in Byte
    <3>1. 2 + j \in 1..4 /\ offset + (2 + j) = offset + 2 + j
      OBVIOUS
    <3> QED BY <3>1
  <2> QED BY <2>1, Reread16
<1>3. read_u32(p, offset) = lo + hi * U16
  BY DEF read_u32
<1> HIDE DEF lo, hi
<1> DEFINE v == read_u32(p, offset)
<1>4. v \in 0..U32 - 1 /\ v % U16 = lo /\ v \div U16 = hi
  <2>1. U16 \in Nat \ {0} /\ U32 = U16 * U16
    BY Widths
  <2> QED BY ZenonT(40), <1>1, <1>2, <1>3, <2>1, JoinHalves
<1> HIDE DEF v
<1>5. /\ IsBytes(write_u32(v), 4)
      /\ \A j \in 1..2 : /\ write_u32(v)[j] = write_u16(lo)[j]
                         /\ write_u32(v)[2 + j] = write_u16(hi)[j]
  BY <1>4, Written32
<1>6. IsBytes(write_u16(lo), 2) /\ IsBytes(write_u16(hi), 2)
  BY <1>1, <1>2, Written16
<1>7. ASSUME NEW j \in 1..4 PROVE p[offset + j] = write_u32(v)[j]
  <2>1. CASE j <= 2
    <3>1. j \in 1..2
      BY <2>1
    <3> QED BY <1>1, <1>5, <1>6, <3>1 DEF Lies, IsBytes
  <2>2. CASE j > 2
    <3>1. j - 2 \in 1..2 /\ 2 + (j - 2) = j /\ offset + 2 + (j - 2) = offset + j
      BY <2>2
    <3> QED BY <1>2, <1>5, <1>6, <3>1 DEF Lies, IsBytes
  <2> QED BY <2>1, <2>2
<1>8. Lies(write_u32(v), p, offset)
  BY <1>5, <1>7 DEF Lies, IsBytes
<1> QED BY <1>4, <1>8 DEF v

\* What read_u64() reads is what write_u64() would have written there.
LEMMA Reread64 ==
  ASSUME NEW p, NEW offset \in Nat, \A j \in 1..8 : p[offset + j] \in Byte
  PROVE  /\ read_u64(p, offset) \in 0..U32 * U32 - 1
         /\ Lies(write_u64(read_u64(p, offset)), p, offset)
<1> DEFINE lo == read_u32(p, offset)  hi == read_u32(p, offset + 4)
<1>1. lo \in 0..U32 - 1 /\ Lies(write_u32(lo), p, offset)
  BY Reread32
<1>2. hi \in 0..U32 - 1 /\ Lies(write_u32(hi), p, offset + 4)
  <2>1. ASSUME NEW j \in 1..4 PROVE p[offset + 4 + j] \in Byte
    <3>1. 4 + j \in 1..8 /\ offset + (4 + j) = offset + 4 + j
      OBVIOUS
    <3> QED BY <3>1
  <2> QED BY <2>1, Reread32
<1>3. read_u64(p, offset) = lo + hi * U32
  BY DEF read_u64
<1> HIDE DEF lo, hi
<1> DEFINE v == read_u64(p, offset)
<1>4. v \in 0..U32 * U32 - 1 /\ v % U32 = lo /\ v \div U32 = hi
  <2>1. U32 \in Nat \ {0} /\ U32 * U32 = U32 * U32
    BY Widths
  <2> QED BY ZenonT(40), <1>1, <1>2, <1>3, <2>1, JoinHalves
<1> HIDE DEF v
<1>5. /\ IsBytes(write_u64(v), 8)
      /\ \A j \in 1..4 : /\ write_u64(v)[j] = write_u32(lo)[j]
                         /\ write_u64(v)[4 + j] = write_u32(hi)[j]
  BY <1>4, Written64
<1>6. IsBytes(write_u32(lo), 4) /\ IsBytes(write_u32(hi), 4)
  BY <1>1, <1>2, Written32
<1>7. ASSUME NEW j \in 1..8 PROVE p[offset + j] = write_u64(v)[j]
  <2>1. CASE j <= 4
    <3>1. j \in 1..4
      BY <2>1
    <3> QED BY <1>1, <1>5, <1>6, <3>1 DEF Lies, IsBytes
  <2>2. CASE j > 4
    <3>1. j - 4 \in 1..4 /\ 4 + (j - 4) = j /\ offset + 4 + (j - 4) = offset + j
      BY <2>2
    <3> QED BY <1>2, <1>5, <1>6, <3>1 DEF Lies, IsBytes
  <2> QED BY <2>1, <2>2
<1>8. Lies(write_u64(v), p, offset)
  BY <1>5, <1>7 DEF Lies, IsBytes
<1> QED BY <1>4, <1>8 DEF v

-----------------------------------------------------------------------------
(***************************************************************************)
(* Where encode_data() puts what.                                          *)
(***************************************************************************)
\* Frame and packet sizes: at most three bytes of padding, and the largest
\* payload fills the largest packet.
LEMMA Sizes ==
  ASSUME NEW n \in Nat
  PROVE  /\ PacketBytes(n) \in Nat /\ PacketBytes(n) >= 42 + n /\ PacketBytes(n) >= 44
         /\ n <= kMaxSingleEventPayloadBytes =>
              PacketBytes(n) <= kMaxPacketBytes /\ PacketBytes(n) < U16
<1> DEFINE r == (6 + n) % 4
<1>1. r \in 0..3 /\ (6 + n - r) % 4 = 0
  OBVIOUS
<1>2. PacketBytes(n) = 36 + (IF r = 0 THEN 6 + n ELSE 6 + n + 4 - r)
  BY DEF PacketBytes, FrameBytes, AlignUp, kDataFixedBytes, kEventFrameHeaderBytes,
         kEventFrameAlignmentBytes
<1>3. /\ kMaxPacketBytes = 42 + kMaxSingleEventPayloadBytes
      /\ kMaxSingleEventPayloadBytes \in Nat
      /\ (42 + kMaxSingleEventPayloadBytes) % 4 = 0 /\ kMaxPacketBytes < U16
  BY CodecAssumption DEF kMaxPacketBytes, payload_offset, kDataFixedBytes,
     kEventFrameHeaderBytes, kEventFrameAlignmentBytes
<1> QED BY <1>1, <1>2, <1>3, Widths

\* The first n bytes of p are those of s.
Starts(s, p, n) == \A j \in 1..n : p[j] = s[j]

\* A packet that starts with s and t starts with s, and t lies behind it.
LEMMA Unjoined ==
  ASSUME NEW s, NEW t, NEW n \in Nat, NEW k \in Nat, IsBytes(s, n), IsBytes(t, k),
         NEW p, Starts(Cat(s, t), p, n + k)
  PROVE  Starts(s, p, n) /\ Lies(t, p, n)
<1>1. /\ \A j \in 1..n : Cat(s, t)[j] = s[j]
      /\ \A j \in 1..k : Cat(s, t)[n + j] = t[j]
      /\ Len(t) = k
  BY Joined DEF IsBytes
<1>2. ASSUME NEW j \in 1..n PROVE p[j] = s[j]
  <2>1. j \in 1..n + k
    OBVIOUS
  <2> QED BY <1>1, <2>1 DEF Starts
<1>3. ASSUME NEW j \in 1..k PROVE p[n + j] = t[j]
  <2>1. n + j \in 1..n + k
    OBVIOUS
  <2> QED BY <1>1, <2>1 DEF Starts
<1> QED BY <1>1, <1>2, <1>3 DEF Starts, Lies

\* The bytes of the packet that encode_data() makes of a message.
LEMMA EncodedBytes ==
  ASSUME NEW m \in MessageType, Len(m.payload) <= kMaxSingleEventPayloadBytes, NEW b,
         NEW p, p = EncodedPacket(m, b),
         NEW length, length = Len(m.payload), NEW size, size = PacketBytes(length)
  PROVE  /\ length \in Nat /\ size \in Nat /\ IsBytes(p, size)
         /\ p[1] = kMagic /\ p[2] = kVersion * Nibble + Data
         /\ Lies(write_u16(size), p, 2) /\ Lies(write_u32(m.session_id), p, 4)
         /\ Lies(write_u64(m.packet_sequence), p, 8) /\ Lies(write_u64(m.sequence), p, 16)
         /\ Lies(write_u64(m.source_timestamp_ns), p, 24)
         /\ Lies(write_u32(m.stream_id), p, 32) /\ Lies(write_u32(0), p, 36)
         /\ Lies(write_u16(length), p, 40) /\ Lies(m.payload, p, 42)
         /\ \A k \in 42 + length + 1..size : p[k] = 0
<1>1. /\ length \in Nat /\ size \in Nat /\ size >= 42 + length /\ size < U16
      /\ length < U16 /\ m.payload \in Seq(Byte)
  <2>1. length \in Nat /\ m.payload \in Seq(Byte)
    BY DEF MessageType
  <2>2. kMaxSingleEventPayloadBytes \in Nat /\ U16 \in Nat
    BY CodecAssumption, Widths
  <2>3. /\ PacketBytes(length) \in Nat /\ PacketBytes(length) >= 42 + length
        /\ PacketBytes(length) < U16
    BY <2>1, Sizes
  <2> QED BY <2>1, <2>2, <2>3
<1>2. /\ m.session_id \in 0..U32 - 1 /\ m.stream_id \in 0..U32 - 1
      /\ m.packet_sequence \in 0..U32 * U32 - 1 /\ m.sequence \in 0..U32 * U32 - 1
      /\ m.source_timestamp_ns \in 0..U32 * U32 - 1 /\ 0 \in 0..U32 - 1
      /\ size \in 0..U16 - 1 /\ length \in 0..U16 - 1
  BY <1>1, Widths DEF MessageType
<1> DEFINE a1 == <<kMagic, kVersion * Nibble + Data>>
           a2 == write_u16(size)
           a3 == write_u32(m.session_id)
           a4 == write_u64(m.packet_sequence)
           a5 == write_u64(m.sequence)
           a6 == write_u64(m.source_timestamp_ns)
           a7 == write_u32(m.stream_id)
           a8 == write_u32(0)
           a9 == write_u16(length)
           a10 == m.payload
           pad == size - (42 + length)
           a11 == [k \in 1..pad |-> 0]
           c2 == Cat(a1, a2)
           c3 == Cat(c2, a3)
           c4 == Cat(c3, a4)
           c5 == Cat(c4, a5)
           c6 == Cat(c5, a6)
           c7 == Cat(c6, a7)
           c8 == Cat(c7, a8)
           c9 == Cat(c8, a9)
           c10 == Cat(c9, a10)
           c11 == Cat(c10, a11)
<1>3. p = c11
  <2>1. payload_offset + length + 1 \in Int /\ size - (payload_offset + length + 1) + 1 = pad
    BY <1>1 DEF payload_offset, kDataFixedBytes, kEventFrameHeaderBytes
  <2> QED BY <2>1 DEF EncodedPacket, Padding, Cat
<1>4. /\ IsBytes(a1, 2) /\ a1[1] = kMagic /\ a1[2] = kVersion * Nibble + Data
  <2>1. Nibble \in Nat \ {0} /\ kVersion * Nibble + Data = Data + kVersion * Nibble
    BY Widths
  <2>2. kVersion * Nibble + Data \in Byte
    BY <2>1, JoinHalves, Widths DEF Byte
  <2> QED BY <2>2, Widths DEF IsBytes
<1>5. /\ IsBytes(a2, 2) /\ IsBytes(a3, 4) /\ IsBytes(a4, 8) /\ IsBytes(a5, 8)
      /\ IsBytes(a6, 8) /\ IsBytes(a7, 4) /\ IsBytes(a8, 4) /\ IsBytes(a9, 2)
  BY <1>2, Written16, Written32, Written64
<1>6. IsBytes(a10, length)
  BY <1>1 DEF IsBytes
<1>7. pad \in Nat /\ IsBytes(a11, pad) /\ 42 + length + pad = size
  <2>1. pad \in Nat /\ 0 \in Byte
    BY <1>1, Widths DEF Byte
  <2> QED BY <1>1, <2>1 DEF IsBytes
<1>8. \A k \in 1..pad : a11[k] = 0
  OBVIOUS
<1> HIDE DEF a1, a2, a3, a4, a5, a6, a7, a8, a9, a10, a11, pad
<1>9. IsBytes(c2, 4)
  BY <1>4, <1>5, Joined
<1>10. IsBytes(c3, 8)
  BY <1>9, <1>5, Joined
<1>11. IsBytes(c4, 16)
  BY <1>10, <1>5, Joined
<1>12. IsBytes(c5, 24)
  BY <1>11, <1>5, Joined
<1>13. IsBytes(c6, 32)
  BY <1>12, <1>5, Joined
<1>14. IsBytes(c7, 36)
  BY <1>13, <1>5, Joined
<1>15. IsBytes(c8, 40)
  BY <1>14, <1>5, Joined
<1>16. IsBytes(c9, 42)
  BY <1>15, <1>5, Joined
<1>17. IsBytes(c10, 42 + length)
  BY <1>16, <1>1, <1>6, Joined
<1>18. IsBytes(c11, size)
  BY <1>17, <1>1, <1>7, Joined
<1>19. Starts(c10, p, 42 + length) /\ Lies(a11, p, 42 + length)
  <2>1. Starts(c11, p, 42 + length + pad) /\ 42 + length \in Nat
    BY <1>1, <1>3 DEF Starts
  <2> QED BY <2>1, <1>17, <1>7, Unjoined
<1>20. Starts(c9, p, 42) /\ Lies(a10, p, 42)
  BY <1>19, <1>1, <1>6, <1>16, Unjoined
<1>21. Starts(c8, p, 40) /\ Lies(a9, p, 40)
  BY <1>20, <1>5, <1>15, Unjoined
<1>22. Starts(c7, p, 36) /\ Lies(a8, p, 36)
  BY <1>21, <1>5, <1>14, Unjoined
<1>23. Starts(c6, p, 32) /\ Lies(a7, p, 32)
  BY <1>22, <1>5, <1>13, Unjoined
<1>24. Starts(c5, p, 24) /\ Lies(a6, p, 24)
  BY <1>23, <1>5, <1>12, Unjoined
<1>25. Starts(c4, p, 16) /\ Lies(a5, p, 16)
  BY <1>24, <1>5, <1>11, Unjoined
<1>26. Starts(c3, p, 8) /\ Lies(a4, p, 8)
  BY <1>25, <1>5, <1>10, Unjoined
<1>27. Starts(c2, p, 4) /\ Lies(a3, p, 4)
  BY <1>26, <1>5, <1>9, Unjoined
<1>28. Starts(a1, p, 2) /\ Lies(a2, p, 2)
  BY <1>27, <1>5, <1>4, Unjoined
<1>29. p[1] = kMagic /\ p[2] = kVersion * Nibble + Data
  BY <1>28, <1>4 DEF Starts
<1>30. ASSUME NEW k \in 42 + length + 1..size PROVE p[k] = 0
  <2>1. k - (42 + length) \in 1..pad /\ (42 + length) + (k - (42 + length)) = k
    BY <1>1, <1>7
  <2> QED BY <2>1, <1>7, <1>8, <1>19 DEF Lies, IsBytes
<1> QED BY <1>1, <1>3, <1>18, <1>29, <1>30, <1>20, <1>21, <1>22, <1>23, <1>24, <1>25, <1>26, <1>27, <1>28
        DEF a2, a3, a4, a5, a6, a7, a8, a9, a10
-----------------------------------------------------------------------------
(***************************************************************************)
(* encode_data() against decode_data().                                    *)
(***************************************************************************)
\* What encode_data() requires of a message it encodes.
LEMMA Encodable ==
  ASSUME NEW m \in MessageType, NEW n
  PROVE  /\ EncodeError(m, n) = "Ok" =>
              /\ m.session_id # 0 /\ m.packet_sequence # 0 /\ m.sequence # 0
              /\ Len(m.payload) <= kMaxSingleEventPayloadBytes
         /\ /\ m.session_id # 0 /\ m.packet_sequence # 0 /\ m.sequence # 0
            /\ Len(m.payload) <= kMaxSingleEventPayloadBytes
            => EncodeError(m, kMaxPacketBytes) = "Ok"
<1>1. /\ Len(m.payload) \in Nat /\ kMaxSingleEventPayloadBytes \in Nat
      /\ kMaxPacketBytes \in Nat
  BY CodecAssumption
     DEF MessageType, kMaxPacketBytes, payload_offset, kDataFixedBytes, kEventFrameHeaderBytes
<1>2. /\ PacketBytes(Len(m.payload)) \in Nat
      /\ Len(m.payload) <= kMaxSingleEventPayloadBytes =>
           PacketBytes(Len(m.payload)) <= kMaxPacketBytes
  BY <1>1, Sizes
<1>3. EncodeError(m, n) = "Ok" =>
        /\ m.session_id # 0 /\ m.packet_sequence # 0 /\ m.sequence # 0
        /\ ~(Len(m.payload) > kMaxSingleEventPayloadBytes)
  BY DEF EncodeError
<1>4. /\ m.session_id # 0 /\ m.packet_sequence # 0 /\ m.sequence # 0
      /\ ~(Len(m.payload) > kMaxSingleEventPayloadBytes)
      /\ ~(PacketBytes(Len(m.payload)) > kMaxPacketBytes)
      => EncodeError(m, kMaxPacketBytes) = "Ok"
  BY DEF EncodeError
<1> QED BY <1>1, <1>2, <1>3, <1>4

\* Two messages with the same fields are the same.
LEMMA SameMessage ==
  ASSUME NEW m \in MessageType, NEW d,
         d = [session_id |-> m.session_id, packet_sequence |-> m.packet_sequence,
              sequence |-> m.sequence, source_timestamp_ns |-> m.source_timestamp_ns,
              stream_id |-> m.stream_id, payload |-> m.payload]
  PROVE  d = m
BY DEF MessageType

\* A sequence of bytes that lies in a longer one is cut out by SubSeq.
LEMMA CutOut ==
  ASSUME NEW p, NEW n \in Nat, IsBytes(p, n), NEW w, NEW k \in Nat, IsBytes(w, k),
         NEW offset \in Nat, offset + k <= n, Lies(w, p, offset)
  PROVE  SubSeq(p, offset + 1, offset + k) = w
<1> DEFINE s == SubSeq(p, offset + 1, offset + k)
<1>1. /\ s \in Seq(Byte) /\ Len(s) = k
      /\ \A j \in 1..k : s[j] = p[offset + 1 + j - 1]
  <2>1. p \in Seq(Byte) /\ offset + 1 \in 1..n + 1 /\ offset + k \in offset..n
    BY DEF IsBytes
  <2> QED BY <2>1, SubSeqProperties DEF IsBytes
<1>2. w \in Seq(Byte) /\ Len(w) = k
  BY DEF IsBytes
<1>3. ASSUME NEW j \in 1..k PROVE s[j] = w[j]
  <2>1. offset + 1 + j - 1 = offset + j
    OBVIOUS
  <2> QED BY <1>1, <1>2, <2>1 DEF Lies
<1> HIDE DEF s
<1>4. s = w
  BY <1>1, <1>2, <1>3, SeqEqual
<1> QED BY <1>4 DEF s

\* decode_data() gives back what encode_data() was given, whatever the
\* buffer held.
THEOREM EncodeThenDecode ==
  ASSUME NEW m \in MessageType, NEW n, EncodeError(m, n) = "Ok", NEW b,
         NEW p, p = EncodedPacket(m, b)
  PROVE  /\ p \in Seq(Byte) /\ p # <<>>
         /\ DecodeError(p) = "Ok" /\ DecodedDataView(p) = m
<1> DEFINE length == Len(m.payload)  size == PacketBytes(length)
<1>0. length = Len(m.payload) /\ size = PacketBytes(length)
  OBVIOUS
<1>1. /\ m.session_id # 0 /\ m.packet_sequence # 0 /\ m.sequence # 0
      /\ Len(m.payload) <= kMaxSingleEventPayloadBytes
  BY Encodable
<1> HIDE DEF length, size
<1>2. /\ length \in Nat /\ size \in Nat /\ IsBytes(p, size)
      /\ p[1] = kMagic /\ p[2] = kVersion * Nibble + Data
      /\ Lies(write_u16(size), p, 2) /\ Lies(write_u32(m.session_id), p, 4)
      /\ Lies(write_u64(m.packet_sequence), p, 8) /\ Lies(write_u64(m.sequence), p, 16)
      /\ Lies(write_u64(m.source_timestamp_ns), p, 24)
      /\ Lies(write_u32(m.stream_id), p, 32) /\ Lies(write_u32(0), p, 36)
      /\ Lies(write_u16(length), p, 40) /\ Lies(m.payload, p, 42)
      /\ \A k \in 42 + length + 1..size : p[k] = 0
  BY <1>0, <1>1, EncodedBytes
<1>3. /\ size >= 42 + length /\ size >= 44 /\ size <= kMaxPacketBytes /\ size < U16
      /\ length <= kMaxSingleEventPayloadBytes
      /\ kMaxSingleEventPayloadBytes \in Nat /\ kMaxPacketBytes \in Nat
  <2>1. kMaxSingleEventPayloadBytes \in Nat /\ kMaxPacketBytes \in Nat
    BY CodecAssumption
       DEF kMaxPacketBytes, payload_offset, kDataFixedBytes, kEventFrameHeaderBytes
  <2> QED BY <1>0, <1>1, <1>2, <2>1, Sizes
<1>4. /\ m.session_id \in 0..U32 - 1 /\ m.stream_id \in 0..U32 - 1
      /\ m.packet_sequence \in 0..U32 * U32 - 1 /\ m.sequence \in 0..U32 * U32 - 1
      /\ m.source_timestamp_ns \in 0..U32 * U32 - 1 /\ 0 \in 0..U32 - 1
      /\ size \in 0..U16 - 1 /\ length \in 0..U16 - 1
  <2>1. U16 \in Nat /\ U32 \in Nat \ {0}
    BY Widths
  <2>2. size \in 0..U16 - 1 /\ length \in 0..U16 - 1
    BY <1>2, <1>3, <2>1
  <2> QED BY <2>1, <2>2 DEF MessageType
<1>5. read_u16(p, 2) = size /\ read_u16(p, 40) = length
  BY <1>2, <1>4, ReadBack16
<1>6. /\ read_u32(p, 4) = m.session_id /\ read_u32(p, 32) = m.stream_id
      /\ read_u32(p, 36) = 0
  BY <1>2, <1>4, ReadBack32
<1>7. /\ read_u64(p, 8) = m.packet_sequence /\ read_u64(p, 16) = m.sequence
      /\ read_u64(p, 24) = m.source_timestamp_ns
  BY <1>2, <1>4, ReadBack64
<1>8. p[2] \div Nibble = kVersion /\ p[2] % Nibble = Data
  <2>1. kVersion * Nibble + Data = Data + kVersion * Nibble
    BY Widths
  <2>2. Nibble \in Nat \ {0} /\ Data \in 0..Nibble - 1 /\ kVersion \in 0..Nibble - 1
    BY Widths
  <2>3. /\ (Data + kVersion * Nibble) % Nibble = Data
        /\ (Data + kVersion * Nibble) \div Nibble = kVersion
    BY <2>2, JoinHalves
  <2> QED BY <1>2, <2>1, <2>3
<1>9. p \in Seq(Byte) /\ Len(p) = size
  BY <1>2 DEF IsBytes
<1>10. HeaderError(p) = "Ok"
  <2>1. /\ ~(Len(p) < kCommonHeaderBytes) /\ ~(Len(p) > kMaxPacketBytes)
        /\ ~(Len(p) < kMinDataPacketBytes)
    BY <1>2, <1>3, <1>9 DEF kCommonHeaderBytes, kMinDataPacketBytes
  <2> QED BY <2>1, <1>1, <1>2, <1>5, <1>6, <1>8, <1>9 DEF HeaderError
<1>11. FrameError(p) = "Ok"
  <2>1. PaddingIsZero(p, length)
    BY <1>0, <1>2 DEF PaddingIsZero, payload_offset, kDataFixedBytes, kEventFrameHeaderBytes
  <2>2. /\ ~(length > kMaxSingleEventPayloadBytes) /\ Len(p) = PacketBytes(length)
        /\ ~(Len(p) < PacketBytes(length))
    BY <1>0, <1>1, <1>2, <1>3, <1>9
  <2> QED BY <2>1, <2>2, <1>1, <1>5, <1>6, <1>7 DEF FrameError
<1>12. DecodedDataView(p) = m
  <2>1. SubSeq(p, 42 + 1, 42 + length) = m.payload
    <3>1. m.payload \in Seq(Byte) /\ IsBytes(m.payload, length)
      BY <1>0 DEF MessageType, IsBytes
    <3> QED BY <3>1, <1>2, <1>3, CutOut
  <2>2. payload_offset = 42
    BY DEF payload_offset, kDataFixedBytes, kEventFrameHeaderBytes
  <2>3. DecodedDataView(p) =
          [session_id |-> m.session_id, packet_sequence |-> m.packet_sequence,
           sequence |-> m.sequence, source_timestamp_ns |-> m.source_timestamp_ns,
           stream_id |-> m.stream_id, payload |-> m.payload]
    BY <2>1, <2>2, <1>5, <1>6, <1>7 DEF DecodedDataView
  <2> QED BY <2>3, SameMessage
<1>13. p # <<>>
  BY <1>2, <1>3, <1>9
<1> QED BY <1>9, <1>10, <1>11, <1>12, <1>13 DEF DecodeError
\* Two packets agree where the same bytes lie in both.
LEMMA SameWhere ==
  ASSUME NEW w, NEW k \in Nat, IsBytes(w, k), NEW p, NEW q, NEW offset \in Nat,
         Lies(w, p, offset), Lies(w, q, offset)
  PROVE  \A i \in offset + 1..offset + k : p[i] = q[i]
<1> TAKE i \in offset + 1..offset + k
<1>1. i - offset \in 1..Len(w) /\ offset + (i - offset) = i
  BY DEF IsBytes
<1> QED BY <1>1 DEF Lies

\* What decode_data() has checked of a packet it accepts.
LEMMA Accepted ==
  ASSUME NEW p, DecodeError(p) = "Ok"
  PROVE  /\ ~(Len(p) < kMinDataPacketBytes) /\ p[1] = kMagic
         /\ p[2] \div Nibble = kVersion /\ p[2] % Nibble = Data
         /\ read_u16(p, 2) = Len(p) /\ read_u32(p, 4) # 0 /\ read_u64(p, 8) # 0
         /\ read_u64(p, 16) # 0 /\ read_u32(p, 36) = 0
         /\ ~(read_u16(p, 40) > kMaxSingleEventPayloadBytes)
         /\ Len(p) = PacketBytes(read_u16(p, 40)) /\ PaddingIsZero(p, read_u16(p, 40))
<1>1. HeaderError(p) = "Ok" /\ FrameError(p) = "Ok"
  BY DEF DecodeError
<1>2. /\ ~(Len(p) < kMinDataPacketBytes) /\ p[1] = kMagic
      /\ p[2] \div Nibble = kVersion /\ p[2] % Nibble = Data
      /\ read_u16(p, 2) = Len(p) /\ read_u32(p, 4) # 0
  BY <1>1 DEF HeaderError
<1>3. /\ read_u64(p, 8) # 0 /\ read_u64(p, 16) # 0 /\ read_u32(p, 36) = 0
      /\ ~(read_u16(p, 40) > kMaxSingleEventPayloadBytes)
      /\ Len(p) = PacketBytes(read_u16(p, 40)) /\ PaddingIsZero(p, read_u16(p, 40))
  BY <1>1 DEF FrameError
<1> QED BY <1>2, <1>3

\* What decode_data() accepts is what encode_data() makes of the view.
THEOREM DecodeThenEncode ==
  ASSUME NEW p \in Seq(Byte), DecodeError(p) = "Ok", NEW b, NEW m, m = DecodedDataView(p)
  PROVE  /\ m \in MessageType /\ EncodeError(m, kMaxPacketBytes) = "Ok"
         /\ p = EncodedPacket(m, b)
<1> DEFINE length == read_u16(p, 40)  size == Len(p)
<1>1. /\ ~(size < 44) /\ p[1] = kMagic /\ p[2] \div Nibble = kVersion /\ p[2] % Nibble = Data
      /\ read_u16(p, 2) = size /\ read_u32(p, 4) # 0 /\ read_u64(p, 8) # 0
      /\ read_u64(p, 16) # 0 /\ read_u32(p, 36) = 0
      /\ ~(length > kMaxSingleEventPayloadBytes)
      /\ size = PacketBytes(length) /\ PaddingIsZero(p, length)
  BY Accepted DEF kMinDataPacketBytes
<1>2. size \in Nat /\ size >= 44 /\ \A i \in 1..size : p[i] \in Byte
  BY <1>1
<1> HIDE DEF size
<1>3. /\ length \in 0..U16 - 1 /\ Lies(write_u16(length), p, 40)
      /\ Lies(write_u16(read_u16(p, 2)), p, 2)
  <2>1. \A j \in 1..2 : p[40 + j] \in Byte /\ p[2 + j] \in Byte
    BY <1>2
  <2> QED BY <2>1, Reread16
<1>4. /\ read_u32(p, 4) \in 0..U32 - 1 /\ Lies(write_u32(read_u32(p, 4)), p, 4)
      /\ read_u32(p, 32) \in 0..U32 - 1 /\ Lies(write_u32(read_u32(p, 32)), p, 32)
      /\ Lies(write_u32(read_u32(p, 36)), p, 36)
  <2>1. \A j \in 1..4 : p[4 + j] \in Byte /\ p[32 + j] \in Byte /\ p[36 + j] \in Byte
    BY <1>2
  <2> QED BY <2>1, Reread32
<1>5. /\ read_u64(p, 8) \in 0..U32 * U32 - 1 /\ Lies(write_u64(read_u64(p, 8)), p, 8)
      /\ read_u64(p, 16) \in 0..U32 * U32 - 1 /\ Lies(write_u64(read_u64(p, 16)), p, 16)
      /\ read_u64(p, 24) \in 0..U32 * U32 - 1 /\ Lies(write_u64(read_u64(p, 24)), p, 24)
  <2>1. \A j \in 1..8 : p[8 + j] \in Byte /\ p[16 + j] \in Byte /\ p[24 + j] \in Byte
    BY <1>2
  <2> QED BY <2>1, Reread64
<1> HIDE DEF length
<1>6. /\ length \in Nat /\ length <= kMaxSingleEventPayloadBytes /\ 42 + length <= size
  <2>1. length \in Nat /\ kMaxSingleEventPayloadBytes \in Nat
    BY <1>3, Widths, CodecAssumption
  <2>2. PacketBytes(length) >= 42 + length
    BY <2>1, Sizes
  <2> QED BY <2>1, <2>2, <1>1, <1>2
<1> DEFINE payload == SubSeq(p, 42 + 1, 42 + length)
<1>7. IsBytes(payload, length) /\ Lies(payload, p, 42)
  <2>1. 42 + 1 \in 1..Len(p) + 1 /\ 42 + length \in 42..Len(p)
    BY <1>2, <1>6 DEF size
  <2>2. /\ payload \in Seq(Byte) /\ Len(payload) = length
        /\ \A j \in 1..length : payload[j] = p[42 + 1 + j - 1]
    BY <2>1, <1>6, SubSeqProperties
  <2>3. ASSUME NEW j \in 1..length PROVE p[42 + j] = payload[j]
    <3>1. 42 + 1 + j - 1 = 42 + j
      OBVIOUS
    <3> QED BY <2>2, <3>1
  <2> HIDE DEF payload
  <2> QED BY <2>2, <2>3 DEF IsBytes, Lies
<1>8. m = [session_id |-> read_u32(p, 4), packet_sequence |-> read_u64(p, 8),
           sequence |-> read_u64(p, 16), source_timestamp_ns |-> read_u64(p, 24),
           stream_id |-> read_u32(p, 32), payload |-> payload]
  BY DEF DecodedDataView, length, payload_offset, kDataFixedBytes, kEventFrameHeaderBytes
<1> HIDE DEF payload
<1>9. m \in MessageType
  BY <1>4, <1>5, <1>7, <1>8 DEF MessageType, IsBytes
<1>10. m.payload = payload /\ Len(m.payload) = length
  BY <1>7, <1>8 DEF IsBytes
<1>11. EncodeError(m, kMaxPacketBytes) = "Ok"
  BY <1>1, <1>6, <1>8, <1>9, <1>10, Encodable
<1> DEFINE q == EncodedPacket(m, b)
<1>12. /\ IsBytes(q, size)
       /\ q[1] = kMagic /\ q[2] = kVersion * Nibble + Data
       /\ Lies(write_u16(size), q, 2) /\ Lies(write_u32(m.session_id), q, 4)
       /\ Lies(write_u64(m.packet_sequence), q, 8) /\ Lies(write_u64(m.sequence), q, 16)
       /\ Lies(write_u64(m.source_timestamp_ns), q, 24)
       /\ Lies(write_u32(m.stream_id), q, 32) /\ Lies(write_u32(0), q, 36)
       /\ Lies(write_u16(length), q, 40) /\ Lies(m.payload, q, 42)
       /\ \A k \in 42 + length + 1..size : q[k] = 0
  BY SMTT(30), <1>1, <1>6, <1>9, <1>10, EncodedBytes
<1> HIDE DEF q
<1>13. q[1] = p[1] /\ q[2] = p[2]
  <2>1. p[2] \in 0..Nibble * Nibble - 1 /\ Nibble \in Nat \ {0}
    BY <1>2, Widths DEF Byte
  <2>2. p[2] = Data + kVersion * Nibble
    BY <2>1, <1>1, SplitHalves
  <2> QED BY <2>2, <1>1, <1>12, Widths
<1>14. /\ IsBytes(write_u16(size), 2) /\ IsBytes(write_u16(length), 2)
       /\ IsBytes(write_u32(m.session_id), 4) /\ IsBytes(write_u32(m.stream_id), 4)
       /\ IsBytes(write_u32(0), 4) /\ IsBytes(write_u64(m.packet_sequence), 8)
       /\ IsBytes(write_u64(m.sequence), 8) /\ IsBytes(write_u64(m.source_timestamp_ns), 8)
  <2>1. size \in 0..U16 - 1 /\ 0 \in 0..U32 - 1
    <3>1. PacketBytes(length) < U16
      BY <1>6, Sizes
    <3>2. U16 \in Nat /\ U32 \in Nat \ {0}
      BY Widths
    <3> QED BY <3>1, <3>2, <1>1, <1>2
  <2> QED BY SMTT(30), <2>1, <1>3, <1>4, <1>5, <1>8, Written16, Written32, Written64
<1>15. \A i \in 3..8 : p[i] = q[i]
  <2>1. \A i \in 2 + 1..2 + 2 : p[i] = q[i]
    BY <1>1, <1>3, <1>12, <1>14, SameWhere
  <2>2. \A i \in 4 + 1..4 + 4 : p[i] = q[i]
    BY <1>4, <1>8, <1>12, <1>14, SameWhere
  <2> QED BY <2>1, <2>2
<1>16. \A i \in 9..16 : p[i] = q[i]
  <2>1. \A i \in 8 + 1..8 + 8 : p[i] = q[i]
    BY <1>5, <1>8, <1>12, <1>14, SameWhere
  <2> QED BY <2>1
<1>17. \A i \in 17..32 : p[i] = q[i]
  <2>1. \A i \in 16 + 1..16 + 8 : p[i] = q[i]
    BY <1>5, <1>8, <1>12, <1>14, SameWhere
  <2>2. \A i \in 24 + 1..24 + 8 : p[i] = q[i]
    BY <1>5, <1>8, <1>12, <1>14, SameWhere
  <2>3. ASSUME NEW i \in 17..32 PROVE p[i] = q[i]
    <3>1. CASE i <= 24
      <4>1. i \in 16 + 1..16 + 8
        BY <3>1
      <4> QED BY <4>1, <2>1
    <3>2. CASE i > 24
      <4>1. i \in 24 + 1..24 + 8
        BY <3>2
      <4> QED BY <4>1, <2>2
    <3> QED BY <3>1, <3>2
  <2> QED BY <2>3
<1>18. \A i \in 33..42 : p[i] = q[i]
  <2>1. \A i \in 32 + 1..32 + 4 : p[i] = q[i]
    BY <1>4, <1>8, <1>12, <1>14, SameWhere
  <2>2. \A i \in 36 + 1..36 + 4 : p[i] = q[i]
    <3>1. Lies(write_u32(0), p, 36)
      BY <1>1, <1>4
    <3> QED BY <3>1, <1>12, <1>14, SameWhere
  <2>3. \A i \in 40 + 1..40 + 2 : p[i] = q[i]
    BY <1>3, <1>12, <1>14, SameWhere
  <2> QED BY <2>1, <2>2, <2>3
<1>19. \A i \in 42 + 1..42 + length : p[i] = q[i]
  BY <1>6, <1>7, <1>10, <1>12, SameWhere
<1>20. \A i \in 42 + length + 1..size : p[i] = q[i]
  <2>1. \A i \in 42 + length + 1..size : p[i] = 0
    BY <1>1 DEF PaddingIsZero, payload_offset, kDataFixedBytes, kEventFrameHeaderBytes
  <2> QED BY <2>1, <1>12
<1>21. p = q
  <2>1. q \in Seq(Byte) /\ Len(q) = Len(p)
    BY <1>12 DEF IsBytes, size
  <2>2. ASSUME NEW i \in 1..size PROVE p[i] = q[i]
    <3>1. CASE i <= 8
      BY <3>1, <1>13, <1>15
    <3>2. CASE i > 8 /\ i <= 16
      BY <3>2, <1>16
    <3>3. CASE i > 16 /\ i <= 32
      <4>1. i \in 17..32
        BY <3>3
      <4> QED BY <4>1, <1>17
    <3>4. CASE i > 32 /\ i <= 42
      BY SMTT(30), <3>4, <1>18
    <3>5. CASE i > 42
      <4>1. i \in 42 + 1..42 + length \/ i \in 42 + length + 1..size
        BY <3>5, <1>2, <1>6
      <4> QED BY <4>1, <1>19, <1>20
    <3> QED BY <3>1, <3>2, <3>3, <3>4, <3>5, <1>2
  <2> QED BY <2>1, <2>2, SeqEqual DEF size
<1> QED BY <1>9, <1>11, <1>21 DEF q
-----------------------------------------------------------------------------
(***************************************************************************)
(* The codec's invariant.                                                  *)
(***************************************************************************)
\* The sender's buffer keeps its size, and the packet lies at its front.
BufferHoldsPacket ==
  /\ IsBytes(output, kMaxPacketBytes)
  /\ datagram \in Seq(Byte) /\ Len(datagram) <= kMaxPacketBytes
  /\ Starts(datagram, output, Len(datagram))

\* The datagram under way is the packet of the message encoded last.
DatagramIsSent ==
  /\ sent \in MessageType
  /\ datagram # <<>> => /\ EncodeError(sent, kMaxPacketBytes) = "Ok"
                        /\ datagram = EncodedPacket(sent, output)

\* The inductive invariant behind RoundTrip and AcceptedIsCanonical.
CodecInv == BufferHoldsPacket /\ DatagramIsSent /\ RoundTrip /\ AcceptedIsCanonical

\* A packet does not depend on the buffer it is written into.
LEMMA BufferUnseen ==
  ASSUME NEW m, NEW b, NEW c
  PROVE  EncodedPacket(m, b) = EncodedPacket(m, c)
BY DEF EncodedPacket, Padding

\* A zeroed buffer, and nothing encoded.
LEMMA InitCodecInv == Init => CodecInv
<1> SUFFICES ASSUME Init PROVE CodecInv
  OBVIOUS
<1>1. kMaxPacketBytes \in Nat /\ 0 \in Byte
  BY CodecAssumption, Widths
     DEF Byte, kMaxPacketBytes, payload_offset, kDataFixedBytes, kEventFrameHeaderBytes
<1>2. IsBytes(output, kMaxPacketBytes)
  <2>1. output = [k \in 1..kMaxPacketBytes |-> 0]
    BY DEF Init
  <2> QED BY <1>1, <2>1 DEF IsBytes
<1>3. datagram = <<>> /\ received = <<>> /\ sent = NoMessage
  BY DEF Init
<1>4. BufferHoldsPacket
  <2>1. datagram \in Seq(Byte) /\ Len(datagram) = 0
    BY <1>3
  <2> QED BY <1>1, <1>2, <2>1 DEF BufferHoldsPacket, Starts
<1>5. sent \in MessageType
  <2>1. 0 \in 0..U32 - 1 /\ 0 \in 0..U32 * U32 - 1
    <3>1. \A x \in Nat \ {0} : 0 \in 0..x - 1 /\ 0 \in 0..x * x - 1
      OBVIOUS
    <3> QED BY <3>1, Widths
  <2>2. <<>> \in Seq(Byte)
    OBVIOUS
  <2> QED BY <1>3, <2>1, <2>2 DEF NoMessage, MessageType
<1> QED BY <1>3, <1>4, <1>5 DEF CodecInv, DatagramIsSent, RoundTrip, AcceptedIsCanonical

\* encode_data() overwrites the front of the buffer, or nothing.
LEMMA EncodeStep ==
  ASSUME CodecInv, NEW m \in Message, NEW bytes \in OutputBytes, Encode(m, bytes)
  PROVE  CodecInv'
<1> DEFINE max == kMaxPacketBytes
<1>1. m \in MessageType /\ max \in Nat /\ bytes \in Nat /\ bytes <= max
  <2>1. max \in Nat
    BY CodecAssumption
       DEF kMaxPacketBytes, payload_offset, kDataFixedBytes, kEventFrameHeaderBytes
  <2> QED BY <2>1, CodecAssumption
<1>2. /\ sent' = m /\ received' = <<>>
      /\ datagram' = IF EncodeError(m, bytes) = "Ok" THEN EncodedPacket(m, output) ELSE <<>>
      /\ output' = datagram' \o SubSeq(output, Len(datagram') + 1, max)
  BY DEF Encode
<1>3. IsBytes(output, max)
  BY DEF CodecInv, BufferHoldsPacket
<1>4. RoundTrip' /\ AcceptedIsCanonical'
  BY <1>2 DEF RoundTrip, AcceptedIsCanonical
<1>5. DatagramIsSent' /\ datagram' \in Seq(Byte) /\ Len(datagram') <= max
  <2>1. CASE EncodeError(m, bytes) # "Ok"
    <3>1. datagram' = <<>> /\ datagram' \in Seq(Byte) /\ Len(datagram') = 0
      BY <1>2, <2>1
    <3> QED BY <1>1, <1>2, <3>1 DEF DatagramIsSent
  <2>2. CASE EncodeError(m, bytes) = "Ok"
    <3>1. datagram' = EncodedPacket(m, output) /\ datagram' = EncodedPacket(m, output')
      BY <1>2, <2>2, BufferUnseen
    <3>2. Len(m.payload) <= kMaxSingleEventPayloadBytes
          /\ EncodeError(m, max) = "Ok"
      BY <1>1, <2>2, Encodable
    <3>3. Len(m.payload) \in Nat /\ IsBytes(datagram', PacketBytes(Len(m.payload)))
      BY <1>1, <3>1, <3>2, EncodedBytes
    <3>4. PacketBytes(Len(m.payload)) <= max
      BY <3>2, <3>3, Sizes
    <3> QED BY <1>1, <1>2, <3>1, <3>2, <3>3, <3>4 DEF DatagramIsSent, IsBytes
  <2> QED BY <2>1, <2>2
<1>6. BufferHoldsPacket'
  <2> DEFINE n == Len(datagram')  rest == SubSeq(output, n + 1, max)
  <2>1. n \in Nat /\ IsBytes(datagram', n) /\ n <= max
    BY <1>5 DEF IsBytes
  <2>2. max - n \in Nat /\ IsBytes(rest, max - n)
    <3>1. output \in Seq(Byte) /\ n + 1 \in 1..Len(output) + 1 /\ max \in n..Len(output)
      BY <1>1, <1>3, <2>1 DEF IsBytes
    <3>2. rest \in Seq(Byte) /\ Len(rest) = max - (n + 1) + 1
      BY <3>1, <1>1, <2>1, SubSeqProperties
    <3> QED BY <1>1, <2>1, <3>2 DEF IsBytes
  <2>3. output' = Cat(datagram', rest)
    BY <1>2 DEF Cat
  <2> HIDE DEF rest, n
  <2>4. IsBytes(output', n + (max - n)) /\ \A j \in 1..n : output'[j] = datagram'[j]
    BY <2>1, <2>2, <2>3, Joined
  <2>5. n + (max - n) = max
    BY <1>1, <2>1
  <2> QED BY <1>5, <2>4, <2>5 DEF BufferHoldsPacket, Starts, n, IsBytes
<1> QED BY <1>4, <1>5, <1>6 DEF CodecInv

\* decode_data() of any byte sequence.
LEMMA DecodeStep ==
  ASSUME CodecInv, NEW p \in Seq(Byte), Decode(p)
  PROVE  CodecInv'
<1>1. /\ datagram # <<>> /\ UNCHANGED <<output, sent, datagram>>
      /\ result' = DecodeError(p)
      /\ result' = "Ok" => decoded' = DecodedDataView(p)
      /\ (received' = p /\ (result' = "Ok" \/ p = datagram)) \/ received' = <<>>
  BY DEF Decode
<1>2. BufferHoldsPacket' /\ DatagramIsSent'
  BY <1>1 DEF CodecInv, BufferHoldsPacket, DatagramIsSent, IsBytes, Starts
<1>3. ASSUME received' # <<>>, received' = datagram' PROVE result' = "Ok" /\ decoded' = sent'
  <2>1. p = EncodedPacket(sent, output) /\ EncodeError(sent, kMaxPacketBytes) = "Ok"
        /\ sent \in MessageType
    BY <1>1, <1>3 DEF CodecInv, DatagramIsSent
  <2>2. DecodeError(p) = "Ok" /\ DecodedDataView(p) = sent
    BY <2>1, EncodeThenDecode
  <2> QED BY <1>1, <2>2
<1>4. ASSUME received' # <<>>, result' = "Ok"
      PROVE  /\ EncodeError(decoded', kMaxPacketBytes) = "Ok"
             /\ received' = EncodedPacket(decoded', output')
  BY <1>1, <1>4, DecodeThenEncode
<1>5. RoundTrip' /\ AcceptedIsCanonical'
  BY <1>3, <1>4 DEF RoundTrip, AcceptedIsCanonical
<1> QED BY <1>2, <1>5 DEF CodecInv

\* Whatever the network makes of a datagram is a byte sequence.
LEMMA AlteredBytes ==
  ASSUME NEW p \in Seq(Byte), NEW k, NEW b \in AlteredByte, NEW n \in AlteredLength
  PROVE  Altered(p, k, b, n) \in Seq(Byte)
<1>1. n \in Nat /\ b \in Byte /\ 0 \in Byte
  BY CodecAssumption, Widths DEF Byte
<1>2. ASSUME NEW i \in 1..n
      PROVE  (IF i = k THEN b ELSE IF i <= Len(p) THEN p[i] ELSE 0) \in Byte
  <2>1. i <= Len(p) => p[i] \in Byte
    BY <1>1
  <2> QED BY <1>1, <2>1
<1> QED BY <1>1, <1>2 DEF Altered

\* For every width of a byte and every message and alteration, the buffer
\* holds the packet of the last message, and the two codec properties hold.
THEOREM CodecInvariance == Spec => []CodecInv
<1>1. CodecInv /\ [Next]_vars => CodecInv'
  <2> SUFFICES ASSUME CodecInv, [Next]_vars PROVE CodecInv'
    OBVIOUS
  <2>1. datagram \in Seq(Byte)
    BY DEF CodecInv, BufferHoldsPacket
  <2>2. ASSUME NEW m \in Message, NEW bytes \in OutputBytes, Encode(m, bytes)
        PROVE  CodecInv'
    BY <2>2, EncodeStep
  <2>3. CASE Decode(datagram)
    BY <2>1, <2>3, DecodeStep
  <2>4. ASSUME NEW k, NEW b \in AlteredByte, NEW n \in AlteredLength,
               Decode(Altered(datagram, k, b, n))
        PROVE  CodecInv'
    BY <2>1, <2>4, AlteredBytes, DecodeStep
  <2>5. CASE UNCHANGED vars
    BY <2>5 DEF vars, CodecInv, BufferHoldsPacket, DatagramIsSent, RoundTrip,
       AcceptedIsCanonical, IsBytes, Starts
  <2> QED BY <2>2, <2>3, <2>4, <2>5 DEF Next
<1> QED BY <1>1, InitCodecInv, PTL DEF Spec

\* A datagram that arrives as it was sent is accepted, and decode_data()
\* gives back the message encode_data() was called with.
THEOREM CodecRoundTrip == Spec => []RoundTrip
<1>1. CodecInv => RoundTrip
  BY DEF CodecInv
<1> QED BY <1>1, CodecInvariance, PTL

\* decode_data() accepts nothing that encode_data() would not have written
\* for the message it reports.
THEOREM CodecAcceptsCanonical == Spec => []AcceptedIsCanonical
<1>1. CodecInv => AcceptedIsCanonical
  BY DEF CodecInv
<1> QED BY <1>1, CodecInvariance, PTL
-----------------------------------------------------------------------------
(***************************************************************************)
(* UdpReceiver::receive(), for every buffer and queue size and every       *)
(* sequence of arrivals.                                                   *)
(***************************************************************************)
Datagram == [id : Nat, bytes : DatagramBytes]

\* The datagrams that reached the socket and were not dropped.
Kept == taken \o queue

\* The types of the two queues and of the call.
UdpTypes ==
  /\ queue \in Seq(Datagram) /\ taken \in Seq(Datagram)
  /\ arrivals \in Nat
  /\ pc \in {"idle", "poll", "recvmsg"}
  /\ timed \in BOOLEAN

\* Every kept datagram has arrived, and they are kept in order of arrival.
KeptInOrder ==
  /\ \A i \in 1..Len(Kept) : Kept[i].id <= arrivals
  /\ \A i \in 1..Len(Kept), j \in 1..Len(Kept) : i < j => Kept[i].id < Kept[j].id

\* What the last call returned is the datagram taken last, whole.
ResultWhole ==
  outcome.code = "Ok" => /\ taken # <<>>
                         /\ outcome.bytes = taken[Len(taken)].bytes
                         /\ outcome.bytes <= BufferBytes

\* The inductive invariant behind WholeAndInOrder.
UdpInv == UdpTypes /\ KeptInOrder /\ ResultWhole

-----------------------------------------------------------------------------
\* Moving the first datagram from one queue to the end of the other changes
\* nothing in the two of them together.
LEMMA HandOver ==
  ASSUME NEW T, NEW s \in Seq(T), NEW t \in Seq(T), t # <<>>
  PROVE  /\ Head(t) \in T /\ Tail(t) \in Seq(T) /\ Append(s, Head(t)) \in Seq(T)
         /\ Append(s, Head(t)) \o Tail(t) = s \o t
         /\ Append(s, Head(t)) # <<>>
         /\ Append(s, Head(t))[Len(Append(s, Head(t)))] = Head(t)
<1>1. /\ Head(t) \in T /\ Tail(t) \in Seq(T) /\ t = <<Head(t)>> \o Tail(t)
  BY HeadTailProperties
<1>2. Append(s, Head(t)) = s \o <<Head(t)>> /\ <<Head(t)>> \in Seq(T)
  BY <1>1, AppendIsConcat
<1>3. (s \o <<Head(t)>>) \o Tail(t) = s \o (<<Head(t)>> \o Tail(t))
  BY <1>1, <1>2, ConcatAssociative
<1>4. /\ Append(s, Head(t)) \in Seq(T) /\ Append(s, Head(t)) # <<>>
      /\ Append(s, Head(t))[Len(Append(s, Head(t)))] = Head(t)
  BY <1>1
<1> QED BY <1>1, <1>2, <1>3, <1>4

\* A datagram that is queued comes after all the others.
LEMMA QueueUp ==
  ASSUME NEW T, NEW s \in Seq(T), NEW t \in Seq(T), NEW x \in T
  PROVE  /\ Append(t, x) \in Seq(T)
         /\ Len(s \o t) \in Nat
         /\ Len(s \o Append(t, x)) = Len(s \o t) + 1
         /\ \A i \in 1..Len(s \o t) : (s \o Append(t, x))[i] = (s \o t)[i]
         /\ (s \o Append(t, x))[Len(s \o t) + 1] = x
<1>1. /\ Append(t, x) \in Seq(T) /\ Len(Append(t, x)) = Len(t) + 1
      /\ Len(s) \in Nat /\ Len(t) \in Nat
      /\ \A i \in 1..Len(t) : Append(t, x)[i] = t[i]
      /\ Append(t, x)[Len(t) + 1] = x
  OBVIOUS
<1>2. Len(s \o t) = Len(s) + Len(t)
  BY <1>1
<1>3. Len(s \o Append(t, x)) = Len(s) + Len(t) + 1
  BY <1>1
<1>4. ASSUME NEW i \in 1..Len(s) + Len(t)
      PROVE  (s \o Append(t, x))[i] = (s \o t)[i]
  <2>1. CASE i \in 1..Len(s)
    BY <2>1, <1>1
  <2>2. CASE i > Len(s)
    <3>1. (s \o Append(t, x))[i] = Append(t, x)[i - Len(s)]
      BY <2>2, <1>1
    <3>2. (s \o t)[i] = t[i - Len(s)]
      BY <2>2, <1>1
    <3> QED BY <2>2, <3>1, <3>2, <1>1
  <2> QED BY <2>1, <2>2, <1>1
<1>5. (s \o Append(t, x))[Len(s) + Len(t) + 1] = x
  <2>1. (s \o Append(t, x))[Len(s) + Len(t) + 1] = Append(t, x)[Len(t) + 1]
    BY <1>1
  <2> QED BY <1>1, <2>1
<1> QED BY <1>1, <1>2, <1>3, <1>4, <1>5

-----------------------------------------------------------------------------
\* An empty queue and no call.
LEMMA InitUdpInv == UdpInit => UdpInv
<1> SUFFICES ASSUME UdpInit PROVE UdpInv
  OBVIOUS
<1>1. UdpTypes /\ ResultWhole
  <2>1. queue \in Seq(Datagram) /\ taken \in Seq(Datagram) /\ arrivals \in Nat
    BY DEF UdpInit
  <2>2. outcome.code # "Ok"
    BY DEF UdpInit, Failed
  <2> QED BY <2>1, <2>2 DEF UdpInit, UdpTypes, ResultWhole
<1>2. KeptInOrder
  BY DEF UdpInit, KeptInOrder, Kept
<1> QED BY <1>1, <1>2 DEF UdpInv

\* A datagram arrives, or is dropped by a full queue.
LEMMA ArriveStep ==
  ASSUME UdpInv, NEW bytes \in DatagramBytes, Arrive(bytes)
  PROVE  UdpInv'
<1> DEFINE d == [id |-> arrivals + 1, bytes |-> bytes]
<1>1. UdpTypes /\ KeptInOrder /\ ResultWhole
  BY DEF UdpInv
<1>2. /\ arrivals' = arrivals + 1 /\ UNCHANGED <<pc, timed, outcome, taken>>
      /\ queue' = Append(queue, d) \/ queue' = queue
  BY DEF Arrive
<1>3. arrivals \in Nat /\ d \in Datagram /\ d.id = arrivals + 1
      /\ queue \in Seq(Datagram) /\ taken \in Seq(Datagram)
  BY <1>1 DEF UdpTypes, Datagram
<1> HIDE DEF d
<1>4. ResultWhole'
  BY <1>1, <1>2 DEF ResultWhole
<1>5. \A i \in 1..Len(Kept) : Kept[i].id \in Nat /\ Kept[i].id <= arrivals
  <2>1. Kept \in Seq(Datagram)
    BY <1>3 DEF Kept
  <2>2. \A i \in 1..Len(Kept) : Kept[i] \in Datagram
    BY <2>1
  <2> QED BY <1>1, <2>2 DEF KeptInOrder, Datagram
<1>6. CASE queue' = queue
  <2>1. UdpTypes'
    BY <1>1, <1>2, <1>3, <1>6 DEF UdpTypes
  <2>2. Kept' = Kept
    BY <1>2, <1>6 DEF Kept
  <2>3. KeptInOrder'
    BY <1>1, <1>2, <1>3, <1>5, <2>2 DEF KeptInOrder
  <2> QED BY <1>4, <2>1, <2>3 DEF UdpInv
<1>7. CASE queue' = Append(queue, d)
  <2> DEFINE n == Len(Kept)
  <2>1. /\ queue' \in Seq(Datagram) /\ n \in Nat
        /\ Len(Kept') = n + 1
        /\ \A i \in 1..n : Kept'[i] = Kept[i]
        /\ Kept'[n + 1] = d
    BY <1>2, <1>3, <1>7, QueueUp DEF Kept
  <2>2. UdpTypes'
    BY <1>1, <1>2, <1>3, <2>1 DEF UdpTypes
  <2>3. \A i, j \in 1..n : i < j => Kept[i].id < Kept[j].id
    BY <1>1 DEF KeptInOrder
  <2> HIDE DEF n
  <2>4. \A i \in 1..n : Kept[i].id \in Nat /\ Kept[i].id <= arrivals
    BY <1>5 DEF n
  <2>5. \A i \in 1..n + 1 : Kept'[i].id <= arrivals'
    BY <1>2, <1>3, <2>1, <2>4
  <2>6. ASSUME NEW i \in 1..n + 1, NEW j \in 1..n + 1, i < j
        PROVE  Kept'[i].id < Kept'[j].id
    <3>1. i \in 1..n
      BY <2>6, <2>1
    <3>2. CASE j \in 1..n
      BY <2>6, <3>1, <3>2, <2>1, <2>3
    <3>3. CASE j = n + 1
      BY <3>1, <3>3, <2>1, <2>4, <1>3
    <3> QED BY <3>2, <3>3, <2>1
  <2>7. KeptInOrder'
    BY <2>1, <2>5, <2>6 DEF KeptInOrder
  <2> QED BY <1>4, <2>2, <2>7 DEF UdpInv
<1> QED BY <1>2, <1>6, <1>7

\* recvmsg() takes the head of the queue.
LEMMA RecvMsgStep ==
  ASSUME UdpInv, RecvMsg
  PROVE  UdpInv'
<1>1. UdpTypes /\ KeptInOrder /\ ResultWhole
  BY DEF UdpInv
<1>2. /\ queue # <<>> /\ queue' = Tail(queue) /\ taken' = Append(taken, Head(queue))
      /\ pc' = "idle" /\ outcome' = Outcome(Head(queue)) /\ UNCHANGED <<timed, arrivals>>
  BY DEF RecvMsg, Return
<1>3. /\ Head(queue) \in Datagram /\ queue' \in Seq(Datagram) /\ taken' \in Seq(Datagram)
      /\ Kept' = Kept
      /\ taken' # <<>> /\ taken'[Len(taken')] = Head(queue)
  BY <1>1, <1>2, HandOver DEF UdpTypes, Kept
<1>4. UdpTypes'
  BY <1>1, <1>2, <1>3 DEF UdpTypes
<1>5. KeptInOrder'
  BY <1>1, <1>2, <1>3 DEF KeptInOrder
<1>6. ResultWhole'
  <2>1. Head(queue).bytes \in Nat
    BY <1>3, UdpAssumption DEF Datagram
  <2>2. CASE Head(queue).bytes > BufferBytes
    BY <1>2, <2>2 DEF Outcome, Failed, ResultWhole
  <2>3. CASE ~(Head(queue).bytes > BufferBytes)
    BY <1>2, <1>3, <2>1, <2>3, UdpAssumption DEF Outcome, Ok, ResultWhole
  <2> QED BY <2>2, <2>3
<1> QED BY <1>4, <1>5, <1>6 DEF UdpInv

\* Calls that return without a datagram, or have not got that far.
LEMMA OtherCallStep ==
  ASSUME UdpInv,
         UNCHANGED <<queue, arrivals, taken>>,
         pc' \in {"idle", "poll", "recvmsg"}, timed' \in BOOLEAN,
         outcome' = outcome \/ outcome'.code # "Ok"
  PROVE  UdpInv'
BY DEF UdpInv, UdpTypes, KeptInOrder, Kept, ResultWhole

\* The invariant of receive(): what was taken and what is queued are, in
\* order, datagrams that arrived, and an outcome is the last one taken, whole.
THEOREM UdpInvariance == UdpSpec => []UdpInv
<1>1. UdpInv /\ [UdpNext]_udpVars => UdpInv'
  <2> SUFFICES ASSUME UdpInv, [UdpNext]_udpVars PROVE UdpInv'
    OBVIOUS
  <2>0. UdpTypes
    BY DEF UdpInv
  <2>1. ASSUME NEW bytes \in DatagramBytes, Arrive(bytes) PROVE UdpInv'
    BY <2>1, ArriveStep
  <2>2. ASSUME NEW hasTimeout \in BOOLEAN, Receive(hasTimeout) PROVE UdpInv'
    BY <2>0, <2>2, OtherCallStep DEF Receive, UdpTypes
  <2>3. CASE PollOtherEvent \/ PollReady \/ PollTimeout
    BY <2>0, <2>3, OtherCallStep
       DEF PollOtherEvent, PollReady, PollTimeout, Return, Failed, UdpTypes
  <2>4. ASSUME NEW errno, SystemCallFails(errno) PROVE UdpInv'
    BY <2>0, <2>4, OtherCallStep DEF SystemCallFails, Return, Failed, UdpTypes
  <2>5. CASE RecvMsg
    BY <2>5, RecvMsgStep
  <2>6. CASE UNCHANGED udpVars
    BY <2>0, <2>6, OtherCallStep DEF udpVars, UdpTypes
  <2> QED BY <2>1, <2>2, <2>3, <2>4, <2>5, <2>6 DEF UdpNext, Call
<1> QED BY <1>1, InitUdpInv, PTL DEF UdpSpec

\* receive() hands out whole datagrams, once each and in order of arrival,
\* whatever the kernel drops and whichever system call fails.
THEOREM ReceiveWholeAndInOrder == UdpSpec => []WholeAndInOrder
<1>1. UdpInv => WholeAndInOrder
  BY DEF UdpInv, KeptInOrder, Kept, ResultWhole, WholeAndInOrder
<1> QED BY <1>1, UdpInvariance, PTL
=============================================================================
