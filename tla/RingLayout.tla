----------------------------- MODULE RingLayout -----------------------------
(***************************************************************************)
(* The arithmetic of the ring's memory layout, SpscRing::required_bytes(). *)
(* Sizes are std::size_t values, so sums and products wrap at MaxSize;     *)
(* slot counts and strides are std::uint32_t.                              *)
(***************************************************************************)
EXTENDS Alignment

CONSTANTS
  HeaderBytes,        \* ring_header_bytes, 192
  SlotMetadataBytes,  \* ring_slot_metadata_bytes, 32
  CacheLineBytes,     \* ring_cache_line_bytes, 64
  MaxU32,             \* numeric_limits<uint32_t>::max()
  MaxSize             \* numeric_limits<size_t>::max()

\* A 64-bit size_t: one slot of any capacity fits it with room to spare,
\* which is what align_up() asks of its caller.
ASSUME LayoutAssumption ==
  /\ HeaderBytes \in Nat /\ MaxU32 \in Nat /\ MaxSize \in Nat
  /\ SlotMetadataBytes \in Nat \ {0} /\ CacheLineBytes \in Nat \ {0}
  /\ HeaderBytes <= MaxSize
  /\ SlotMetadataBytes + MaxU32 + CacheLineBytes <= MaxSize

\* RingConfig.
Config == [slots : 0..MaxU32, capacity : 0..MaxU32]

Stride(config) == AlignUp(SlotMetadataBytes + config.capacity, CacheLineBytes)

\* n & (n - 1) = 0, for a number that is not zero: no odd factor but 1.
PowerOfTwo(n) == \A d \in 3..n : d % 2 = 1 => n % d # 0

\* Fault: the stride, which the header keeps in 32 bits, is not checked.
RequiredBytesErrorUnchecked(config) ==
  IF config.slots < 2 \/ ~PowerOfTwo(config.slots) THEN "InvalidConfig"
  ELSE IF config.slots > (MaxSize - HeaderBytes) \div Stride(config) THEN "SizeOverflow"
  ELSE "None"

\* Why required_bytes() refuses a configuration, or "None".  The second
\* check cannot fire where MaxSize is 2^64 - 1 and MaxU32 is 2^32 - 1.
RequiredBytesError(config) ==
  IF config.slots < 2 \/ ~PowerOfTwo(config.slots) THEN "InvalidConfig"
  ELSE IF Stride(config) > MaxU32
            \/ config.slots > (MaxSize - HeaderBytes) \div Stride(config)
       THEN "SizeOverflow"
  ELSE "None"

\* What it returns otherwise.
RequiredBytes(config) ==
  (HeaderBytes + Stride(config) * config.slots) % (MaxSize + 1)
=============================================================================
