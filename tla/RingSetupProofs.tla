---------------------------- MODULE RingSetupProofs ----------------------------
(***************************************************************************)
(* Proofs about RingSetup, for every layout, integer width, configuration  *)
(* and number of handles.                                                  *)
(*                                                                         *)
(* The invariant follows the construction: until initialize() has stored   *)
(* Ready there is no handle and no state that attach() accepts; a store it *)
(* accepts carries the whole construction; from then on the preamble does  *)
(* not change, so what attach() validated is what its handle reads again.  *)
(* Who was told that the ring is there can only load such a store.         *)
(***************************************************************************)
EXTENDS RingSetup, TLAPS

\* An SpscRing object, and the plain fields of a preamble.
HandleType ==
  [header : BOOLEAN, slots : Nat, stride : Nat, capacity : Nat,
   acquired : BOOLEAN, acquiredPos : Nat, initializer : BOOLEAN]
PreambleType ==
  [known : BOOLEAN, segmentBytes : Nat, slots : 0..MaxU32, stride : Nat, capacity : 0..MaxU32]
StoreType == [value : State, carries : 0..SetupSteps]

SetupTypes ==
  /\ mapped \in 0..MaxSize /\ fresh \in BOOLEAN
  /\ preamble \in PreambleType /\ config \in Config
  /\ stores \in Seq(StoreType) /\ stores # << >>
  /\ writePos \in Nat /\ readPos \in Nat
  /\ cPc \in {"idle", "header", "preamble", "slots", "ready", "done", "gone"}
  /\ aPc \in {"idle", "loadState", "validate", "construct"}
  /\ built \in 0..SetupSteps /\ aKnows \in 0..SetupSteps
  /\ aSeen \in 1..Len(stores) /\ told \in BOOLEAN
  /\ handle \in [Object -> HandleType]

\* initialize() has not stored Ready, and its process lives.
Unfinished == cPc \in {"idle", "header", "preamble", "slots", "ready"}

\* The states that attach() accepts.
Accepted(value) == value \in {"Ready", "Closed"}

GoodPreamble == PreambleError(preamble) = "None"

\* How far the construction is, and what its stores carry.
BuildInv ==
  /\ Unfinished => fresh /\ \A o \in Object : ~handle[o].header
  /\ cPc \in {"ready", "done"} => built = SetupSteps
  /\ cPc = "done" => Accepted(stores[Len(stores)].value)
  /\ \A i \in 1..Len(stores) :
       /\ Accepted(stores[i].value) =>
            stores[i].carries = SetupSteps /\ built = SetupSteps /\ ~Unfinished
       /\ fresh => stores[i].value # "Other"

\* When the preamble is known to be good: for initialize()'s own ring since
\* it was filled, for another one after validation.
GeometryInv ==
  /\ cPc \in {"header", "preamble"} =>
       /\ RequiredBytesError(config) = "None" /\ mapped = RequiredBytes(config)
       /\ HeaderBytes <= mapped
  /\ cPc \in {"slots", "ready", "done"} => GoodPreamble
  /\ \A i \in 1..Len(stores) : fresh /\ Accepted(stores[i].value) => GoodPreamble
  /\ \A o \in Object : handle[o].header =>
       /\ GoodPreamble
       /\ handle[o].slots = preamble.slots /\ handle[o].stride = preamble.stride
       /\ handle[o].capacity = preamble.capacity

\* Who was told that initialize() is complete reads only states that
\* attach() accepts.
ToldInv ==
  told => /\ ~Unfinished
          /\ \A i \in aSeen..Len(stores) : Accepted(stores[i].value)

\* Where attach() is.
AttachInv ==
  /\ aPc \in {"validate", "construct"} =>
       /\ aKnows = SetupSteps /\ built = SetupSteps /\ ~Unfinished
       /\ fresh => GoodPreamble
  /\ aPc = "construct" => GoodPreamble
  /\ aPc # "idle" => \A o \in AttacherObject : ~handle[o].header
  /\ ToldInv
  /\ GoodRingAccepted

\* Each side has one handle on the ring; rights stay on their side.
RightsInv ==
  /\ \A o, p \in CreatorObject : handle[o].header /\ handle[p].header => o = p
  /\ \A o, p \in AttacherObject : handle[o].header /\ handle[p].header => o = p
  /\ \A o \in Object : handle[o].initializer =>
       handle[o].header /\ o \in CreatorObject /\ built = SetupSteps
  /\ \A o \in Object : handle[o].acquired =>
       /\ handle[o].header /\ o \in AttacherObject
       /\ handle[o].acquiredPos = readPos /\ readPos < writePos
  /\ readPos <= writePos

SetupInv == SetupTypes /\ BuildInv /\ GeometryInv /\ AttachInv /\ RightsInv
-----------------------------------------------------------------------------
(***************************************************************************)
(* The layout's arithmetic.                                                *)
(***************************************************************************)

\* align_up() rounds up: the result holds the value.
LEMMA AlignUpHolds ==
  ASSUME NEW v \in Nat, NEW a \in Nat \ {0}
  PROVE  AlignUp(v, a) \in Nat /\ v <= AlignUp(v, a)
<1>1. v % a \in 0..(a - 1)
  OBVIOUS
<1> QED BY <1>1 DEF AlignUp

\* The overflow check by division bounds the product.
LEMMA DivideBound ==
  ASSUME NEW m \in Nat, NEW s \in Nat \ {0}, NEW k \in Nat, k <= m \div s
  PROVE  s * k \in Nat /\ s * k <= m
<1>1. m \div s \in Nat /\ m % s \in Nat /\ m = s * (m \div s) + (m % s)
  OBVIOUS
<1>2. \A x, y \in Nat : x <= y => s * x <= s * y
  OBVIOUS
<1>3. s * k <= s * (m \div s)
  BY <1>1, <1>2
<1>4. s * (m \div s) \in Nat /\ s * k \in Nat
  BY <1>1
<1> QED BY <1>1, <1>3, <1>4

\* A product that did not wrap divides back.
LEMMA DivideExact ==
  ASSUME NEW s \in Nat, NEW k \in Nat \ {0}
  PROVE  (s * k) \div k = s
OBVIOUS

\* A configuration that required_bytes() accepts has slots that hold their
\* metadata and payload, and a size that did not wrap.
LEMMA RequiredBytesExact ==
  ASSUME NEW c \in Config, RequiredBytesError(c) = "None"
  PROVE  /\ c.slots >= 2 /\ Stride(c) \in Nat /\ Stride(c) <= MaxU32
         /\ SlotMetadataBytes + c.capacity <= Stride(c)
         /\ RequiredBytes(c) = HeaderBytes + c.slots * Stride(c)
         /\ (RequiredBytes(c) - HeaderBytes) \div c.slots = Stride(c)
         /\ RequiredBytes(c) \in Nat /\ HeaderBytes <= RequiredBytes(c)
<1>1. c.slots \in Nat /\ c.capacity \in Nat
  BY LayoutAssumption DEF Config
<1>2. Stride(c) \in Nat \ {0} /\ SlotMetadataBytes + c.capacity <= Stride(c)
  <2>1. SlotMetadataBytes + c.capacity \in Nat \ {0}
    BY <1>1, LayoutAssumption
  <2>2. Stride(c) \in Nat /\ SlotMetadataBytes + c.capacity <= Stride(c)
    BY <2>1, LayoutAssumption, AlignUpHolds DEF Stride
  <2> QED BY <2>1, <2>2
<1>3. c.slots >= 2 /\ c.slots <= (MaxSize - HeaderBytes) \div Stride(c)
  <2>1. ~(c.slots < 2) /\ ~(c.slots > (MaxSize - HeaderBytes) \div Stride(c))
    BY DEF RequiredBytesError
  <2>2. MaxSize - HeaderBytes \in Nat
    BY LayoutAssumption
  <2>3. (MaxSize - HeaderBytes) \div Stride(c) \in Nat
    BY <1>2, <2>2
  <2> QED BY <1>1, <2>1, <2>3
<1>4. Stride(c) * c.slots \in Nat /\ Stride(c) * c.slots <= MaxSize - HeaderBytes
  <2>1. MaxSize - HeaderBytes \in Nat
    BY LayoutAssumption
  <2> QED BY <1>1, <1>2, <1>3, <2>1, DivideBound
<1>5. RequiredBytes(c) = HeaderBytes + Stride(c) * c.slots
  <2>1. HeaderBytes + Stride(c) * c.slots \in Nat /\ HeaderBytes + Stride(c) * c.slots <= MaxSize
    BY <1>4, LayoutAssumption
  <2>2. \A x \in Nat : x <= MaxSize => x % (MaxSize + 1) = x
    BY LayoutAssumption
  <2> QED BY <2>1, <2>2 DEF RequiredBytes
<1>6. Stride(c) * c.slots = c.slots * Stride(c)
  BY <1>1, <1>2
<1>7. (Stride(c) * c.slots) \div c.slots = Stride(c)
  BY <1>1, <1>2, <1>3, DivideExact
<1>8. RequiredBytes(c) - HeaderBytes = Stride(c) * c.slots
  BY <1>4, <1>5, LayoutAssumption
<1>9. Stride(c) <= MaxU32
  <2>1. ~(Stride(c) > MaxU32)
    BY DEF RequiredBytesError
  <2> QED BY <1>2, <2>1, LayoutAssumption
<1> QED BY <1>2, <1>3, <1>4, <1>5, <1>6, <1>7, <1>8, <1>9, LayoutAssumption

\* What attach() makes sure of by validating the preamble.
LEMMA GoodGeometry ==
  ASSUME SetupTypes, GoodPreamble
  PROVE  /\ preamble.slots >= 2
         /\ HeaderBytes + preamble.slots * preamble.stride <= mapped
         /\ SlotMetadataBytes + preamble.capacity <= preamble.stride
<1> DEFINE c == [slots |-> preamble.slots, capacity |-> preamble.capacity]
<1>1. c \in Config /\ c.slots = preamble.slots /\ c.capacity = preamble.capacity
  BY DEF SetupTypes, PreambleType, Config
<1>2. /\ RequiredBytesError(c) = "None" /\ mapped = RequiredBytes(c)
      /\ preamble.stride = (RequiredBytes(c) - HeaderBytes) \div preamble.slots
  BY DEF GoodPreamble, PreambleError
<1> HIDE DEF c
<1>3. /\ c.slots >= 2 /\ Stride(c) \in Nat
      /\ SlotMetadataBytes + c.capacity <= Stride(c)
      /\ RequiredBytes(c) = HeaderBytes + c.slots * Stride(c)
      /\ (RequiredBytes(c) - HeaderBytes) \div c.slots = Stride(c)
  BY <1>1, <1>2, RequiredBytesExact
<1>4. preamble.stride = Stride(c)
  BY <1>1, <1>2, <1>3
<1>5. mapped \in Int
  BY LayoutAssumption DEF SetupTypes
<1> QED BY <1>1, <1>2, <1>3, <1>4, <1>5

\* The invariant implies the four properties.
LEMMA SetupImplies ==
  ASSUME SetupInv
  PROVE  AttachAfterSetup /\ SlotsInsideMapping /\ GoodRingAccepted /\ RightsMovedNotCopied
<1> USE DEF SetupInv
<1>1. AttachAfterSetup /\ GoodRingAccepted
  BY DEF AttachInv, AttachAfterSetup
<1>2. SlotsInsideMapping
  BY GoodGeometry DEF GeometryInv, SlotsInsideMapping
<1>3. RightsMovedNotCopied
  BY DEF RightsInv, RightsMovedNotCopied
<1> QED BY <1>1, <1>2, <1>3

\* A handle after a move, or before any, has no rights.
LEMMA NullFacts ==
  /\ Null \in HandleType
  /\ ~Null.header /\ ~Null.acquired /\ ~Null.initializer
BY DEF Null, HandleType

\* No handle yet, and nothing stored by a creator.
LEMMA InitSetup == Init => SetupInv
<1> SUFFICES ASSUME Init PROVE SetupInv
  OBVIOUS
<1>1. \A o \in Object : handle[o] = Null
  BY DEF Init
<1>2. handle \in [Object -> HandleType]
  BY NullFacts DEF Init
<1>3. config \in Config /\ mapped \in 0..MaxSize
  BY LayoutAssumption, SetupAssumption DEF Init, Config
<1>4. PICK v \in State, k \in 0..SetupSteps :
        /\ stores = <<[value |-> v, carries |-> k]>>
        /\ \/ fresh = TRUE /\ cPc = "idle" /\ built = 0 /\ v = "Uninitialized"
           \/ fresh = FALSE /\ cPc = "gone" /\ built = SetupSteps /\ k = SetupSteps
  BY DEF Init, State, SetupSteps
<1>5. /\ stores \in Seq(StoreType) /\ stores # << >> /\ Len(stores) = 1
      /\ \A i \in 1..Len(stores) : stores[i].value = v /\ stores[i].carries = k
  BY <1>4 DEF StoreType
<1>6. preamble \in PreambleType
  <2>1. ZeroPreamble \in PreambleType
    BY LayoutAssumption DEF ZeroPreamble, PreambleType
  <2>2. Preamble \subseteq PreambleType
    <3>1. /\ \A x \in Sizes : x \in Nat
          /\ \A x \in Strides : x \in Nat
          /\ \A x \in SlotCounts : x \in 0..MaxU32
          /\ \A x \in Capacities : x \in 0..MaxU32
      BY LayoutAssumption, SetupAssumption
    <3> QED BY <3>1 DEF Preamble, PreambleType
  <2> QED BY <2>1, <2>2 DEF Init
<1>7. SetupTypes
  <2>1. fresh \in BOOLEAN
    BY <1>4
  <2>2. /\ writePos \in Nat /\ readPos \in Nat /\ aPc = "idle" /\ told \in BOOLEAN
        /\ cPc \in {"idle", "header", "preamble", "slots", "ready", "done", "gone"}
    BY <1>4 DEF Init
  <2>3. built \in 0..SetupSteps /\ aKnows \in 0..SetupSteps /\ aSeen \in 1..Len(stores)
    BY <1>4, <1>5 DEF Init, SetupSteps
  <2> QED BY <1>2, <1>3, <1>5, <1>6, <2>1, <2>2, <2>3 DEF SetupTypes
<1>8. BuildInv
  BY <1>1, <1>4, <1>5, NullFacts DEF BuildInv, Unfinished, Accepted
<1>9. GeometryInv
  BY <1>1, <1>4, <1>5, NullFacts DEF GeometryInv, Accepted
<1>10. AttachInv
  BY DEF Init, AttachInv, ToldInv, GoodRingAccepted
<1>11. RightsInv
  BY <1>1, NullFacts DEF Init, RightsInv, Object
<1> QED BY <1>7, <1>8, <1>9, <1>10, <1>11 DEF SetupInv

-----------------------------------------------------------------------------
(***************************************************************************)
(* The steps of initialize() and the death of its process.                 *)
(***************************************************************************)

LEMMA GoodPreambleKept ==
  ASSUME UNCHANGED <<mapped, preamble>>
  PROVE  GoodPreamble' <=> GoodPreamble
BY DEF GoodPreamble, PreambleError

\* A store of preamble.state comes last in its modification order.
LEMMA StoreFacts ==
  ASSUME SetupTypes, NEW v \in State, NEW order, Store(v, order)
  PROVE  \E k \in 0..SetupSteps :
           /\ k = IF order = "release" THEN built ELSE 0
           /\ stores' \in Seq(StoreType) /\ stores' # << >>
           /\ Len(stores') = Len(stores) + 1 /\ Len(stores) \in Nat
           /\ \A i \in 1..Len(stores) : stores'[i] = stores[i]
           /\ stores'[Len(stores) + 1].value = v /\ stores'[Len(stores) + 1].carries = k
<1>1. stores \in Seq(StoreType) /\ built \in 0..SetupSteps
  BY DEF SetupTypes
<1>2. PICK k \in 0..SetupSteps : k = IF order = "release" THEN built ELSE 0
  BY <1>1 DEF SetupSteps
<1> DEFINE r == [value |-> v, carries |-> k]
<1>3. r \in StoreType /\ r.value = v /\ r.carries = k
  BY <1>2 DEF StoreType
<1>4. stores' = Append(stores, r)
  BY <1>2 DEF Store
<1> HIDE DEF r
<1> QED BY <1>1, <1>2, <1>3, <1>4

\* initialize() checks its arguments and begins the construction.
LEMMA CallInitializeStep ==
  ASSUME SetupInv, NEW s \in SlotCounts, NEW n \in Capacities, NEW id \in {0, 1},
         CallInitialize([slots |-> s, capacity |-> n], id)
  PROVE  SetupInv'
<1> DEFINE c == [slots |-> s, capacity |-> n]
<1>1. c \in Config
  BY SetupAssumption DEF Config
<1>2. /\ UNCHANGED <<mapped, fresh, preamble, stores, writePos, readPos, built,
                     aPc, aSeen, aKnows, aResult, told, handle>>
      /\ cPc = "idle"
      /\ \/ cPc' = cPc /\ config' = config
         \/ cPc' = "header" /\ config' = c /\ InitializeError(c, id) = "None"
  BY DEF CallInitialize, memory, segment, cursors, attacher
<1> HIDE DEF c
<1>3. cPc' = "header" => /\ RequiredBytesError(config') = "None"
                         /\ mapped' = RequiredBytes(config') /\ HeaderBytes <= mapped'
  <2>1. mapped \in Int /\ HeaderBytes \in Int
    BY LayoutAssumption DEF SetupInv, SetupTypes
  <2>2. ASSUME InitializeError(c, id) = "None"
        PROVE  /\ RequiredBytesError(c) = "None" /\ mapped = RequiredBytes(c)
               /\ HeaderBytes <= mapped
    BY <2>1, <2>2 DEF InitializeError
  <2> QED BY <1>2, <2>2
<1>4. SetupTypes'
  BY <1>1, <1>2 DEF SetupInv, SetupTypes
<1>5. (GoodPreamble' <=> GoodPreamble) /\ (Unfinished' <=> Unfinished)
  BY <1>2, GoodPreambleKept DEF Unfinished
<1>6. BuildInv'
  BY <1>2, <1>5 DEF SetupInv, BuildInv
<1>7. GeometryInv'
  BY <1>2, <1>3, <1>5 DEF SetupInv, GeometryInv
<1>8. AttachInv'
  BY <1>2, <1>5 DEF SetupInv, AttachInv, ToldInv, GoodRingAccepted
<1>9. RightsInv'
  BY <1>2 DEF SetupInv, RightsInv
<1> QED BY <1>4, <1>6, <1>7, <1>8, <1>9 DEF SetupInv

\* construct_at() zeroes a header that nobody has accepted.
LEMMA ConstructHeaderStep ==
  ASSUME SetupInv, ConstructHeader
  PROVE  SetupInv'
<1>1. SetupTypes /\ BuildInv /\ GeometryInv /\ AttachInv /\ RightsInv
  BY DEF SetupInv
<1>2. /\ cPc = "header" /\ cPc' = "preamble" /\ built' = 1 /\ preamble' = ZeroPreamble
      /\ Store("Uninitialized", "relaxed")
      /\ UNCHANGED <<mapped, fresh, writePos, readPos, config, cResult,
                     aPc, aSeen, aKnows, aResult, told, handle>>
  BY DEF ConstructHeader, segment, cursors, attacher
<1>3. PICK k \in 0..SetupSteps :
        /\ stores' \in Seq(StoreType) /\ stores' # << >>
        /\ Len(stores') = Len(stores) + 1 /\ Len(stores) \in Nat
        /\ \A i \in 1..Len(stores) : stores'[i] = stores[i]
        /\ stores'[Len(stores) + 1].value = "Uninitialized"
  BY <1>1, <1>2, StoreFacts DEF State
<1>4. \A i \in 1..Len(stores') :
        i \in 1..Len(stores) \/ stores'[i].value = "Uninitialized"
  BY <1>3
<1>5. Unfinished /\ Unfinished' /\ ~told
  BY <1>1, <1>2 DEF Unfinished, AttachInv, ToldInv
<1>6. /\ \A o \in Object : ~handle[o].header
      /\ aPc \notin {"validate", "construct"}
      /\ \A i \in 1..Len(stores) : ~Accepted(stores[i].value)
  BY <1>1, <1>5 DEF BuildInv, AttachInv
<1>7. \A i \in 1..Len(stores') : ~Accepted(stores'[i].value)
  BY <1>3, <1>4, <1>6 DEF Accepted
<1>8. SetupTypes'
  <2>1. built' \in 0..SetupSteps /\ aSeen' \in 1..Len(stores')
    BY <1>1, <1>2, <1>3 DEF SetupTypes, SetupSteps
  <2>2. ZeroPreamble \in PreambleType
    BY LayoutAssumption DEF ZeroPreamble, PreambleType
  <2> QED BY <1>1, <1>2, <1>3, <2>1, <2>2 DEF SetupTypes
<1>9. BuildInv'
  <2>1. \A i \in 1..Len(stores') : fresh => stores'[i].value # "Other"
    BY <1>1, <1>3, <1>4 DEF BuildInv
  <2> QED BY <1>1, <1>2, <1>5, <1>6, <1>7, <2>1 DEF BuildInv
<1>10. GeometryInv'
  BY <1>1, <1>2, <1>6, <1>7 DEF GeometryInv
<1>11. AttachInv'
  BY <1>1, <1>2, <1>5, <1>6 DEF AttachInv, ToldInv, GoodRingAccepted, Object
<1>12. RightsInv'
  BY <1>1, <1>2, <1>6 DEF RightsInv
<1> QED BY <1>8, <1>9, <1>10, <1>11, <1>12 DEF SetupInv

\* fill_preamble() writes a preamble that attach() will accept.
LEMMA FillPreambleStep ==
  ASSUME SetupInv, FillPreamble
  PROVE  SetupInv'
<1>1. SetupTypes /\ BuildInv /\ GeometryInv /\ AttachInv /\ RightsInv
  BY DEF SetupInv
<1>2. /\ cPc = "preamble" /\ cPc' = "slots" /\ built' = 2 /\ preamble' = FilledPreamble
      /\ Store("Initializing", "relaxed")
      /\ UNCHANGED <<mapped, fresh, writePos, readPos, config, cResult,
                     aPc, aSeen, aKnows, aResult, told, handle>>
  BY DEF FillPreamble, segment, cursors, attacher
<1>3. PICK k \in 0..SetupSteps :
        /\ stores' \in Seq(StoreType) /\ stores' # << >>
        /\ Len(stores') = Len(stores) + 1 /\ Len(stores) \in Nat
        /\ \A i \in 1..Len(stores) : stores'[i] = stores[i]
        /\ stores'[Len(stores) + 1].value = "Initializing"
  BY <1>1, <1>2, StoreFacts DEF State
<1>4. \A i \in 1..Len(stores') :
        i \in 1..Len(stores) \/ stores'[i].value = "Initializing"
  BY <1>3
<1>5. /\ config \in Config /\ RequiredBytesError(config) = "None"
      /\ mapped = RequiredBytes(config) /\ HeaderBytes <= mapped
      /\ mapped \in Nat /\ HeaderBytes \in Nat
  BY <1>1, <1>2, LayoutAssumption DEF SetupTypes, GeometryInv
<1>6. /\ config.slots \in 0..MaxU32 /\ config.capacity \in 0..MaxU32
      /\ config = [slots |-> config.slots, capacity |-> config.capacity]
  BY <1>5 DEF Config
<1>7. /\ config.slots >= 2 /\ (mapped - HeaderBytes) \div config.slots \in Nat
      /\ ((mapped - HeaderBytes) \div config.slots) % (MaxU32 + 1)
           = (mapped - HeaderBytes) \div config.slots
  <2>1. config.slots >= 2 /\ (mapped - HeaderBytes) \div config.slots = Stride(config)
        /\ Stride(config) \in Nat /\ Stride(config) <= MaxU32
    BY <1>5, RequiredBytesExact
  <2>2. \A x \in Nat : x <= MaxU32 => x % (MaxU32 + 1) = x
    BY LayoutAssumption
  <2> QED BY <2>1, <2>2
<1>8. /\ preamble' \in PreambleType /\ preamble'.known = TRUE
      /\ preamble'.segmentBytes = mapped /\ preamble'.slots = config.slots
      /\ preamble'.capacity = config.capacity
      /\ preamble'.stride = (mapped - HeaderBytes) \div config.slots
  BY <1>2, <1>5, <1>6, <1>7 DEF FilledPreamble, PreambleType
<1>9. GoodPreamble'
  <2>1. [slots |-> preamble'.slots, capacity |-> preamble'.capacity] = config
    BY <1>6, <1>8
  <2> QED BY <1>2, <1>5, <1>8, <2>1 DEF GoodPreamble, PreambleError
<1>10. \A o \in Object : ~handle[o].header
  BY <1>1, <1>2 DEF BuildInv, Unfinished
<1>11. \A i \in 1..Len(stores) : ~Accepted(stores[i].value)
  BY <1>1, <1>2 DEF BuildInv, Unfinished
<1>12. \A i \in 1..Len(stores') : ~Accepted(stores'[i].value)
  BY <1>3, <1>4, <1>11 DEF Accepted
<1>13. aPc \notin {"validate", "construct"}
  BY <1>1, <1>2 DEF AttachInv, Unfinished
<1>14. SetupTypes'
  <2>1. built' \in 0..SetupSteps /\ aSeen' \in 1..Len(stores')
    BY <1>1, <1>2, <1>3 DEF SetupTypes, SetupSteps
  <2> QED BY <1>1, <1>2, <1>3, <1>8, <2>1 DEF SetupTypes
<1>15. BuildInv'
  <2>1. \A i \in 1..Len(stores') : fresh => stores'[i].value # "Other"
    BY <1>1, <1>3, <1>4 DEF BuildInv
  <2>2. Unfinished
    BY <1>2 DEF Unfinished
  <2> QED BY <1>1, <1>2, <1>10, <1>12, <2>1, <2>2 DEF BuildInv
<1>16. GeometryInv'
  BY <1>2, <1>9, <1>10, <1>12 DEF GeometryInv
<1>17. AttachInv'
  <2>1. ~told
    BY <1>1, <1>2 DEF AttachInv, ToldInv, Unfinished
  <2> QED BY <1>1, <1>2, <1>10, <1>13, <2>1 DEF AttachInv, ToldInv, GoodRingAccepted, Object
<1>18. RightsInv'
  BY <1>1, <1>2, <1>10 DEF RightsInv
<1> QED BY <1>14, <1>15, <1>16, <1>17, <1>18 DEF SetupInv

\* The construction of cursors and slots.
LEMMA ConstructSlotsStep ==
  ASSUME SetupInv, ConstructSlots
  PROVE  SetupInv'
<1>1. SetupTypes /\ BuildInv /\ GeometryInv /\ AttachInv /\ RightsInv
  BY DEF SetupInv
<1>2. /\ cPc = "slots" /\ cPc' = "ready" /\ built' = SetupSteps
      /\ writePos' = 0 /\ readPos' = 0
      /\ UNCHANGED <<mapped, fresh, preamble, stores, config, cResult,
                     aPc, aSeen, aKnows, aResult, told, handle>>
  BY DEF ConstructSlots, segment, attacher
<1>3. GoodPreamble' <=> GoodPreamble
  BY <1>2, GoodPreambleKept
<1>4. /\ \A o \in Object : ~handle[o].header
      /\ \A i \in 1..Len(stores) : ~Accepted(stores[i].value)
      /\ aPc \notin {"validate", "construct"} /\ Unfinished
  BY <1>1, <1>2 DEF BuildInv, Unfinished, AttachInv
<1>5. SetupTypes'
  BY <1>1, <1>2 DEF SetupTypes, SetupSteps
<1>6. BuildInv'
  BY <1>1, <1>2, <1>4 DEF BuildInv
<1>7. GeometryInv'
  BY <1>1, <1>2, <1>3, <1>4 DEF GeometryInv
<1>8. AttachInv'
  BY <1>1, <1>2, <1>4 DEF AttachInv, ToldInv, GoodRingAccepted, Object
<1>9. RightsInv'
  BY <1>1, <1>2, <1>4 DEF RightsInv
<1> QED BY <1>5, <1>6, <1>7, <1>8, <1>9 DEF SetupInv

\* A constructed handle copies the geometry of the preamble.
LEMMA NewHandleFacts ==
  ASSUME NEW p \in PreambleType, NEW init \in BOOLEAN
  PROVE  /\ NewHandle(p, init) \in HandleType
         /\ NewHandle(p, init).header
         /\ NewHandle(p, init).slots = p.slots /\ NewHandle(p, init).stride = p.stride
         /\ NewHandle(p, init).capacity = p.capacity
         /\ NewHandle(p, init).initializer = init /\ ~NewHandle(p, init).acquired
<1>1. p.slots \in Nat /\ p.stride \in Nat /\ p.capacity \in Nat
  BY LayoutAssumption DEF PreambleType
<1> QED BY <1>1 DEF NewHandle, Null, HandleType

\* The release store of Ready, which ends initialize().
LEMMA StoreReadyStep ==
  ASSUME SetupInv, NEW o \in CreatorObject, StoreReady(o)
  PROVE  SetupInv'
<1>1. SetupTypes /\ BuildInv /\ GeometryInv /\ AttachInv /\ RightsInv
  BY DEF SetupInv
<1>2. /\ cPc = "ready" /\ cPc' = "done" /\ Store("Ready", "release")
      /\ handle' = [handle EXCEPT ![o] = NewHandle(preamble, TRUE)]
      /\ UNCHANGED <<mapped, fresh, preamble, writePos, readPos, config, built,
                     aPc, aSeen, aKnows, aResult, told>>
  BY DEF StoreReady, ReadyStoreOrder, segment, cursors, attacher
<1>3. PICK k \in 0..SetupSteps :
        /\ k = built
        /\ stores' \in Seq(StoreType) /\ stores' # << >>
        /\ Len(stores') = Len(stores) + 1 /\ Len(stores) \in Nat
        /\ \A i \in 1..Len(stores) : stores'[i] = stores[i]
        /\ stores'[Len(stores) + 1].value = "Ready" /\ stores'[Len(stores) + 1].carries = k
  BY <1>1, <1>2, StoreFacts DEF State
<1>4. \A i \in 1..Len(stores') : i \in 1..Len(stores) \/ i = Len(stores) + 1
  BY <1>3
<1>5. built = SetupSteps /\ fresh /\ GoodPreamble /\ Unfinished
  BY <1>1, <1>2 DEF BuildInv, GeometryInv, Unfinished
<1>6. GoodPreamble' /\ ~Unfinished'
  BY <1>2, <1>5, GoodPreambleKept DEF Unfinished
<1> DEFINE e == NewHandle(preamble, TRUE)
<1>7. /\ e \in HandleType /\ e.header /\ e.slots = preamble.slots /\ e.stride = preamble.stride
      /\ e.capacity = preamble.capacity /\ e.initializer /\ ~e.acquired
  BY <1>1, NewHandleFacts DEF SetupTypes
<1>8. handle' = [handle EXCEPT ![o] = e]
  BY <1>2
<1> HIDE DEF e
<1>9. /\ handle'[o] = e /\ \A p \in Object : p # o => handle'[p] = handle[p]
      /\ handle' \in [Object -> HandleType] /\ o \in Object
  BY <1>1, <1>7, <1>8 DEF SetupTypes, Object
<1>10. \A p \in Object : ~handle[p].header
  BY <1>1, <1>5 DEF BuildInv
<1>11. o \notin AttacherObject
  BY SetupAssumption
<1>12. aPc \notin {"validate", "construct"}
  BY <1>1, <1>5 DEF AttachInv
<1>13. SetupTypes'
  <2>1. aSeen' \in 1..Len(stores')
    BY <1>1, <1>2, <1>3 DEF SetupTypes
  <2> QED BY <1>1, <1>2, <1>3, <1>9, <2>1 DEF SetupTypes
<1>14. BuildInv'
  <2>1. \A i \in 1..Len(stores') :
          /\ Accepted(stores'[i].value) => stores'[i].carries = SetupSteps
          /\ fresh => stores'[i].value # "Other"
    BY <1>1, <1>3, <1>4, <1>5 DEF BuildInv
  <2>2. Accepted(stores'[Len(stores')].value)
    BY <1>3 DEF Accepted
  <2> QED BY <1>2, <1>5, <1>6, <2>1, <2>2 DEF BuildInv
<1>15. GeometryInv'
  BY <1>1, <1>2, <1>6, <1>7, <1>9, <1>10 DEF GeometryInv
<1>16. AttachInv'
  <2>1. \A p \in AttacherObject : ~handle'[p].header
    BY <1>9, <1>10, <1>11 DEF Object
  <2>2. ~told
    BY <1>1, <1>5 DEF AttachInv, ToldInv
  <2> QED BY <1>1, <1>2, <1>12, <2>1, <2>2 DEF AttachInv, ToldInv, GoodRingAccepted
<1>17. RightsInv'
  <2>1. \A p \in Object : p # o => ~handle'[p].header /\ ~handle'[p].initializer /\ ~handle'[p].acquired
    BY <1>1, <1>9, <1>10 DEF RightsInv
  <2> QED BY <1>1, <1>2, <1>5, <1>7, <1>9, <1>11, <2>1 DEF RightsInv, Object
<1> QED BY <1>13, <1>14, <1>15, <1>16, <1>17 DEF SetupInv

\* The handles of the dead creator go, the others stay.
LEMMA CrashCreatorStep ==
  ASSUME SetupInv, CrashCreator
  PROVE  SetupInv'
<1>1. SetupTypes /\ BuildInv /\ GeometryInv /\ AttachInv /\ RightsInv
  BY DEF SetupInv
<1>2. /\ cPc' = "gone"
      /\ handle' = [o \in Object |-> IF o \in CreatorObject THEN Null ELSE handle[o]]
      /\ UNCHANGED <<mapped, fresh, preamble, stores, writePos, readPos, config, built,
                     aPc, aSeen, aKnows, aResult, told>>
  BY DEF CrashCreator, memory, segment, cursors, attacher
<1>3. /\ \A o \in Object : handle'[o] = handle[o] \/ handle'[o] = Null
      /\ handle' \in [Object -> HandleType]
  BY <1>1, <1>2, NullFacts DEF SetupTypes
<1>4. \A o \in Object : /\ handle'[o].header => handle[o].header /\ handle'[o] = handle[o]
                        /\ handle'[o].acquired => handle[o].acquired /\ handle'[o] = handle[o]
                        /\ handle'[o].initializer => handle[o].initializer /\ handle'[o] = handle[o]
  BY <1>3, NullFacts
<1>5. (GoodPreamble' <=> GoodPreamble) /\ ~Unfinished'
  BY <1>2, GoodPreambleKept DEF Unfinished
<1>6. SetupTypes'
  BY <1>1, <1>2, <1>3 DEF SetupTypes
<1>7. BuildInv'
  BY <1>1, <1>2, <1>5 DEF BuildInv
<1>8. GeometryInv'
  BY <1>1, <1>2, <1>4, <1>5 DEF GeometryInv
<1>9. AttachInv'
  BY <1>1, <1>2, <1>4, <1>5 DEF AttachInv, ToldInv, GoodRingAccepted, Object
<1>10. RightsInv'
  BY <1>1, <1>2, <1>4 DEF RightsInv, Object
<1> QED BY <1>6, <1>7, <1>8, <1>9, <1>10 DEF SetupInv

-----------------------------------------------------------------------------
(***************************************************************************)
(* The steps of attach().                                                  *)
(***************************************************************************)

\* The creator's signal comes after its store of Ready.
LEMMA SignalStep ==
  ASSUME SetupInv, Signal
  PROVE  SetupInv'
<1>1. SetupTypes /\ BuildInv /\ GeometryInv /\ AttachInv /\ RightsInv
  BY DEF SetupInv
<1>2. /\ cPc = "done" /\ aPc = "idle" /\ aSeen' = Len(stores) /\ aKnows' = built
      /\ aResult' = "None" /\ told' = TRUE
      /\ UNCHANGED <<mapped, fresh, preamble, stores, writePos, readPos, config, built,
                     cPc, aPc, handle>>
  BY DEF Signal, memory, segment, cursors, creator
<1>3. (GoodPreamble' <=> GoodPreamble) /\ (Unfinished' <=> Unfinished) /\ ~Unfinished
  BY <1>2, GoodPreambleKept DEF Unfinished
<1>4. Len(stores) \in 1..Len(stores)
  BY <1>1 DEF SetupTypes
<1>5. SetupTypes'
  BY <1>1, <1>2, <1>4 DEF SetupTypes
<1>6. BuildInv'
  BY <1>1, <1>2, <1>3 DEF BuildInv
<1>7. GeometryInv'
  BY <1>1, <1>2, <1>3 DEF GeometryInv
<1>8. AttachInv'
  <2>1. \A i \in aSeen'..Len(stores') : i = Len(stores)
    BY <1>2, <1>4
  <2>2. ToldInv'
    BY <1>1, <1>2, <1>3, <2>1 DEF ToldInv, BuildInv
  <2> QED BY <1>2, <2>2 DEF AttachInv, GoodRingAccepted
<1>9. RightsInv'
  BY <1>1, <1>2 DEF RightsInv
<1> QED BY <1>5, <1>6, <1>7, <1>8, <1>9 DEF SetupInv

LEMMA CallAttachStep ==
  ASSUME SetupInv, CallAttach
  PROVE  SetupInv'
<1>1. SetupTypes /\ BuildInv /\ GeometryInv /\ AttachInv /\ RightsInv
  BY DEF SetupInv
<1>2. /\ \A o \in AttacherObject : ~handle[o].header
      /\ \/ mapped < HeaderBytes /\ aPc' = "idle" /\ aResult' = "InvalidMemory"
         \/ aPc' = "loadState" /\ aResult' = "None"
      /\ UNCHANGED <<mapped, fresh, preamble, stores, writePos, readPos, config, built,
                     cPc, aSeen, aKnows, told, handle>>
  BY DEF CallAttach, EndAttach, memory, segment, cursors, creator
<1>3. (GoodPreamble' <=> GoodPreamble) /\ (Unfinished' <=> Unfinished)
  BY <1>2, GoodPreambleKept DEF Unfinished
<1>4. SetupTypes'
  BY <1>1, <1>2 DEF SetupTypes
<1>5. BuildInv' /\ GeometryInv' /\ RightsInv'
  <2>1. BuildInv'
    BY <1>1, <1>2, <1>3 DEF BuildInv
  <2>2. GeometryInv'
    BY <1>1, <1>2, <1>3 DEF GeometryInv
  <2>3. RightsInv'
    BY <1>1, <1>2 DEF RightsInv
  <2> QED BY <2>1, <2>2, <2>3
<1>6. AttachInv'
  <2>1. mapped \in Int /\ HeaderBytes \in Int
    BY <1>1, LayoutAssumption DEF SetupTypes
  <2>2. GoodRingAccepted'
    BY <1>2, <2>1 DEF GoodRingAccepted
  <2> QED BY <1>1, <1>2, <1>3, <2>2 DEF AttachInv, ToldInv
<1> QED BY <1>4, <1>5, <1>6 DEF SetupInv

\* An accepted state brings the whole construction with it.
LEMMA LoadStateStep ==
  ASSUME SetupInv, LoadState
  PROVE  SetupInv'
<1>1. SetupTypes /\ BuildInv /\ GeometryInv /\ AttachInv /\ RightsInv
  BY DEF SetupInv
<1>2. /\ aPc = "loadState"
      /\ UNCHANGED <<mapped, fresh, preamble, stores, writePos, readPos, config, built,
                     cPc, told, handle>>
  BY DEF LoadState, memory, segment, cursors, creator
<1>3. PICK i \in aSeen..Len(stores) :
        /\ aSeen' = i
        /\ aKnows' = IF stores[i].carries > aKnows THEN stores[i].carries ELSE aKnows
        /\ Continue(StateError(stores[i].value), "validate")
  BY DEF LoadState, StateLoadOrder
<1>4. i \in 1..Len(stores) /\ aSeen \in 1..Len(stores)
  BY <1>1, <1>3 DEF SetupTypes
<1>5. stores[i] \in StoreType
  BY <1>1, <1>4 DEF SetupTypes
<1>6. stores[i].value \in State /\ stores[i].carries \in 0..3 /\ aKnows \in 0..3
  BY <1>1, <1>5 DEF StoreType, SetupTypes, SetupSteps
<1>7. aKnows' \in 0..3 /\ (stores[i].carries = 3 => aKnows' = 3)
  BY <1>3, <1>6
<1>8. \/ /\ Accepted(stores[i].value)
         /\ aPc' = "validate" /\ aResult' = aResult
      \/ /\ ~Accepted(stores[i].value)
         /\ aPc' = "idle"
         /\ aResult' = "NotReady" \/ (aResult' = "InvalidLayout" /\ stores[i].value = "Other")
  BY <1>3, <1>6 DEF Continue, EndAttach, StateError, State, Accepted
<1>9. (GoodPreamble' <=> GoodPreamble) /\ (Unfinished' <=> Unfinished)
  BY <1>2, GoodPreambleKept DEF Unfinished
<1>10. SetupTypes'
  BY <1>1, <1>2, <1>3, <1>4, <1>7, <1>8 DEF SetupTypes, SetupSteps
<1>11. BuildInv' /\ GeometryInv' /\ RightsInv'
  <2>1. BuildInv'
    BY <1>1, <1>2, <1>9 DEF BuildInv
  <2>2. GeometryInv'
    BY <1>1, <1>2, <1>9 DEF GeometryInv
  <2>3. RightsInv'
    BY <1>1, <1>2 DEF RightsInv
  <2> QED BY <2>1, <2>2, <2>3
<1>12. AttachInv'
  <2>1. aPc' \in {"validate", "construct"} =>
          /\ aKnows' = SetupSteps /\ built = SetupSteps /\ ~Unfinished
          /\ fresh => GoodPreamble
    BY <1>1, <1>4, <1>7, <1>8 DEF BuildInv, GeometryInv, SetupSteps
  <2>2. GoodRingAccepted'
    BY <1>1, <1>2, <1>3, <1>4, <1>8 DEF ToldInv, AttachInv, BuildInv, GoodRingAccepted
  <2>3. aPc' # "construct"
    BY <1>8
  <2>4. aSeen \in Nat /\ \A j \in aSeen'..Len(stores') : j \in aSeen..Len(stores)
    BY <1>1, <1>2, <1>3, <1>4 DEF SetupTypes
  <2>5. ToldInv'
    BY <1>1, <1>2, <1>9, <2>4 DEF AttachInv, ToldInv
  <2> QED BY <1>1, <1>2, <1>9, <2>1, <2>2, <2>3, <2>5 DEF AttachInv
<1> QED BY <1>10, <1>11, <1>12 DEF SetupInv

\* attach() compares the preamble with the mapping.
LEMMA ValidatePreambleStep ==
  ASSUME SetupInv, ValidatePreamble
  PROVE  SetupInv'
<1>1. SetupTypes /\ BuildInv /\ GeometryInv /\ AttachInv /\ RightsInv
  BY DEF SetupInv
<1>2. /\ aPc = "validate"
      /\ \/ GoodPreamble /\ aPc' = "construct" /\ aResult' = aResult
         \/ ~GoodPreamble /\ aPc' = "idle"
      /\ UNCHANGED <<mapped, fresh, preamble, stores, writePos, readPos, config, built,
                     cPc, aSeen, aKnows, told, handle>>
  BY DEF ValidatePreamble, Continue, EndAttach, GoodPreamble, memory, segment, cursors, creator
<1>3. (GoodPreamble' <=> GoodPreamble) /\ (Unfinished' <=> Unfinished)
  BY <1>2, GoodPreambleKept DEF Unfinished
<1>4. SetupTypes'
  BY <1>1, <1>2 DEF SetupTypes
<1>5. BuildInv' /\ GeometryInv' /\ RightsInv'
  <2>1. BuildInv'
    BY <1>1, <1>2, <1>3 DEF BuildInv
  <2>2. GeometryInv'
    BY <1>1, <1>2, <1>3 DEF GeometryInv
  <2>3. RightsInv'
    BY <1>1, <1>2 DEF RightsInv
  <2> QED BY <2>1, <2>2, <2>3
<1>6. AttachInv'
  <2>1. fresh => GoodPreamble
    BY <1>1, <1>2 DEF AttachInv
  <2>2. GoodRingAccepted'
    BY <1>1, <1>2, <2>1 DEF AttachInv, ToldInv, GoodRingAccepted
  <2> QED BY <1>1, <1>2, <1>3, <2>2 DEF AttachInv, ToldInv
<1> QED BY <1>4, <1>5, <1>6 DEF SetupInv

\* The second read of the geometry finds what was validated.
LEMMA ConstructHandleStep ==
  ASSUME SetupInv, NEW o \in AttacherObject, ConstructHandle(o)
  PROVE  SetupInv'
<1>1. SetupTypes /\ BuildInv /\ GeometryInv /\ AttachInv /\ RightsInv
  BY DEF SetupInv
<1>2. /\ aPc = "construct" /\ aPc' = "idle" /\ aResult' = "Ok"
      /\ handle' = [handle EXCEPT ![o] = NewHandle(preamble, FALSE)]
      /\ UNCHANGED <<mapped, fresh, preamble, stores, writePos, readPos, config, built,
                     cPc, aSeen, aKnows, told>>
  BY DEF ConstructHandle, EndAttach, memory, segment, cursors, creator
<1>3. GoodPreamble /\ ~Unfinished /\ \A p \in AttacherObject : ~handle[p].header
  BY <1>1, <1>2 DEF AttachInv
<1>4. GoodPreamble' /\ ~Unfinished'
  BY <1>2, <1>3, GoodPreambleKept DEF Unfinished
<1> DEFINE e == NewHandle(preamble, FALSE)
<1>5. /\ e \in HandleType /\ e.header /\ e.slots = preamble.slots /\ e.stride = preamble.stride
      /\ e.capacity = preamble.capacity /\ ~e.initializer /\ ~e.acquired
  BY <1>1, NewHandleFacts DEF SetupTypes
<1>6. handle' = [handle EXCEPT ![o] = e]
  BY <1>2
<1> HIDE DEF e
<1>7. /\ handle'[o] = e /\ \A p \in Object : p # o => handle'[p] = handle[p]
      /\ handle' \in [Object -> HandleType] /\ o \in Object
  BY <1>1, <1>5, <1>6 DEF SetupTypes, Object
<1>8. o \notin CreatorObject
  BY SetupAssumption
<1>9. SetupTypes'
  BY <1>1, <1>2, <1>7 DEF SetupTypes
<1>10. BuildInv'
  BY <1>1, <1>2, <1>3, <1>4 DEF BuildInv
<1>11. GeometryInv'
  BY <1>1, <1>2, <1>3, <1>4, <1>5, <1>7 DEF GeometryInv
<1>12. AttachInv'
  BY <1>1, <1>2, <1>4 DEF AttachInv, ToldInv, GoodRingAccepted
<1>13. RightsInv'
  <2>1. \A p, q \in CreatorObject : handle'[p].header /\ handle'[q].header => p = q
    BY <1>1, <1>7, <1>8 DEF RightsInv, Object
  <2>2. \A p, q \in AttacherObject : handle'[p].header /\ handle'[q].header => p = q
    BY <1>3, <1>7 DEF Object
  <2> QED BY <1>1, <1>2, <1>5, <1>7, <2>1, <2>2 DEF RightsInv
<1> QED BY <1>9, <1>10, <1>11, <1>12, <1>13 DEF SetupInv

-----------------------------------------------------------------------------
(***************************************************************************)
(* The handles, and the theorems.                                          *)
(***************************************************************************)

LEMMA MoveStep ==
  ASSUME SetupInv, NEW o \in Object, NEW p \in Object, Move(o, p)
  PROVE  SetupInv'
<1>1. SetupTypes /\ BuildInv /\ GeometryInv /\ AttachInv /\ RightsInv
  BY DEF SetupInv
<1>2. /\ o # p /\ handle[o].header /\ ~handle[p].header
      /\ ({o, p} \subseteq CreatorObject) \/ ({o, p} \subseteq AttacherObject)
      /\ handle' = [handle EXCEPT ![p] = handle[o], ![o] = Null]
      /\ UNCHANGED <<mapped, fresh, preamble, stores, writePos, readPos, config, built,
                     cPc, aPc, aSeen, aKnows, aResult, told>>
  BY DEF Move, MovedFrom, memory, segment, cursors, creator, attacher
<1>3. /\ handle'[p] = handle[o] /\ handle'[o] = Null
      /\ \A q \in Object : q # o /\ q # p => handle'[q] = handle[q]
      /\ handle' \in [Object -> HandleType]
  BY <1>1, <1>2, NullFacts DEF SetupTypes
<1>4. (GoodPreamble' <=> GoodPreamble) /\ (Unfinished' <=> Unfinished)
  BY <1>2, GoodPreambleKept DEF Unfinished
<1>5. (o \in CreatorObject <=> p \in CreatorObject) /\ (o \in AttacherObject <=> p \in AttacherObject)
  BY <1>2, SetupAssumption
<1>6. ASSUME NEW q \in Object
      PROVE  \/ ~handle'[q].header /\ ~handle'[q].acquired /\ ~handle'[q].initializer
             \/ q = p /\ handle'[q] = handle[o]
             \/ q # p /\ q # o /\ handle'[q] = handle[q]
  BY <1>3, NullFacts
<1>7. SetupTypes'
  BY <1>1, <1>2, <1>3 DEF SetupTypes
<1>8. BuildInv'
  <2>1. ~Unfinished
    BY <1>1, <1>2 DEF BuildInv
  <2> QED BY <1>1, <1>2, <1>4, <2>1 DEF BuildInv
<1>9. GeometryInv'
  <2>1. \A q \in Object : handle'[q].header =>
          /\ GoodPreamble
          /\ handle'[q].slots = preamble.slots /\ handle'[q].stride = preamble.stride
          /\ handle'[q].capacity = preamble.capacity
    BY <1>1, <1>6 DEF GeometryInv
  <2> QED BY <1>1, <1>2, <1>4, <2>1 DEF GeometryInv
<1>10. AttachInv'
  <2>1. aPc # "idle" => \A q \in AttacherObject : ~handle'[q].header
    BY <1>1, <1>2, <1>5, <1>6 DEF AttachInv, Object
  <2> QED BY <1>1, <1>2, <1>4, <2>1 DEF AttachInv, ToldInv, GoodRingAccepted
<1>11. RightsInv'
  <2>1. \A q, r \in CreatorObject : handle'[q].header /\ handle'[r].header => q = r
    BY <1>1, <1>2, <1>5, <1>6 DEF RightsInv, Object
  <2>2. \A q, r \in AttacherObject : handle'[q].header /\ handle'[r].header => q = r
    BY <1>1, <1>2, <1>5, <1>6 DEF RightsInv, Object
  <2>3. \A q \in Object : handle'[q].initializer =>
          handle'[q].header /\ q \in CreatorObject /\ built = SetupSteps
    BY <1>1, <1>5, <1>6 DEF RightsInv
  <2>4. \A q \in Object : handle'[q].acquired =>
          /\ handle'[q].header /\ q \in AttacherObject
          /\ handle'[q].acquiredPos = readPos /\ readPos < writePos
    BY <1>1, <1>5, <1>6 DEF RightsInv
  <2> QED BY <1>1, <1>2, <2>1, <2>2, <2>3, <2>4 DEF RightsInv
<1> QED BY <1>7, <1>8, <1>9, <1>10, <1>11 DEF SetupInv

\* A handle that is dropped.
LEMMA DropStep ==
  ASSUME SetupInv, NEW o \in Object, Drop(o)
  PROVE  SetupInv'
<1>1. SetupTypes /\ BuildInv /\ GeometryInv /\ AttachInv /\ RightsInv
  BY DEF SetupInv
<1>2. /\ handle' = [handle EXCEPT ![o] = Null]
      /\ UNCHANGED <<mapped, fresh, preamble, stores, writePos, readPos, config, built,
                     cPc, aPc, aSeen, aKnows, aResult, told>>
  BY DEF Drop, memory, segment, cursors, creator, attacher
<1>3. /\ handle'[o] = Null /\ \A q \in Object : q # o => handle'[q] = handle[q]
      /\ handle' \in [Object -> HandleType]
  BY <1>1, <1>2, NullFacts DEF SetupTypes
<1>4. \A q \in Object : /\ handle'[q].header => handle[q].header /\ handle'[q] = handle[q]
                        /\ handle'[q].acquired => handle[q].acquired /\ handle'[q] = handle[q]
                        /\ handle'[q].initializer => handle[q].initializer /\ handle'[q] = handle[q]
  BY <1>3, NullFacts
<1>5. (GoodPreamble' <=> GoodPreamble) /\ (Unfinished' <=> Unfinished)
  BY <1>2, GoodPreambleKept DEF Unfinished
<1>6. SetupTypes'
  BY <1>1, <1>2, <1>3 DEF SetupTypes
<1>7. BuildInv'
  BY <1>1, <1>2, <1>4, <1>5 DEF BuildInv
<1>8. GeometryInv'
  BY <1>1, <1>2, <1>4, <1>5 DEF GeometryInv
<1>9. AttachInv'
  BY <1>1, <1>2, <1>4, <1>5 DEF AttachInv, ToldInv, GoodRingAccepted, Object
<1>10. RightsInv'
  BY <1>1, <1>2, <1>4 DEF RightsInv, Object
<1> QED BY <1>6, <1>7, <1>8, <1>9, <1>10 DEF SetupInv

\* A publication uses the geometry its handle holds.
LEMMA TryPublishStep ==
  ASSUME SetupInv, NEW o \in Object, TryPublish(o)
  PROVE  SetupInv'
<1>1. SetupTypes /\ BuildInv /\ GeometryInv /\ AttachInv /\ RightsInv
  BY DEF SetupInv
<1>2. /\ writePos' = writePos + 1
      /\ UNCHANGED <<mapped, fresh, preamble, stores, readPos, config, built,
                     cPc, aPc, aSeen, aKnows, aResult, told, handle>>
  BY DEF TryPublish, segment, creator, attacher
<1>3. (GoodPreamble' <=> GoodPreamble) /\ (Unfinished' <=> Unfinished)
  BY <1>2, GoodPreambleKept DEF Unfinished
<1>4. SetupTypes'
  BY <1>1, <1>2 DEF SetupTypes
<1>5. BuildInv'
  BY <1>1, <1>2, <1>3 DEF BuildInv
<1>6. GeometryInv'
  BY <1>1, <1>2, <1>3 DEF GeometryInv
<1>7. AttachInv'
  BY <1>1, <1>2, <1>3 DEF AttachInv, ToldInv, GoodRingAccepted
<1>8. RightsInv'
  BY <1>1, <1>2 DEF RightsInv, SetupTypes
<1> QED BY <1>4, <1>5, <1>6, <1>7, <1>8 DEF SetupInv

\* A slot is acquired, or released: the handle keeps its ring.
LEMMA SlotStep ==
  ASSUME SetupInv, NEW o \in Object, TryAcquire(o) \/ Release(o)
  PROVE  SetupInv'
<1>1. SetupTypes /\ BuildInv /\ GeometryInv /\ AttachInv /\ RightsInv
  BY DEF SetupInv
<1>2. PICK w \in BOOLEAN, n \in Nat, r \in Nat :
        /\ handle' = [handle EXCEPT ![o].acquired = w, ![o].acquiredPos = n]
        /\ readPos' = r /\ r <= writePos
        /\ w => r = readPos /\ n = r /\ r < writePos /\ handle[o].header /\ o \in AttacherObject
        /\ ~w => handle[o].acquired
        /\ UNCHANGED <<mapped, fresh, preamble, stores, writePos, config, built,
                       cPc, aPc, aSeen, aKnows, aResult, told>>
  <2>1. CASE TryAcquire(o)
    <3>1. /\ handle' = [handle EXCEPT ![o].acquired = TRUE, ![o].acquiredPos = readPos]
          /\ o \in AttacherObject /\ handle[o].header /\ readPos < writePos
          /\ UNCHANGED <<mapped, fresh, preamble, stores, writePos, readPos, config, built,
                         cPc, aPc, aSeen, aKnows, aResult, told>>
      BY <2>1 DEF TryAcquire, memory, segment, cursors, creator, attacher
    <3>2. readPos \in Nat /\ writePos \in Nat /\ readPos' = readPos /\ readPos <= writePos
      BY <1>1, <3>1 DEF SetupTypes
    <3>3. PICK i \in Nat : i = readPos
      BY <3>2
    <3> WITNESS TRUE \in BOOLEAN, i \in Nat, i \in Nat
    <3> QED BY <3>1, <3>2, <3>3
  <2>2. CASE Release(o)
    <3>1. /\ handle[o].acquired /\ readPos' = handle[o].acquiredPos + 1
          /\ handle' = [handle EXCEPT ![o].acquired = FALSE, ![o].acquiredPos = 0]
          /\ UNCHANGED <<mapped, fresh, preamble, stores, writePos, config, built,
                         cPc, aPc, aSeen, aKnows, aResult, told>>
      BY <2>2 DEF Release, segment, creator, attacher
    <3>2. FALSE \in BOOLEAN /\ readPos \in Nat /\ writePos \in Nat
      BY <1>1 DEF SetupTypes
    <3>3. handle[o].acquiredPos = readPos /\ readPos < writePos
      BY <1>1, <3>1 DEF RightsInv
    <3>4. readPos' \in Nat /\ readPos' <= writePos
      BY <3>1, <3>2, <3>3
    <3> QED BY <3>1, <3>2, <3>4
  <2> QED BY <2>1, <2>2
<1>3. handle \in [Object -> HandleType] /\ handle[o] \in HandleType /\ writePos \in Nat
  BY <1>1 DEF SetupTypes
<1> DEFINE e == [handle[o] EXCEPT !.acquired = w, !.acquiredPos = n]
<1>4. /\ e \in HandleType /\ e.header = handle[o].header /\ e.slots = handle[o].slots
      /\ e.stride = handle[o].stride /\ e.capacity = handle[o].capacity
      /\ e.initializer = handle[o].initializer /\ e.acquired = w /\ e.acquiredPos = n
  BY <1>3 DEF HandleType
<1>5. handle' = [handle EXCEPT ![o] = e]
  BY <1>2, <1>3
<1> HIDE DEF e
<1>6. /\ handle'[o] = e /\ \A q \in Object : q # o => handle'[q] = handle[q]
      /\ handle' \in [Object -> HandleType]
  BY <1>3, <1>4, <1>5
<1>7. \A q \in Object :
        /\ handle'[q].header = handle[q].header /\ handle'[q].slots = handle[q].slots
        /\ handle'[q].stride = handle[q].stride /\ handle'[q].capacity = handle[q].capacity
        /\ handle'[q].initializer = handle[q].initializer
  BY <1>4, <1>6
<1>8. (GoodPreamble' <=> GoodPreamble) /\ (Unfinished' <=> Unfinished)
  BY <1>2, GoodPreambleKept DEF Unfinished
<1>9. SetupTypes'
  BY <1>1, <1>2, <1>6 DEF SetupTypes
<1>10. BuildInv'
  BY <1>1, <1>2, <1>7, <1>8 DEF BuildInv
<1>11. GeometryInv'
  BY ZenonT(40), <1>1, <1>2, <1>7, <1>8 DEF GeometryInv
<1>12. AttachInv'
  BY <1>1, <1>2, <1>7, <1>8 DEF AttachInv, ToldInv, GoodRingAccepted, Object
<1>13. RightsInv'
  <2>1. \A q \in Object : handle'[q].acquired =>
          /\ handle'[q].header /\ q \in AttacherObject
          /\ handle'[q].acquiredPos = readPos' /\ readPos' < writePos'
    <3> SUFFICES ASSUME NEW q \in Object, handle'[q].acquired
                 PROVE  /\ handle'[q].header /\ q \in AttacherObject
                        /\ handle'[q].acquiredPos = readPos' /\ readPos' < writePos'
      OBVIOUS
    <3>1. CASE q = o
      BY <1>2, <1>4, <1>6, <3>1
    <3>2. CASE q # o
      <4>1. handle'[q] = handle[q] /\ handle[q].acquired
        BY <1>6, <3>2
      <4>2. handle[q].header /\ q \in AttacherObject
        BY <1>1, <4>1 DEF RightsInv
      <4>3. ~(handle[o].header /\ o \in AttacherObject)
        BY <1>1, <3>2, <4>2 DEF RightsInv
      <4>4. FALSE
        BY <1>1, <1>2, <4>3 DEF RightsInv
      <4> QED BY <4>4
    <3> QED BY <3>1, <3>2
  <2>2. /\ \A q, p \in CreatorObject : handle'[q].header /\ handle'[p].header => q = p
        /\ \A q, p \in AttacherObject : handle'[q].header /\ handle'[p].header => q = p
        /\ \A q \in Object : handle'[q].initializer =>
             handle'[q].header /\ q \in CreatorObject /\ built' = SetupSteps
    <3>1. /\ \A q \in CreatorObject : handle'[q].header <=> handle[q].header
          /\ \A q \in AttacherObject : handle'[q].header <=> handle[q].header
          /\ \A q \in Object : /\ handle'[q].header <=> handle[q].header
                               /\ handle'[q].initializer <=> handle[q].initializer
      BY <1>7 DEF Object
    <3>2. /\ \A q, p \in CreatorObject : handle[q].header /\ handle[p].header => q = p
          /\ \A q, p \in AttacherObject : handle[q].header /\ handle[p].header => q = p
          /\ \A q \in Object : handle[q].initializer =>
               handle[q].header /\ q \in CreatorObject /\ built = SetupSteps
      BY <1>1 DEF RightsInv
    <3>3. built' = built
      BY <1>2
    <3> QED BY <3>1, <3>2, <3>3
  <2> QED BY <1>2, <2>1, <2>2 DEF RightsInv
<1> QED BY <1>9, <1>10, <1>11, <1>12, <1>13 DEF SetupInv

\* One more store adds one more position that a load may read.
LEMMA IntervalGrows ==
  ASSUME NEW a \in Nat, NEW n \in Nat
  PROVE  \A i \in a..(n + 1) : i \in a..n \/ i = n + 1
  OBVIOUS

\* Only the initializer closes, so what it stores carries the construction.
LEMMA ClosePublicationStep ==
  ASSUME SetupInv, NEW o \in Object, ClosePublication(o)
  PROVE  SetupInv'
<1>1. SetupTypes /\ BuildInv /\ GeometryInv /\ AttachInv /\ RightsInv
  BY DEF SetupInv
<1>2. /\ handle[o].initializer /\ Store("Closed", "release")
      /\ UNCHANGED <<mapped, fresh, preamble, writePos, readPos, config, built,
                     cPc, aPc, aSeen, aKnows, aResult, told, handle>>
  BY DEF ClosePublication, segment, cursors, creator, attacher
<1>3. PICK k \in 0..SetupSteps :
        /\ k = built
        /\ stores' \in Seq(StoreType) /\ stores' # << >>
        /\ Len(stores') = Len(stores) + 1 /\ Len(stores) \in Nat
        /\ \A i \in 1..Len(stores) : stores'[i] = stores[i]
        /\ stores'[Len(stores) + 1].value = "Closed" /\ stores'[Len(stores) + 1].carries = k
  BY <1>1, <1>2, StoreFacts DEF State
<1>4. \A i \in 1..Len(stores') : i \in 1..Len(stores) \/ i = Len(stores) + 1
  BY <1>3
<1>5. handle[o].header /\ built = SetupSteps
  BY <1>1, <1>2 DEF RightsInv
<1>6. GoodPreamble /\ ~Unfinished
  BY <1>1, <1>5 DEF BuildInv, GeometryInv
<1>7. GoodPreamble' /\ ~Unfinished'
  BY <1>2, <1>6, GoodPreambleKept DEF Unfinished
<1>8. SetupTypes'
  <2>1. aSeen' \in 1..Len(stores')
    BY <1>1, <1>2, <1>3 DEF SetupTypes
  <2> QED BY <1>1, <1>2, <1>3, <2>1 DEF SetupTypes
<1>9. BuildInv'
  <2>1. \A i \in 1..Len(stores') :
          /\ Accepted(stores'[i].value) => stores'[i].carries = SetupSteps
          /\ fresh => stores'[i].value # "Other"
    BY <1>1, <1>3, <1>4, <1>5 DEF BuildInv
  <2>2. Accepted(stores'[Len(stores')].value)
    BY <1>3 DEF Accepted
  <2> QED BY <1>1, <1>2, <1>5, <1>7, <2>1, <2>2 DEF BuildInv
<1>10. GeometryInv'
  BY <1>1, <1>2, <1>7 DEF GeometryInv
<1>11. ToldInv'
  <2>a. aSeen \in 1..Len(stores)
    BY <1>1 DEF SetupTypes
  <2>b. aSeen \in Nat /\ Len(stores) \in Nat /\ Len(stores') = Len(stores) + 1
    BY <1>3, <2>a
  <2>1. \A i \in aSeen..Len(stores') : i \in aSeen..Len(stores) \/ i = Len(stores) + 1
    BY <2>b, IntervalGrows
  <2>2. \A i \in aSeen..Len(stores) : stores'[i] = stores[i]
    BY <1>3, <2>a
  <2> QED BY <1>1, <1>2, <1>3, <1>6, <1>7, <2>1, <2>2 DEF AttachInv, ToldInv, Accepted
<1>12. AttachInv'
  BY <1>1, <1>2, <1>6, <1>7, <1>11 DEF AttachInv, GoodRingAccepted
<1>13. RightsInv'
  BY <1>1, <1>2 DEF RightsInv
<1> QED BY <1>8, <1>9, <1>10, <1>12, <1>13 DEF SetupInv

\* Every action preserves the invariant.
LEMMA SetupStep == SetupInv /\ [Next]_vars => SetupInv'
<1> SUFFICES ASSUME SetupInv, [Next]_vars PROVE SetupInv'
  OBVIOUS
<1>1. ASSUME NEW s \in SlotCounts, NEW n \in Capacities, NEW id \in {0, 1},
             CallInitialize([slots |-> s, capacity |-> n], id)
      PROVE  SetupInv'
  BY <1>1, CallInitializeStep
<1>2. CASE CreatorStep
  BY <1>2, ConstructHeaderStep, FillPreambleStep, ConstructSlotsStep, StoreReadyStep DEF CreatorStep
<1>3. CASE CrashCreator
  BY <1>3, CrashCreatorStep
<1>4. CASE AttacherStep
  BY <1>4, SignalStep, CallAttachStep, LoadStateStep, ValidatePreambleStep, ConstructHandleStep
     DEF AttacherStep
<1>5. CASE HandleStep
  BY <1>5, MoveStep, DropStep, TryPublishStep, SlotStep, ClosePublicationStep DEF HandleStep
<1>6. CASE UNCHANGED vars
  <2>1. UNCHANGED <<mapped, fresh, preamble, stores, writePos, readPos, config, built,
                    cPc, aPc, aSeen, aKnows, aResult, told, handle>>
    BY <1>6 DEF vars, memory, segment, cursors, creator, attacher
  <2>2. (GoodPreamble' <=> GoodPreamble) /\ (Unfinished' <=> Unfinished)
    BY <2>1, GoodPreambleKept DEF Unfinished
  <2>3. SetupTypes'
    BY <2>1 DEF SetupInv, SetupTypes
  <2>4. BuildInv'
    BY <2>1, <2>2 DEF SetupInv, BuildInv
  <2>5. GeometryInv'
    BY <2>1, <2>2 DEF SetupInv, GeometryInv
  <2>6. AttachInv'
    BY <2>1, <2>2 DEF SetupInv, AttachInv, ToldInv, GoodRingAccepted
  <2>7. RightsInv'
    BY <2>1 DEF SetupInv, RightsInv
  <2> QED BY <2>3, <2>4, <2>5, <2>6, <2>7 DEF SetupInv
<1> QED BY <1>1, <1>2, <1>3, <1>4, <1>5, <1>6 DEF Next

\* The inductive invariant of the ring's construction and its handles.
THEOREM SetupInvariance == Spec => []SetupInv
BY InitSetup, SetupStep, PTL DEF Spec

\* The acquire load of attach() against the release store of initialize():
\* no attacher reads the header or the slots before their construction,
\* however stale a state it loads and wherever the creator dies.
THEOREM AttachSeesWholeSetup == Spec => []AttachAfterSetup
BY SetupImplies, SetupInvariance, PTL

\* required_bytes(), initialize() and validate_preamble() together: the cast
\* of the stride to uint32_t loses nothing, every slot of every handle lies
\* inside the mapping and holds its metadata and payload, for every header,
\* cache line, width and configuration, also in a header of unknown origin.
THEOREM SlotsFitTheMapping == Spec => []SlotsInsideMapping
BY SetupImplies, SetupInvariance, PTL

\* attach() never refuses initialize()'s own ring as corrupt, and never
\* refuses it at all when the caller was told that it is there.
THEOREM OwnRingNeverCorrupt == Spec => []GoodRingAccepted
BY SetupImplies, SetupInvariance, PTL

\* The move constructor of SpscRing copies no right: one closer, one holder
\* of the acquired slot, and each has the header it will use unchecked.
THEOREM RightsAreMoved == Spec => []RightsMovedNotCopied
BY SetupImplies, SetupInvariance, PTL

-----------------------------------------------------------------------------
\* Only initialize() writes the header, and it has finished before anyone
\* relies on it: what attach() validated is what its handle is made of.
THEOREM HeaderNeverChangesInUse == Spec => HeaderStable
<1>1. ASSUME SetupInv, [Next]_vars
      PROVE  [(aPc \in {"validate", "construct"} \/ \E o \in Object : handle[o].header)
                => UNCHANGED <<preamble, mapped>>]_vars
  <2> USE DEF memory, segment, cursors, creator, attacher
  <2>1. CASE UNCHANGED vars
    BY <2>1
  <2>2. CASE ConstructHeader \/ FillPreamble
    <3>1. Unfinished
      BY <2>2 DEF ConstructHeader, FillPreamble, Unfinished
    <3> QED BY <1>1, <3>1 DEF SetupInv, BuildInv, AttachInv
  <2>3. ASSUME NEW c, NEW id, CallInitialize(c, id) PROVE UNCHANGED <<preamble, mapped>>
    BY <2>3 DEF CallInitialize
  <2>4. CASE ConstructSlots \/ (\E o \in CreatorObject : StoreReady(o)) \/ CrashCreator
    BY <2>4 DEF ConstructSlots, StoreReady, CrashCreator
  <2>5. CASE AttacherStep
    BY <2>5 DEF AttacherStep, Signal, CallAttach, LoadState, ValidatePreamble, ConstructHandle
  <2>6. CASE HandleStep
    BY <2>6 DEF HandleStep, Move, Drop, TryPublish, TryAcquire, Release, ClosePublication
  <2> QED BY <1>1, <2>1, <2>2, <2>3, <2>4, <2>5, <2>6 DEF Next, CreatorStep
<1> QED BY <1>1, SetupInvariance, PTL DEF Spec, HeaderStable
=============================================================================
