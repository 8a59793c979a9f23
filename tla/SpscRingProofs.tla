--------------------------- MODULE SpscRingProofs ---------------------------
(***************************************************************************)
(* Proofs about SpscRing for every number of slots, every position bound   *)
(* and every set of events.                                                *)
(***************************************************************************)
EXTENDS SpscRing, TLAPS

(***************************************************************************)
(* The inductive invariant behind the safety properties.                   *)
(***************************************************************************)

\* Each side's view of the other's cursor lags behind it, never ahead, and
\* every cursor value a side may still read carries what it stands for.
CursorInv ==
  /\ readPos <= writePos
  /\ cachedRead <= pKnows /\ pKnows <= readPos
  /\ writePos <= pKnows + SlotCount
  /\ cachedWrite <= cKnows /\ cKnows <= writePos
  /\ readPos <= cKnows
  /\ \A p \in 0..writePos : wSync[p] = p
  /\ \A p \in 0..readPos : rSync[p] = p

\* Inside try_publish(): a slot is written only while it is free.
ProducerInv ==
  /\ pPc # "idle" =>
       event \in Event \ TooLarge /\ writePos < MaxPosition /\ state = "Ready"
  /\ pPc \in {"fillHeader", "copyPayload", "storeWritePosition"} =>
       writePos < cachedRead + SlotCount
  /\ pPc = "copyPayload" => slots[SlotIndex(writePos)].header = event
  /\ pPc = "storeWritePosition" =>
       filled = writePos + 1 /\ slots[SlotIndex(writePos)] = Whole(event)
  /\ pResult = "Closed" => state = "Closed" \/ writePos = MaxPosition

\* Inside try_acquire() and while an event is on loan.
ConsumerInv ==
  /\ cPc = "readSlot" => readPos < cachedWrite
  /\ acquired => /\ cPc = "idle"
                 /\ acquiredPos = readPos
                 /\ readPos < cachedWrite
                 /\ view = published[readPos + 1]
  /\ cResult # "InvalidSlot"

\* Closure is final, and seeing it means knowing every publication.
ClosureInv ==
  /\ state = "Closed" => closeSync = writePos
  /\ sawClosed => state = "Closed" /\ cKnows = writePos
  /\ cResult = "Closed" => state = "Closed" /\ readPos = writePos

\* The slots between the cursors hold exactly the events not yet released.
ContentInv ==
  /\ Len(published) = writePos
  /\ \A i \in 1..writePos : published[i] \notin TooLarge
  /\ \A p \in readPos..writePos - 1 : slots[SlotIndex(p)] = Whole(published[p + 1])
  /\ Len(delivered) = readPos
  /\ \A i \in 1..readPos : delivered[i] = Whole(published[i])

RingInv ==
  TypeOK /\ CursorInv /\ ProducerInv /\ ConsumerInv /\ ClosureInv /\ ContentInv

-----------------------------------------------------------------------------
(***************************************************************************)
(* Slot arithmetic: positions less than SlotCount apart share no slot.     *)
(***************************************************************************)
LEMMA SlotCountPositive == SlotCount \in Nat /\ SlotCount > 0
  BY SlotCountAssumption

LEMMA SlotIndexRange ==
  ASSUME NEW p \in Nat
  PROVE  SlotIndex(p) \in 0..SlotCount - 1
  BY SlotCountPositive DEF SlotIndex

LEMMA SlotsDistinct ==
  ASSUME NEW p \in Nat, NEW q \in Nat, p < q, q - p < SlotCount
  PROVE  SlotIndex(p) # SlotIndex(q)
<1>1. /\ p = SlotCount * (p \div SlotCount) + (p % SlotCount)
      /\ p % SlotCount \in 0..SlotCount - 1
      /\ p \div SlotCount \in Int
  BY SlotCountPositive
<1>2. /\ q = SlotCount * (q \div SlotCount) + (q % SlotCount)
      /\ q % SlotCount \in 0..SlotCount - 1
      /\ q \div SlotCount \in Int
  BY SlotCountPositive
<1>3. SUFFICES ASSUME p % SlotCount = q % SlotCount PROVE FALSE
  BY DEF SlotIndex
<1>4. q - p = SlotCount * ((q \div SlotCount) - (p \div SlotCount))
  BY <1>1, <1>2, <1>3, SlotCountPositive
<1> DEFINE d == (q \div SlotCount) - (p \div SlotCount)
<1>5. d \in Int
  BY <1>1, <1>2
<1>6. SlotCount * d > 0 /\ SlotCount * d < SlotCount
  BY <1>4, SlotCountPositive
<1> HIDE DEF d
<1>7. CASE d <= 0
  <2>1. SlotCount * d <= 0
    BY <1>5, <1>7, SlotCountPositive
  <2> QED BY <2>1, <1>6, <1>5, SlotCountPositive
<1>8. CASE d >= 1
  <2>1. SlotCount * d >= SlotCount
    BY <1>5, <1>8, SlotCountPositive
  <2> QED BY <2>1, <1>6, <1>5, SlotCountPositive
<1> QED BY <1>5, <1>7, <1>8
-----------------------------------------------------------------------------
(***************************************************************************)
(* RingInv is inductive: one lemma per action.                             *)
(***************************************************************************)
LEMMA InitRingInv == Init => RingInv
<1> SUFFICES ASSUME Init PROVE RingInv
  OBVIOUS
<1> USE SlotCountPositive, MaxPositionAssumption, EventAssumption DEF Init, Position
<1>1. TypeOK
  BY SMTT(30) DEF TypeOK, Slot, Whole
<1>2. CursorInv /\ ProducerInv /\ ConsumerInv /\ ClosureInv
  BY DEF CursorInv, ProducerInv, ConsumerInv, ClosureInv
<1>3. ContentInv
  BY DEF ContentInv
<1> QED BY <1>1, <1>2, <1>3 DEF RingInv

LEMMA StutterStep ==
  ASSUME RingInv, UNCHANGED vars
  PROVE  RingInv'
<1> USE DEF vars, pVars, cVars, pMemory, cMemory
<1>1. TypeOK'
  BY DEF RingInv, TypeOK
<1>2. CursorInv' /\ ProducerInv' /\ ConsumerInv' /\ ClosureInv'
  BY DEF RingInv, CursorInv, ProducerInv, ConsumerInv, ClosureInv
<1>3. ContentInv'
  BY DEF RingInv, ContentInv
<1> QED BY <1>1, <1>2, <1>3 DEF RingInv

\* The cursors, the cached cursors and what each side knows are numbers.
LEMMA CursorTypes ==
  ASSUME RingInv
  PROVE  /\ writePos \in Nat /\ readPos \in Nat
         /\ cachedRead \in Nat /\ cachedWrite \in Nat
         /\ pKnows \in Nat /\ cKnows \in Nat
         /\ acquiredPos \in Nat
         /\ writePos <= MaxPosition
  BY MaxPositionAssumption DEF RingInv, TypeOK, Position

LEMMA AppendFacts ==
  ASSUME NEW S, NEW s \in Seq(S), NEW x \in S
  PROVE  /\ Append(s, x) \in Seq(S)
         /\ Len(Append(s, x)) = Len(s) + 1
         /\ \A i \in 1..Len(s) : Append(s, x)[i] = s[i]
         /\ Append(s, x)[Len(s) + 1] = x
  OBVIOUS

LEMMA RefuseEventStep ==
  ASSUME NEW e \in Event, RingInv, RefuseEvent(e)
  PROVE  RingInv'
<1> USE DEF RingInv, RefuseEvent, cVars, pMemory, cMemory
<1>1. /\ pResult' \in {"PayloadTooLarge", "Closed"}
      /\ pResult' = "Closed" => state = "Closed" \/ writePos = MaxPosition
  BY DEF PublishCheck, TypeOK
<1>2. TypeOK'
  BY <1>1 DEF TypeOK
<1>3. ProducerInv'
  BY <1>1 DEF ProducerInv
<1>4. CursorInv' /\ ConsumerInv' /\ ClosureInv' /\ ContentInv'
  BY DEF CursorInv, ConsumerInv, ClosureInv, ContentInv
<1> QED BY <1>2, <1>3, <1>4

LEMMA BeginPublishStep ==
  ASSUME NEW e \in Event, RingInv, BeginPublish(e)
  PROVE  RingInv'
<1> USE DEF RingInv, BeginPublish, LooksFull, cVars, pMemory, cMemory
<1>1. e \notin TooLarge /\ state = "Ready" /\ writePos < MaxPosition
  BY MaxPositionAssumption DEF PublishCheck, TypeOK, Position
<1>2. TypeOK'
  BY DEF TypeOK
<1>3. ProducerInv'
  <2>1. cachedRead <= writePos
    BY DEF CursorInv, TypeOK, Position
  <2>2. pPc' = "fillHeader" => writePos < cachedRead + SlotCount
    BY <2>1, SlotCountPositive, MaxPositionAssumption DEF Sub, TypeOK, Position
  <2>3. pPc' \in {"loadReadPosition", "fillHeader"} /\ pResult' = "None" /\ event' = e
    OBVIOUS
  <2> QED BY <1>1, <2>2, <2>3 DEF ProducerInv
<1>4. CursorInv' /\ ConsumerInv' /\ ClosureInv' /\ ContentInv'
  BY DEF CursorInv, ConsumerInv, ClosureInv, ContentInv
<1> QED BY <1>2, <1>3, <1>4

\* The loaded value may be stale, but never so stale that it looks corrupt.
LEMMA LoadReadPositionStep ==
  ASSUME RingInv, LoadReadPosition
  PROVE  RingInv'
<1> USE DEF RingInv, cVars, pMemory, cMemory
<1> USE SlotCountPositive, MaxPositionAssumption
<1>1. PICK pos \in pKnows..readPos :
        /\ cachedRead' = pos
        /\ pKnows' = Learned(ReadPositionLoadOrder, pKnows, rSync[pos])
        /\ \/ /\ FullCheck(pos) = "Proceed"
              /\ pPc' = "fillHeader"
              /\ UNCHANGED <<event, pResult>>
           \/ /\ FullCheck(pos) # "Proceed"
              /\ pPc' = "idle"
              /\ event' = NoEvent
              /\ pResult' = FullCheck(pos)
  BY DEF LoadReadPosition, ReadPositions
<1>2. pos \in 0..readPos /\ pos >= pKnows /\ pos \in Nat
  BY CursorTypes
<1>3. pos <= writePos /\ writePos <= pos + SlotCount /\ pos \in Position
  BY <1>2, CursorTypes DEF CursorInv, Position
<1>4. pKnows' = pos
  <2>1. rSync[pos] = pos
    BY <1>2 DEF CursorInv
  <2> QED BY <1>1, <1>2, <2>1, CursorTypes DEF Learned, ReadPositionLoadOrder
<1>5. /\ FullCheck(pos) \in {"Full", "Proceed"}
      /\ FullCheck(pos) = "Proceed" => writePos < pos + SlotCount
  BY <1>2, <1>3, CursorTypes DEF FullCheck, Sub
<1>6. pPc = "loadReadPosition" /\ UNCHANGED <<initializer, filled, cVars, pMemory, cMemory>>
  BY DEF LoadReadPosition, ReadPositions
<1>7. TypeOK'
  BY SMTT(30), <1>1, <1>3, <1>4, <1>5, <1>6 DEF TypeOK
<1>8. CursorInv'
  BY <1>1, <1>2, <1>3, <1>4, <1>6, CursorTypes DEF CursorInv
<1>9. ProducerInv'
  BY <1>1, <1>5, <1>6 DEF ProducerInv
<1>10. ConsumerInv' /\ ClosureInv' /\ ContentInv'
  BY <1>6 DEF ConsumerInv, ClosureInv, ContentInv
<1> QED BY <1>7, <1>8, <1>9, <1>10

\* The slot being filled lies outside the slots the consumer may look at.
LEMMA FilledSlotIsFree ==
  ASSUME RingInv, pPc \in {"fillHeader", "copyPayload"}
  PROVE  \A p \in readPos..writePos - 1 : SlotIndex(p) # SlotIndex(writePos)
<1> SUFFICES ASSUME NEW p \in readPos..writePos - 1
             PROVE  SlotIndex(p) # SlotIndex(writePos)
  OBVIOUS
<1>1. p \in Nat /\ p < writePos /\ p >= readPos
  BY CursorTypes
<1>2. writePos < cachedRead + SlotCount /\ cachedRead <= readPos
  BY CursorTypes DEF RingInv, CursorInv, ProducerInv
<1>3. writePos - p < SlotCount
  BY <1>1, <1>2, CursorTypes, SlotCountPositive
<1> QED BY <1>1, <1>3, CursorTypes, SlotsDistinct

LEMMA FillHeaderStep ==
  ASSUME RingInv, FillHeader
  PROVE  RingInv'
<1> USE DEF RingInv, FillHeader, cVars, cMemory
<1> DEFINE w == SlotIndex(writePos)
<1>1. w \in 0..SlotCount - 1
  BY SlotIndexRange, CursorTypes
<1>2. event \in Event \ TooLarge
  BY DEF ProducerInv
<1>3. TypeOK'
  BY <1>1, <1>2 DEF TypeOK, Slot
<1>4. ProducerInv'
  <2>1. slots'[w].header = event
    BY <1>1 DEF TypeOK, Slot
  <2> QED BY <2>1 DEF ProducerInv, SlotIndex
<1>5. ContentInv'
  <2>1. \A p \in readPos..writePos - 1 : slots'[SlotIndex(p)] = slots[SlotIndex(p)]
    <3> SUFFICES ASSUME NEW p \in readPos..writePos - 1
                 PROVE  slots'[SlotIndex(p)] = slots[SlotIndex(p)]
      OBVIOUS
    <3>1. SlotIndex(p) \in 0..SlotCount - 1
      BY SlotIndexRange, CursorTypes
    <3>2. SlotIndex(p) # w
      BY FilledSlotIsFree
    <3> QED BY <3>1, <3>2 DEF TypeOK
  <2> QED BY <2>1 DEF ContentInv, SlotIndex
<1>6. CursorInv' /\ ConsumerInv' /\ ClosureInv'
  BY DEF CursorInv, ConsumerInv, ClosureInv
<1> QED BY <1>3, <1>4, <1>5, <1>6

LEMMA CopyPayloadStep ==
  ASSUME RingInv, CopyPayload
  PROVE  RingInv'
<1> USE DEF RingInv, CopyPayload, cVars, cMemory
<1> DEFINE w == SlotIndex(writePos)
<1>1. w \in 0..SlotCount - 1
  BY SlotIndexRange, CursorTypes
<1>2. event \in Event \ TooLarge /\ writePos < MaxPosition
  BY DEF ProducerInv
<1>3. TypeOK'
  <2>1. writePos + 1 \in Position
    BY <1>2, CursorTypes, MaxPositionAssumption DEF Position
  <2> QED BY <1>1, <1>2, <2>1 DEF TypeOK, Slot
<1>4. ProducerInv'
  <2>1. slots[w] \in Slot /\ slots[w].header = event
    BY <1>1 DEF TypeOK, ProducerInv
  <2>2. slots'[w] = [slots[w] EXCEPT !.payload = event]
    BY <1>1 DEF TypeOK
  <2>3. slots'[w] = Whole(event)
    BY <2>1, <2>2 DEF Slot, Whole
  <2> QED BY <2>3 DEF ProducerInv, SlotIndex, Whole
<1>5. ContentInv'
  <2>1. \A p \in readPos..writePos - 1 : slots'[SlotIndex(p)] = slots[SlotIndex(p)]
    <3> SUFFICES ASSUME NEW p \in readPos..writePos - 1
                 PROVE  slots'[SlotIndex(p)] = slots[SlotIndex(p)]
      OBVIOUS
    <3>1. SlotIndex(p) \in 0..SlotCount - 1
      BY SlotIndexRange, CursorTypes
    <3>2. SlotIndex(p) # w
      BY FilledSlotIsFree
    <3> QED BY <3>1, <3>2 DEF TypeOK
  <2> QED BY <2>1 DEF ContentInv, SlotIndex
<1>6. CursorInv' /\ ConsumerInv' /\ ClosureInv'
  BY DEF CursorInv, ConsumerInv, ClosureInv
<1> QED BY <1>3, <1>4, <1>5, <1>6

LEMMA StoreWritePositionStep ==
  ASSUME RingInv, StoreWritePosition
  PROVE  RingInv'
<1> USE DEF RingInv, StoreWritePosition, cVars, cMemory
<1> USE SlotCountPositive, MaxPositionAssumption
<1>1. /\ event \in Event \ TooLarge /\ writePos < MaxPosition /\ state = "Ready"
      /\ writePos < cachedRead + SlotCount
      /\ filled = writePos + 1
      /\ slots[SlotIndex(writePos)] = Whole(event)
  BY DEF ProducerInv
<1>2. writePos \in Nat /\ writePos + 1 \in Position
  BY <1>1, CursorTypes DEF Position
<1>3. wSync' = [wSync EXCEPT ![writePos + 1] = writePos + 1]
  BY <1>1 DEF Carried, PublishStoreOrder
<1>4. /\ Len(published') = writePos + 1
      /\ \A i \in 1..writePos : published'[i] = published[i]
      /\ published'[writePos + 1] = event
      /\ published' \in Seq(Event)
  <2>1. published \in Seq(Event) /\ Len(published) = writePos /\ event \in Event
    BY <1>1 DEF TypeOK, ContentInv
  <2> QED BY <2>1, AppendFacts
<1>5. TypeOK'
  BY <1>2, <1>3, <1>4 DEF TypeOK
<1>6. CursorInv'
  <2>1. \A p \in 0..writePos + 1 : wSync'[p] = p
    <3> SUFFICES ASSUME NEW p \in 0..writePos + 1 PROVE wSync'[p] = p
      OBVIOUS
    <3>1. wSync \in [Position -> Position]
      BY DEF TypeOK
    <3>2. CASE p = writePos + 1
      BY <3>1, <3>2, <1>2, <1>3
    <3>3. CASE p \in 0..writePos
      BY <3>1, <3>3, <1>2, <1>3 DEF CursorInv
    <3> QED BY <3>2, <3>3, <1>2
  <2> QED BY <2>1, <1>1, CursorTypes DEF CursorInv
<1>7. ProducerInv'
  BY DEF ProducerInv
<1>8. ConsumerInv'
  <2>1. acquired => readPos + 1 \in 1..writePos
    BY CursorTypes DEF ConsumerInv, CursorInv
  <2> QED BY <2>1, <1>4 DEF ConsumerInv
<1>9. ClosureInv'
  BY <1>1 DEF ClosureInv
<1>10. ContentInv'
  <2>1. \A i \in 1..writePos' : published'[i] \notin TooLarge
    BY <1>1, <1>2, <1>4 DEF ContentInv
  <2>2. \A p \in readPos..writePos' - 1 : slots[SlotIndex(p)] = Whole(published'[p + 1])
    <3> SUFFICES ASSUME NEW p \in readPos..writePos
                 PROVE  slots[SlotIndex(p)] = Whole(published'[p + 1])
      <4>1. writePos' - 1 = writePos
        BY <1>2
      <4> QED BY <4>1
    <3>0. p \in Int /\ p <= writePos
      BY CursorTypes
    <3>1. CASE p = writePos
      BY <3>1, <1>1, <1>4
    <3>2. CASE p < writePos
      <4>1. p \in readPos..writePos - 1 /\ p + 1 \in 1..writePos
        BY <3>2, CursorTypes
      <4> QED BY <4>1, <1>4 DEF ContentInv
    <3>3. p = writePos \/ p < writePos
      BY <3>0, <1>2
    <3> QED BY <3>1, <3>2, <3>3
  <2>3. \A i \in 1..readPos : delivered[i] = Whole(published'[i])
    <3>1. \A i \in 1..readPos : i \in 1..writePos
      BY CursorTypes DEF CursorInv
    <3> QED BY <3>1, <1>4 DEF ContentInv
  <2> QED BY <2>1, <2>2, <2>3, <1>4 DEF ContentInv, SlotIndex, Whole
<1> QED BY <1>5, <1>6, <1>7, <1>8, <1>9, <1>10

LEMMA ClosePublicationStep ==
  ASSUME RingInv, ClosePublication
  PROVE  RingInv'
<1> USE DEF RingInv, ClosePublication, pVars, cVars, cMemory
<1>1. closeSync' = writePos
  BY DEF Carried, CloseStoreOrder
<1>2. TypeOK'
  BY <1>1 DEF TypeOK
<1>3. ClosureInv'
  BY <1>1 DEF ClosureInv
<1>4. CursorInv' /\ ProducerInv' /\ ConsumerInv' /\ ContentInv'
  BY DEF CursorInv, ProducerInv, ConsumerInv, ContentInv
<1> QED BY <1>2, <1>3, <1>4

LEMMA ReattachProducerStep ==
  ASSUME RingInv, ReattachProducer
  PROVE  RingInv'
<1> USE DEF RingInv, ReattachProducer, cVars, pMemory, cMemory
<1>1. TypeOK'
  <2>1. 0 \in Position
    BY MaxPositionAssumption DEF Position
  <2> QED BY <2>1 DEF TypeOK
<1>2. CursorInv'
  BY CursorTypes DEF CursorInv
<1>3. ProducerInv' /\ ConsumerInv' /\ ClosureInv' /\ ContentInv'
  BY DEF ProducerInv, ConsumerInv, ClosureInv, ContentInv
<1> QED BY <1>1, <1>2, <1>3

LEMMA BeginAcquireStep ==
  ASSUME RingInv, BeginAcquire
  PROVE  RingInv'
<1> USE DEF RingInv, BeginAcquire, pVars, pMemory, cMemory
<1>1. TypeOK'
  BY DEF TypeOK
<1>2. ConsumerInv'
  <2>1. cPc' = "readSlot" => readPos < cachedWrite
    BY CursorTypes
  <2> QED BY <2>1 DEF ConsumerInv
<1>3. CursorInv' /\ ProducerInv' /\ ClosureInv' /\ ContentInv'
  BY DEF CursorInv, ProducerInv, ClosureInv, ContentInv
<1> QED BY <1>1, <1>2, <1>3

LEMMA AcquireAgainStep ==
  ASSUME RingInv, AcquireAgain
  PROVE  RingInv'
<1> USE DEF RingInv, AcquireAgain, pVars, pMemory, cMemory
<1>1. TypeOK'
  BY DEF TypeOK
<1>2. CursorInv' /\ ProducerInv' /\ ConsumerInv' /\ ClosureInv' /\ ContentInv'
  BY DEF CursorInv, ProducerInv, ConsumerInv, ClosureInv, ContentInv
<1> QED BY <1>1, <1>2

\* Whoever has seen Closed knows of every publication.
LEMMA SeeStateFacts ==
  ASSUME RingInv, SeeState
  PROVE  /\ sawClosed' \in BOOLEAN
         /\ sawClosed' => state = "Closed" /\ cKnows' = writePos
         /\ cKnows' \in {cKnows, writePos}
<1> USE DEF RingInv, SeeState
<1>1. sawClosed' \in BOOLEAN /\ (sawClosed' => state = "Closed")
  BY DEF TypeOK, ClosureInv
<1>2. CASE sawClosed'
  <2>1. closeSync = writePos
    BY <1>1, <1>2 DEF ClosureInv
  <2>2. cKnows' = Learned(StateLoadOrder, cKnows, writePos)
    BY <1>2, <2>1
  <2>3. cKnows' = writePos
    BY <2>2, CursorTypes DEF Learned, StateLoadOrder, CursorInv
  <2> QED BY <1>1, <1>2, <2>3
<1>3. CASE ~sawClosed'
  BY <1>1, <1>3
<1> QED BY <1>2, <1>3

LEMMA LoadStateStep ==
  ASSUME RingInv, LoadState
  PROVE  RingInv'
<1> USE DEF RingInv, pVars, pMemory, cMemory
<1>1. /\ sawClosed' \in BOOLEAN
      /\ sawClosed' => state = "Closed" /\ cKnows' = writePos
      /\ cKnows' \in {cKnows, writePos}
  BY SeeStateFacts DEF LoadState
<1>2. /\ cPc = "loadState" /\ cPc' = "loadWritePosition"
      /\ UNCHANGED <<cachedWrite, acquired, acquiredPos, view, cResult>>
      /\ UNCHANGED <<pVars, pMemory, cMemory>>
  BY DEF LoadState
<1>3. TypeOK'
  BY <1>1, <1>2 DEF TypeOK
<1>4. CursorInv'
  BY <1>1, <1>2, CursorTypes DEF CursorInv
<1>5. ConsumerInv' /\ ClosureInv'
  BY <1>1, <1>2 DEF ConsumerInv, ClosureInv
<1>6. ProducerInv' /\ ContentInv'
  BY <1>2 DEF ProducerInv, ContentInv
<1> QED BY <1>3, <1>4, <1>5, <1>6

\* A stale Empty is possible, a stale Closed is not.
LEMMA LoadWritePositionStep ==
  ASSUME RingInv, LoadWritePosition
  PROVE  RingInv'
<1> USE DEF RingInv, pVars, pMemory, cMemory
<1>1. PICK pos \in cKnows..writePos :
        /\ pos >= cachedWrite
        /\ cachedWrite' = pos
        /\ cKnows' = Learned(WritePositionLoadOrder, cKnows, wSync[pos])
        /\ \/ /\ pos = readPos
              /\ cResult' = IF sawClosed THEN "Closed" ELSE "Empty"
              /\ cPc' = "idle"
           \/ /\ pos # readPos
              /\ cPc' = "readSlot"
              /\ UNCHANGED cResult
  BY DEF LoadWritePosition, DrainedVerdict
<1>2. /\ cPc = "loadWritePosition"
      /\ UNCHANGED <<sawClosed, acquired, acquiredPos, view>>
      /\ UNCHANGED <<pVars, pMemory, cMemory>>
  BY DEF LoadWritePosition, DrainedVerdict
<1>3. pos \in 0..writePos /\ pos \in Nat /\ pos >= cKnows /\ pos >= readPos
  BY CursorTypes DEF CursorInv
<1>4. pos \in Position
  BY <1>3, CursorTypes, MaxPositionAssumption DEF Position
<1>5. cKnows' = pos
  <2>1. wSync[pos] = pos
    BY <1>3 DEF CursorInv
  <2> QED BY <1>1, <1>3, <2>1, CursorTypes DEF Learned, WritePositionLoadOrder
<1>6. sawClosed => state = "Closed" /\ pos = writePos
  BY <1>3, CursorTypes DEF ClosureInv
<1>7. TypeOK'
  BY <1>1, <1>2, <1>4, <1>5 DEF TypeOK
<1>8. CursorInv'
  BY <1>1, <1>2, <1>3, <1>5, CursorTypes DEF CursorInv
<1>9. ConsumerInv'
  <2>1. cPc' = "readSlot" => readPos < pos
    BY <1>1, <1>3, CursorTypes
  <2> QED BY <1>1, <1>2, <2>1 DEF ConsumerInv
<1>10. ClosureInv'
  BY <1>1, <1>2, <1>5, <1>6 DEF ClosureInv
<1>11. ProducerInv' /\ ContentInv'
  BY <1>2 DEF ProducerInv, ContentInv
<1> QED BY <1>7, <1>8, <1>9, <1>10, <1>11

\* The slot at the read position holds the next event, whole.
LEMMA NextSlot ==
  ASSUME RingInv, readPos < cachedWrite
  PROVE  /\ readPos < writePos
         /\ cachedWrite <= readPos + SlotCount
         /\ slots[SlotIndex(readPos)] = Whole(published[readPos + 1])
         /\ published[readPos + 1] \in Event \ TooLarge
<1> USE DEF RingInv
<1>1. readPos < writePos /\ cachedWrite <= readPos + SlotCount
  BY CursorTypes, SlotCountPositive DEF CursorInv
<1>2. readPos \in readPos..writePos - 1 /\ readPos + 1 \in 1..writePos
  BY <1>1, CursorTypes
<1>3. published \in Seq(Event) /\ Len(published) = writePos
  BY DEF TypeOK, ContentInv
<1>4. published[readPos + 1] \in Event
  BY <1>2, <1>3
<1> QED BY <1>1, <1>2, <1>4 DEF ContentInv

LEMMA ReadSlotStep ==
  ASSUME RingInv, ReadSlot
  PROVE  RingInv'
<1> USE DEF RingInv, pVars, pMemory, cMemory
<1>1. readPos < cachedWrite
  BY DEF ReadSlot, ConsumerInv
<1>2. ~AcquireFails
  <2>1. ~(readPos > cachedWrite) /\ ~(Sub(cachedWrite, readPos) > SlotCount)
    BY <1>1, NextSlot, CursorTypes, SlotCountPositive DEF Sub
  <2>2. ~InvalidSlot(slots[SlotIndex(readPos)])
    BY <1>1, NextSlot DEF InvalidSlot, Whole
  <2> QED BY <2>1, <2>2 DEF AcquireFails
<1>3. /\ acquired' = TRUE /\ acquiredPos' = readPos
      /\ view' = published[readPos + 1]
      /\ cResult' = "Event" /\ cPc' = "idle"
      /\ UNCHANGED <<sawClosed, cachedWrite, cKnows>>
      /\ UNCHANGED <<pVars, pMemory, cMemory>>
  BY <1>1, <1>2, NextSlot DEF ReadSlot, Whole
<1>4. TypeOK'
  BY <1>1, <1>3, NextSlot DEF TypeOK
<1>5. ConsumerInv'
  BY <1>1, <1>3 DEF ConsumerInv
<1>6. CursorInv' /\ ProducerInv' /\ ClosureInv' /\ ContentInv'
  BY <1>3 DEF CursorInv, ProducerInv, ClosureInv, ContentInv
<1> QED BY <1>4, <1>5, <1>6

LEMMA ReleaseStep ==
  ASSUME RingInv, Release
  PROVE  RingInv'
<1> USE DEF RingInv, Release, EndLoan, pVars, pMemory
<1> DEFINE r == [header |-> view, payload |-> slots[SlotIndex(acquiredPos)].payload]
<1>1. acquiredPos = readPos /\ readPos < cachedWrite /\ view = published[readPos + 1]
  BY DEF ConsumerInv
<1>2. /\ readPos < writePos
      /\ published[readPos + 1] \in Event
      /\ r = Whole(published[readPos + 1])
  BY <1>1, NextSlot DEF Whole
<1>3. readPos' = readPos + 1 /\ readPos + 1 \in Position
  BY <1>1, <1>2, CursorTypes, MaxPositionAssumption DEF Position
<1>4. rSync' = [rSync EXCEPT ![readPos + 1] = readPos + 1]
  BY <1>1 DEF Carried, ReleaseStoreOrder
<1>5. /\ delivered' \in Seq(Slot)
      /\ Len(delivered') = readPos + 1
      /\ \A i \in 1..readPos : delivered'[i] = delivered[i]
      /\ delivered'[readPos + 1] = Whole(published[readPos + 1])
  <2>1. r \in Slot
    BY <1>2 DEF Whole, Slot
  <2>2. delivered' = Append(delivered, r)
    OBVIOUS
  <2>3. delivered \in Seq(Slot) /\ Len(delivered) = readPos
    BY DEF TypeOK, ContentInv
  <2> HIDE DEF r
  <2> QED BY <1>2, <2>1, <2>2, <2>3, AppendFacts
<1>6. TypeOK'
  <2>1. 0 \in Position
    BY MaxPositionAssumption DEF Position
  <2>2. rSync' \in [Position -> Position]
    BY <1>3, <1>4 DEF TypeOK
  <2>3. /\ acquired' = FALSE /\ acquiredPos' = 0 /\ view' = NoEvent /\ cResult' = "None"
        /\ UNCHANGED <<cPc, sawClosed, cachedWrite, cKnows, pVars, pMemory>>
    OBVIOUS
  <2> HIDE DEF Release
  <2> QED BY SMTT(30), <1>3, <1>5, <2>1, <2>2, <2>3 DEF TypeOK
<1>7. CursorInv'
  <2>1. \A p \in 0..readPos + 1 : rSync'[p] = p
    <3> SUFFICES ASSUME NEW p \in 0..readPos + 1 PROVE rSync'[p] = p
      OBVIOUS
    <3>1. rSync \in [Position -> Position]
      BY DEF TypeOK
    <3>2. CASE p = readPos + 1
      BY <3>1, <3>2, <1>3, <1>4
    <3>3. CASE p \in 0..readPos
      <4>1. p \in Position /\ p # readPos + 1
        BY <3>3, <1>2, CursorTypes, MaxPositionAssumption DEF Position
      <4> QED BY <3>1, <3>3, <4>1, <1>4 DEF CursorInv
    <3> QED BY <3>2, <3>3, CursorTypes
  <2> QED BY <2>1, <1>1, <1>2, <1>3, CursorTypes DEF CursorInv
<1>8. ConsumerInv' /\ ProducerInv'
  BY DEF ConsumerInv, ProducerInv
<1>9. ClosureInv'
  BY DEF ClosureInv
<1>10. ContentInv'
  <2>1. \A p \in readPos'..writePos - 1 : p \in readPos..writePos - 1
    BY <1>3, CursorTypes
  <2>2. \A i \in 1..readPos + 1 : delivered'[i] = Whole(published[i])
    <3> SUFFICES ASSUME NEW i \in 1..readPos + 1
                 PROVE  delivered'[i] = Whole(published[i])
      OBVIOUS
    <3>1. CASE i = readPos + 1
      BY <3>1, <1>5
    <3>2. CASE i \in 1..readPos
      BY <3>2, <1>5 DEF ContentInv
    <3>3. i = readPos + 1 \/ i \in 1..readPos
      <4> HIDE DEF Release
      <4> QED BY CursorTypes
    <3> QED BY <3>1, <3>2, <3>3
  <2> QED BY <1>3, <1>5, <2>1, <2>2 DEF ContentInv
<1> QED BY <1>6, <1>7, <1>8, <1>9, <1>10

LEMMA ReattachConsumerStep ==
  ASSUME RingInv, ReattachConsumer
  PROVE  RingInv'
<1> USE DEF RingInv, pVars, pMemory, cMemory
<1>1. /\ sawClosed' \in BOOLEAN
      /\ sawClosed' => state = "Closed" /\ cKnows' = writePos
      /\ cKnows' \in {cKnows, writePos}
  BY SeeStateFacts DEF ReattachConsumer, EndLoan
<1>2. /\ cPc' = "idle" /\ cachedWrite' = 0 /\ acquired' = FALSE
      /\ acquiredPos' = 0 /\ view' = NoEvent /\ cResult' = "None"
      /\ UNCHANGED <<pVars, pMemory, cMemory>>
  BY DEF ReattachConsumer, EndLoan
<1>3. TypeOK'
  <2>1. 0 \in Position
    BY MaxPositionAssumption DEF Position
  <2> QED BY <1>1, <1>2, <2>1 DEF TypeOK
<1>4. CursorInv'
  BY <1>1, <1>2, CursorTypes DEF CursorInv
<1>5. ConsumerInv' /\ ClosureInv'
  BY <1>1, <1>2 DEF ConsumerInv, ClosureInv
<1>6. ProducerInv' /\ ContentInv'
  BY <1>2 DEF ProducerInv, ContentInv
<1> QED BY <1>3, <1>4, <1>5, <1>6

-----------------------------------------------------------------------------
(***************************************************************************)
(* The theorems.                                                           *)
(***************************************************************************)

\* The inductive invariant holds in every reachable state of the ring.
THEOREM RingInvariance == Spec => []RingInv
<1>1. Init => RingInv
  BY InitRingInv
<1>2. RingInv /\ [Next]_vars => RingInv'
  <2> SUFFICES ASSUME RingInv, [Next]_vars PROVE RingInv'
    OBVIOUS
  <2>1. ASSUME NEW e \in Event, RefuseEvent(e) PROVE RingInv'
    BY <2>1, RefuseEventStep
  <2>2. ASSUME NEW e \in Event, BeginPublish(e) PROVE RingInv'
    BY <2>2, BeginPublishStep
  <2>3. CASE LoadReadPosition BY <2>3, LoadReadPositionStep
  <2>4. CASE FillHeader BY <2>4, FillHeaderStep
  <2>5. CASE CopyPayload BY <2>5, CopyPayloadStep
  <2>6. CASE StoreWritePosition BY <2>6, StoreWritePositionStep
  <2>7. CASE ClosePublication BY <2>7, ClosePublicationStep
  <2>8. CASE ReattachProducer BY <2>8, ReattachProducerStep
  <2>9. CASE BeginAcquire BY <2>9, BeginAcquireStep
  <2>10. CASE AcquireAgain BY <2>10, AcquireAgainStep
  <2>11. CASE LoadState BY <2>11, LoadStateStep
  <2>12. CASE LoadWritePosition BY <2>12, LoadWritePositionStep
  <2>13. CASE ReadSlot BY <2>13, ReadSlotStep
  <2>14. CASE Release BY <2>14, ReleaseStep
  <2>15. CASE ReattachConsumer BY <2>15, ReattachConsumerStep
  <2>16. CASE UNCHANGED vars BY <2>16, StutterStep
  <2> QED BY <2>1, <2>2, <2>3, <2>4, <2>5, <2>6, <2>7, <2>8, <2>9, <2>10,
             <2>11, <2>12, <2>13, <2>14, <2>15, <2>16
          DEF Next, Producer, Consumer
<1> QED BY <1>1, <1>2, PTL DEF Spec

\* Typing: no cursor is ever incremented past the last 64-bit position.
THEOREM TypeCorrect == Spec => []TypeOK
<1>1. RingInv => TypeOK
  BY DEF RingInv
<1> QED BY <1>1, RingInvariance, PTL

\* No slot is accessed by both sides without an ordering between them.
THEOREM RaceFree == Spec => []NoDataRace
<1>1. RingInv => NoDataRace
  <2> SUFFICES ASSUME RingInv PROVE NoDataRace
    OBVIOUS
  <2> QED BY CursorTypes, SlotCountPositive
          DEF RingInv, CursorInv, ProducerInv, ConsumerInv, NoDataRace
<1> QED BY <1>1, RingInvariance, PTL

\* A view stays intact until it is released.
THEOREM ViewStable == Spec => []HeldViewIntact
<1>1. RingInv => HeldViewIntact
  <2> SUFFICES ASSUME RingInv, acquired
               PROVE  /\ acquiredPos < Len(published)
                      /\ slots[SlotIndex(acquiredPos)] = Whole(published[acquiredPos + 1])
                      /\ view = published[acquiredPos + 1]
    BY DEF HeldViewIntact
  <2>1. acquiredPos = readPos /\ readPos < cachedWrite /\ view = published[readPos + 1]
    BY DEF RingInv, ConsumerInv
  <2>2. Len(published) = writePos
    BY DEF RingInv, ContentInv
  <2> QED BY <2>1, <2>2, NextSlot
<1> QED BY <1>1, RingInvariance, PTL

\* What was released is exactly the published prefix, whole and in order.
THEOREM ExactlyOnce == Spec => []ExactlyOnceInOrder
<1>1. RingInv => ExactlyOnceInOrder
  BY DEF RingInv, CursorInv, ContentInv, ExactlyOnceInOrder
<1> QED BY <1>1, RingInvariance, PTL

\* Closed is only reported once the ring is closed and drained.
THEOREM ClosedIsDrained == Spec => []ClosedMeansDrained
<1>1. RingInv => ClosedMeansDrained
  BY DEF RingInv, ClosureInv, ClosedMeansDrained
<1> QED BY <1>1, RingInvariance, PTL

\* Correct peers never see each other as corrupt.
THEOREM NeverFalselyCorrupt == Spec => []NoFalseCorruption
<1>1. RingInv => NoFalseCorruption
  BY DEF RingInv, ConsumerInv, ProducerInv, NoFalseCorruption
<1> QED BY <1>1, RingInvariance, PTL

\* At most SlotCount events are outstanding and all of them fit a slot.
THEOREM CapacityRespected == Spec => []WithinCapacity
<1>1. RingInv => WithinCapacity
  <2> SUFFICES ASSUME RingInv PROVE WithinCapacity
    OBVIOUS
  <2>1. writePos <= readPos + SlotCount
    BY CursorTypes, SlotCountPositive DEF RingInv, CursorInv
  <2>2. \A i \in 1..Len(published) : published[i] \notin TooLarge
    BY DEF RingInv, ContentInv
  <2> QED BY <2>1, <2>2 DEF WithinCapacity
<1> QED BY <1>1, RingInvariance, PTL

-----------------------------------------------------------------------------
(***************************************************************************)
(* Refinement: which step of the queue each step of the ring is.           *)
(***************************************************************************)
LEMMA RefinesInit == Init => Queue!Init
  BY DEF Init, Queue!Init

LEMMA RefinesStep ==
  ASSUME RingInv, [Next]_vars
  PROVE  [Queue!Next]_(Queue!vars)
<1> USE DEF Queue!vars
<1>1. ASSUME NEW e \in Event, RefuseEvent(e) \/ BeginPublish(e)
      PROVE  UNCHANGED Queue!vars
  BY <1>1 DEF RefuseEvent, BeginPublish, LooksFull, cVars, pMemory, cMemory
<1>2. CASE LoadReadPosition \/ ReattachProducer
  BY <1>2 DEF LoadReadPosition, ReadPositions, ReattachProducer, cVars, pMemory, cMemory
<1>3. CASE FillHeader \/ CopyPayload
  BY <1>3 DEF FillHeader, CopyPayload, cVars, cMemory
<1>4. CASE StoreWritePosition
  <2>1. /\ event \in Event \ TooLarge /\ writePos < MaxPosition /\ state = "Ready"
        /\ writePos < cachedRead + SlotCount /\ cachedRead <= readPos
        /\ Len(published) = writePos
    BY <1>4, CursorTypes
      DEF StoreWritePosition, RingInv, ProducerInv, CursorInv, ContentInv
  <2>2. Len(published) - readPos < SlotCount
    BY <2>1, CursorTypes, SlotCountPositive
  <2>3. Queue!Publish(event)
    BY <1>4, <2>1, <2>2 DEF StoreWritePosition, cVars, cMemory, Queue!Publish
  <2> QED BY <2>1, <2>3 DEF Queue!Next
<1>5. CASE ClosePublication
  BY <1>5 DEF ClosePublication, pVars, cVars, cMemory, Queue!Next, Queue!Close
<1>6. CASE BeginAcquire
  BY <1>6 DEF BeginAcquire, pMemory, cMemory, Queue!Next, Queue!Ask
<1>7. CASE AcquireAgain
  BY <1>7 DEF AcquireAgain, pMemory, cMemory, Queue!Next, Queue!RefuseSecondLoan
<1>8. CASE LoadState
  BY <1>8 DEF LoadState, pMemory, cMemory
<1>9. CASE LoadWritePosition
  <2>1. ~acquired
    BY <1>9 DEF LoadWritePosition, DrainedVerdict, RingInv, ConsumerInv
  <2>2. UNCHANGED <<published, readPos, acquired, state>>
    BY <1>9 DEF LoadWritePosition, DrainedVerdict, pMemory, cMemory
  <2>3. cResult' = cResult \/ cResult' = "Empty" \/ cResult' = "Closed"
    BY <1>9 DEF LoadWritePosition, DrainedVerdict
  <2>4. CASE cResult' = cResult
    BY <2>2, <2>4
  <2>5. CASE cResult' = "Empty"
    BY <2>1, <2>2, <2>5 DEF Queue!Next, Queue!ReportEmpty
  <2>6. CASE cResult' = "Closed"
    <3>1. RingInv'
      BY <1>9, LoadWritePositionStep
    <3>2. state = "Closed" /\ readPos = Len(published)
      BY <2>2, <2>6, <3>1 DEF RingInv, ClosureInv, ContentInv
    <3> QED BY <2>1, <2>2, <2>6, <3>2 DEF Queue!Next, Queue!ReportClosed
  <2> QED BY <2>3, <2>4, <2>5, <2>6
<1>10. CASE ReadSlot
  <2>1. RingInv'
    BY <1>10, ReadSlotStep
  <2>2. ~acquired /\ readPos < cachedWrite
    BY <1>10 DEF ReadSlot, RingInv, ConsumerInv
  <2>3. readPos < Len(published)
    BY <2>2, NextSlot DEF RingInv, ContentInv
  <2>4. acquired' = TRUE /\ cResult' = "Event"
    BY <1>10, <2>1 DEF ReadSlot, RingInv, ConsumerInv
  <2>5. UNCHANGED <<published, readPos, state>>
    BY <1>10 DEF ReadSlot, pMemory, cMemory
  <2> QED BY <2>2, <2>3, <2>4, <2>5 DEF Queue!Next, Queue!Lend
<1>11. CASE Release
  <2>1. acquiredPos = readPos
    BY <1>11 DEF Release, EndLoan, RingInv, ConsumerInv
  <2> QED BY <1>11, <2>1 DEF Release, EndLoan, pMemory, Queue!Next, Queue!GiveBack
<1>12. CASE ReattachConsumer
  BY <1>12 DEF ReattachConsumer, EndLoan, pMemory, cMemory, Queue!Next, Queue!Abandon
<1>13. CASE UNCHANGED vars
  BY <1>13 DEF vars, cVars, pMemory, cMemory
<1> QED BY <1>1, <1>2, <1>3, <1>4, <1>5, <1>6, <1>7, <1>8, <1>9, <1>10, <1>11,
           <1>12, <1>13
        DEF Next, Producer, Consumer

\* Every behaviour of the ring, stale loads and restarts included, is one of
\* a bounded FIFO queue.
THEOREM RingImplementsQueue == Spec => ImplementsQueue
<1>1. Init => Queue!Init
  BY RefinesInit
<1>2. RingInv /\ [Next]_vars => [Queue!Next]_(Queue!vars)
  BY RefinesStep
<1> QED BY <1>1, <1>2, RingInvariance, PTL DEF Spec, ImplementsQueue, Queue!Spec
-----------------------------------------------------------------------------
\* close_publication() is final: a ring that is closed stays closed and gets
\* no further event, so what a consumer was told stays true.
ClosedIsFinal == [][state = "Closed" => UNCHANGED <<state, published>>]_vars

\* No publication completes on a closed ring, whatever the producer had begun
\* before and however often it attaches again: the queue has no such step.
THEOREM ClosureIsFinal == Spec => ClosedIsFinal
<1>1. ASSUME RingInv, [Next]_vars
      PROVE  [state = "Closed" => UNCHANGED <<state, published>>]_vars
  <2>1. [Queue!Next]_(Queue!vars)
    BY <1>1, RefinesStep
  <2>2. state = "Closed" => (state' = "Closed") /\ published' = published
    BY <2>1 DEF Queue!Next, Queue!vars, Queue!Publish, Queue!Close, Queue!Ask, Queue!Lend,
       Queue!ReportEmpty, Queue!ReportClosed, Queue!RefuseSecondLoan, Queue!GiveBack,
       Queue!Abandon
  <2> QED BY <2>2
<1> QED BY <1>1, RingInvariance, PTL DEF Spec, ClosedIsFinal
=============================================================================
