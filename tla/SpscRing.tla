------------------------------ MODULE SpscRing ------------------------------
(***************************************************************************)
(* lle::shm::SpscRing: one producer and one consumer over a ring in shared *)
(* memory (include/shm/spsc_ring.hpp, src/shm/spsc_ring.cpp).              *)
(*                                                                         *)
(* Memory model.  The two cursors and the segment state are C++ atomics    *)
(* with one writer each, so their modification order is the order of that  *)
(* writer's stores: a cursor takes the values 0, 1, 2, ...  A load by the  *)
(* other side returns ANY value of that order that coherence and           *)
(* happens-before still allow, not only the newest one.  A release store   *)
(* carries what its thread has done so far; an acquire load that reads it  *)
(* adds that to what its own thread knows:                                 *)
(*   pKnows  how many slot reads-and-releases of the consumer happen       *)
(*           before the producer's next step;                              *)
(*   cKnows  how many slot writes of the producer happen before the        *)
(*           consumer's next step.                                         *)
(* A relaxed store carries nothing and a relaxed load learns nothing.      *)
(* Slots are plain memory: an access to one is a data race unless the      *)
(* conflicting access of the other side happens before it.                 *)
(*                                                                         *)
(* Each side may also be restarted between any two of its steps: the       *)
(* handle is lost and a new one attaches to the running ring.              *)
(***************************************************************************)
EXTENDS Integers, Sequences

CONSTANTS
  SlotCount,    \* slot_count: a power of two, at least 2
  MaxPosition,  \* numeric_limits<uint64_t>::max(), the last cursor value
  Event,        \* the events a producer may try to publish
  TooLarge,     \* those whose payload exceeds slot_payload_capacity
  NoEvent       \* zeroed slot memory, or no event

ASSUME SlotCountAssumption ==
  /\ SlotCount \in Nat
  /\ SlotCount >= 2
  /\ \E k \in 1..31 : SlotCount = 2^k

ASSUME MaxPositionAssumption == MaxPosition \in Nat

ASSUME EventAssumption == TooLarge \subseteq Event /\ NoEvent \notin Event

VARIABLES
  \* Shared memory: RingHeader and the slots.
  state,        \* preamble.state, "Ready" or "Closed" once initialised
  closeSync,    \* publications carried by the store of Closed
  writePos,     \* producer.position, newest value
  wSync,        \* slot writes carried by the store of each write position
  readPos,      \* consumer.position, newest value
  rSync,        \* slot reads carried by the store of each read position
  slots,        \* RingSlotHeader and payload of every slot
  \* The producer's thread and its handle.
  pPc, event, cachedRead, initializer, pResult, filled, pKnows,
  \* The consumer's thread and its handle.
  cPc, sawClosed, cachedWrite, acquired, acquiredPos, view, cResult, cKnows,
  \* History: the events published Ok and the events released, in order.
  published, delivered

pVars == <<pPc, event, cachedRead, initializer, pResult, filled, pKnows>>
cVars == <<cPc, sawClosed, cachedWrite, acquired, acquiredPos, view, cResult,
           cKnows>>
pMemory == <<state, closeSync, writePos, wSync, slots, published>>
cMemory == <<readPos, rSync, delivered>>
vars == <<pVars, cVars, pMemory, cMemory>>

-----------------------------------------------------------------------------
Position == 0..MaxPosition

\* Subtraction of std::uint64_t values.
Sub(a, b) == IF a >= b THEN a - b ELSE a - b + MaxPosition + 1

\* position & (slot_count - 1), for slot_count a power of two.
SlotIndex(pos) == pos % SlotCount

\* Header metadata and payload bytes are written separately; each stands
\* for the event it was copied from.
Slot == [header : Event \cup {NoEvent}, payload : Event \cup {NoEvent}]

Whole(e) == [header |-> e, payload |-> e]

\* payload_length > slot_payload_capacity (a zeroed header has length 0).
InvalidSlot(slot) == slot.header \in TooLarge

\* The memory orders written in the code, one per atomic access that the
\* other side synchronises with.
RelaxedOrder == "relaxed"   \* a weaker order, for comparison
PublishStoreOrder == "release"
ReleaseStoreOrder == "release"
CloseStoreOrder == "release"
ReadPositionLoadOrder == "acquire"
WritePositionLoadOrder == "acquire"
StateLoadOrder == "acquire"

\* What a store carries, and what a thread knows after a load.
Carried(order, count) == IF order = "release" THEN count ELSE 0
Learned(order, known, carried) ==
  IF order = "acquire" /\ carried > known THEN carried ELSE known

Init ==
  /\ state = "Ready" /\ closeSync = 0
  /\ writePos = 0 /\ wSync = [p \in Position |-> 0]
  /\ readPos = 0 /\ rSync = [p \in Position |-> 0]
  /\ slots = [i \in 0..SlotCount - 1 |-> Whole(NoEvent)]
  /\ pPc = "idle" /\ event = NoEvent /\ cachedRead = 0
  /\ initializer = TRUE /\ pResult = "None" /\ filled = 0 /\ pKnows = 0
  /\ cPc = "idle" /\ sawClosed = FALSE /\ cachedWrite = 0
  /\ acquired = FALSE /\ acquiredPos = 0 /\ view = NoEvent
  /\ cResult = "None" /\ cKnows = 0
  /\ published = <<>> /\ delivered = <<>>

-----------------------------------------------------------------------------
(***************************************************************************)
(* Producer: try_publish() and close_publication().                        *)
(***************************************************************************)

\* Faults: the guard on the last position, or on the payload, is missing.
PublishCheckWithoutLastPosition(e) ==
  IF state # "Ready" THEN "Closed"
  ELSE IF e \in TooLarge THEN "PayloadTooLarge" ELSE "Proceed"

PublishCheckWithoutSize(e) ==
  IF state # "Ready" \/ writePos = MaxPosition THEN "Closed" ELSE "Proceed"

\* The checks made before the consumer's cursor is looked at.  State and
\* write position are only written by the producer's side, so its own
\* loads of them return the newest value.
PublishCheck(e) ==
  CASE state # "Ready"                                     -> "Closed"
    [] state = "Ready" /\ e \in TooLarge                   -> "PayloadTooLarge"
    [] state = "Ready" /\ e \notin TooLarge
                       /\ writePos = MaxPosition           -> "Closed"
    [] OTHER                                               -> "Proceed"

RefuseEvent(e) ==
  /\ pPc = "idle"
  /\ PublishCheck(e) # "Proceed"
  /\ pResult' = PublishCheck(e)
  /\ UNCHANGED <<pPc, event, cachedRead, initializer, filled, pKnows, cVars,
                 pMemory, cMemory>>

\* Fault: one slot too many is used before the cursor is looked at.
LooksFullLate == Sub(writePos, cachedRead) > SlotCount

LooksFull == Sub(writePos, cachedRead) >= SlotCount

\* The cached read position decides whether the consumer's cache line is
\* touched at all.
BeginPublish(e) ==
  /\ pPc = "idle"
  /\ PublishCheck(e) = "Proceed"
  /\ event' = e
  /\ pResult' = "None"
  /\ pPc' = IF LooksFull THEN "loadReadPosition" ELSE "fillHeader"
  /\ UNCHANGED <<cachedRead, initializer, filled, pKnows, cVars, pMemory, cMemory>>

\* Fault: a full ring is taken for one with a free slot.
FullCheckOffByOne(pos) ==
  IF pos > writePos \/ Sub(writePos, pos) > SlotCount THEN "Closed" ELSE "Proceed"

\* What the producer makes of the read position it loaded.
FullCheck(pos) ==
  CASE pos > writePos \/ Sub(writePos, pos) > SlotCount    -> "Closed"
    [] pos <= writePos /\ Sub(writePos, pos) = SlotCount   -> "Full"
    [] OTHER                                               -> "Proceed"

\* Fault: the cached value is not refreshed.
ReadPositionsCached == {cachedRead}

\* What a load of the read position may return.
ReadPositions == {pos \in pKnows..readPos : pos >= cachedRead}

LoadReadPosition ==
  /\ pPc = "loadReadPosition"
  /\ \E pos \in ReadPositions :
       /\ cachedRead' = pos
       /\ pKnows' = Learned(ReadPositionLoadOrder, pKnows, rSync[pos])
       /\ \/ /\ FullCheck(pos) = "Proceed"
             /\ pPc' = "fillHeader"
             /\ UNCHANGED <<event, pResult>>
          \/ /\ FullCheck(pos) # "Proceed"
             /\ pPc' = "idle"
             /\ event' = NoEvent
             /\ pResult' = FullCheck(pos)
  /\ UNCHANGED <<initializer, filled, cVars, pMemory, cMemory>>

FillHeader ==
  /\ pPc = "fillHeader"
  /\ slots' = [slots EXCEPT ![SlotIndex(writePos)].header = event]
  /\ filled' = writePos
  /\ pPc' = "copyPayload"
  /\ UNCHANGED <<event, cachedRead, initializer, pResult, pKnows, state,
                 closeSync, writePos, wSync, published, cVars, cMemory>>

CopyPayload ==
  /\ pPc = "copyPayload"
  /\ slots' = [slots EXCEPT ![SlotIndex(writePos)].payload = event]
  /\ filled' = writePos + 1
  /\ pPc' = "storeWritePosition"
  /\ UNCHANGED <<event, cachedRead, initializer, pResult, pKnows, state,
                 closeSync, writePos, wSync, published, cVars, cMemory>>

StoreWritePosition ==
  /\ pPc = "storeWritePosition"
  /\ writePos' = writePos + 1
  /\ wSync' = [wSync EXCEPT ![writePos + 1] = Carried(PublishStoreOrder, filled)]
  /\ published' = Append(published, event)
  /\ pResult' = "Ok"
  /\ event' = NoEvent
  /\ pPc' = "idle"
  /\ UNCHANGED <<cachedRead, initializer, filled, pKnows, state, closeSync,
                 slots, cVars, cMemory>>

\* Only the initialiser's handle closes, and only between publications.
ClosePublication ==
  /\ pPc = "idle"
  /\ initializer
  /\ state' = "Closed"
  /\ closeSync' = Carried(CloseStoreOrder, writePos)
  /\ UNCHANGED <<writePos, wSync, slots, published, pVars, cVars, cMemory>>

\* The producer's handle is lost between any two steps and its successor
\* attaches to the running ring; a half-written slot stays as it is.
ReattachProducer ==
  /\ pPc' = "idle"
  /\ event' = NoEvent
  /\ cachedRead' = 0
  /\ initializer' = FALSE
  /\ pResult' = "None"
  /\ UNCHANGED <<filled, pKnows, cVars, pMemory, cMemory>>

-----------------------------------------------------------------------------
(***************************************************************************)
(* Consumer: try_acquire() and release().                                  *)
(***************************************************************************)

\* The consumer loads the state: "Ready" may be stale until it has once
\* read "Closed".
SeeState ==
  /\ sawClosed' \in {sawClosed, state = "Closed"}
  /\ cKnows' = IF sawClosed' THEN Learned(StateLoadOrder, cKnows, closeSync)
                             ELSE cKnows

BeginAcquire ==
  /\ cPc = "idle"
  /\ ~acquired
  /\ cPc' = IF readPos >= cachedWrite THEN "loadState" ELSE "readSlot"
  /\ cResult' = "None"
  /\ UNCHANGED <<sawClosed, cachedWrite, acquired, acquiredPos, view, cKnows,
                 pVars, pMemory, cMemory>>

AcquireAgain ==
  /\ cPc = "idle"
  /\ acquired
  /\ cResult' = "AlreadyAcquired"
  /\ UNCHANGED <<cPc, sawClosed, cachedWrite, acquired, acquiredPos, view,
                 cKnows, pVars, pMemory, cMemory>>

LoadState ==
  /\ cPc = "loadState"
  /\ SeeState
  /\ cPc' = "loadWritePosition"
  /\ UNCHANGED <<cachedWrite, acquired, acquiredPos, view, cResult, pVars,
                 pMemory, cMemory>>

\* Faults: closure is looked up after the write position, or never reported.
DrainedVerdictLate == IF state = "Closed" THEN "Closed" ELSE "Empty"
DrainedVerdictEmpty == "Empty"

\* The answer when no event is left, from the state loaded first.
DrainedVerdict == IF sawClosed THEN "Closed" ELSE "Empty"

LoadWritePosition ==
  /\ cPc = "loadWritePosition"
  /\ \E pos \in cKnows..writePos :
       /\ pos >= cachedWrite
       /\ cachedWrite' = pos
       /\ cKnows' = Learned(WritePositionLoadOrder, cKnows, wSync[pos])
       /\ \/ /\ pos = readPos
             /\ cResult' = DrainedVerdict
             /\ cPc' = "idle"
          \/ /\ pos # readPos
             /\ cPc' = "readSlot"
             /\ UNCHANGED cResult
  /\ UNCHANGED <<sawClosed, acquired, acquiredPos, view, pVars, pMemory, cMemory>>

\* Cursors that no correct peer can produce, or a corrupt slot header.
AcquireFails ==
  \/ readPos > cachedWrite
  \/ Sub(cachedWrite, readPos) > SlotCount
  \/ InvalidSlot(slots[SlotIndex(readPos)])

ReadSlot ==
  /\ cPc = "readSlot"
  /\ \/ /\ AcquireFails
        /\ cResult' = "InvalidSlot"
        /\ UNCHANGED <<acquired, acquiredPos, view>>
     \/ /\ ~AcquireFails
        /\ acquired' = TRUE
        /\ acquiredPos' = readPos
        /\ view' = slots[SlotIndex(readPos)].header
        /\ cResult' = "Event"
  /\ cPc' = "idle"
  /\ UNCHANGED <<sawClosed, cachedWrite, cKnows, pVars, pMemory, cMemory>>

\* Fault: the loan is not ended.
KeepLoan == UNCHANGED <<acquired, acquiredPos, view>>

EndLoan == acquired' = FALSE /\ acquiredPos' = 0 /\ view' = NoEvent

\* The metadata was copied at acquisition; the payload was read in place.
Release ==
  /\ cPc = "idle"
  /\ acquired
  /\ readPos' = acquiredPos + 1
  /\ rSync' = [rSync EXCEPT ![acquiredPos + 1] =
                              Carried(ReleaseStoreOrder, acquiredPos + 1)]
  /\ delivered' = Append(delivered,
                    [header  |-> view,
                     payload |-> slots[SlotIndex(acquiredPos)].payload])
  /\ EndLoan
  /\ cResult' = "None"
  /\ UNCHANGED <<cPc, sawClosed, cachedWrite, cKnows, pVars, pMemory>>

\* The consumer's handle is lost between any two steps, possibly with a slot
\* acquired, and its successor attaches.
ReattachConsumer ==
  /\ SeeState
  /\ cPc' = "idle"
  /\ cachedWrite' = 0
  /\ EndLoan
  /\ cResult' = "None"
  /\ UNCHANGED <<pVars, pMemory, cMemory>>

-----------------------------------------------------------------------------
Producer ==
  \/ \E e \in Event : RefuseEvent(e) \/ BeginPublish(e)
  \/ LoadReadPosition
  \/ FillHeader
  \/ CopyPayload
  \/ StoreWritePosition
  \/ ClosePublication
  \/ ReattachProducer

Consumer ==
  \/ BeginAcquire
  \/ LoadState
  \/ LoadWritePosition
  \/ ReadSlot
  \/ Release

Next == Producer \/ Consumer \/ AcquireAgain \/ ReattachConsumer

Spec == Init /\ [][Next]_vars

-----------------------------------------------------------------------------
(***************************************************************************)
(* Safety.                                                                 *)
(***************************************************************************)

\* The shape of the shared memory, of the two handles and of the history.
TypeOK ==
  /\ state \in {"Ready", "Closed"} /\ closeSync \in Position
  /\ writePos \in Position /\ wSync \in [Position -> Position]
  /\ readPos \in Position /\ rSync \in [Position -> Position]
  /\ slots \in [0..SlotCount - 1 -> Slot]
  /\ pPc \in {"idle", "loadReadPosition", "fillHeader", "copyPayload",
              "storeWritePosition"}
  /\ event \in Event \cup {NoEvent}
  /\ cachedRead \in Position
  /\ initializer \in BOOLEAN
  /\ pResult \in {"None", "Ok", "Full", "PayloadTooLarge", "Closed"}
  /\ filled \in Position /\ pKnows \in Position
  /\ cPc \in {"idle", "loadState", "loadWritePosition", "readSlot"}
  /\ sawClosed \in BOOLEAN
  /\ cachedWrite \in Position
  /\ acquired \in BOOLEAN
  /\ acquiredPos \in Position
  /\ view \in Event \cup {NoEvent}
  /\ cResult \in {"None", "Event", "Empty", "Closed", "AlreadyAcquired",
                  "InvalidSlot"}
  /\ cKnows \in Position
  /\ published \in Seq(Event)
  /\ delivered \in Seq(Slot)

\* Every slot access is ordered by the cursors after the other side's last
\* conflicting access: the producer writes slot position w only when the
\* consumer's release of w - slot_count happens before, and the consumer
\* reads a slot only when the producer's write of it happens before.
NoDataRace ==
  /\ pPc \in {"fillHeader", "copyPayload"} => writePos < pKnows + SlotCount
  /\ cPc = "readSlot" => readPos < cKnows
  /\ acquired => acquiredPos < cKnows

\* The view try_acquire() returned stays what was published, metadata and
\* payload, until release(): no later publication reuses the slot, although
\* the producer decides from a cached read cursor.
HeldViewIntact ==
  acquired => /\ acquiredPos < Len(published)
              /\ slots[SlotIndex(acquiredPos)] = Whole(published[acquiredPos + 1])
              /\ view = published[acquiredPos + 1]

\* The consumers, restarts included, release every event once, whole and in
\* publication order: what was released is a prefix of what was published.
ExactlyOnceInOrder ==
  /\ Len(delivered) = readPos
  /\ Len(published) = writePos
  /\ readPos <= writePos
  /\ \A i \in 1..readPos : delivered[i] = Whole(published[i])

\* try_acquire() reports Closed only when every publication, the last one
\* before close_publication() included, has been released.
ClosedMeansDrained ==
  cResult = "Closed" => state = "Closed" /\ readPos = writePos

\* The corruption checks never fire between correct peers, however stale the
\* cursors they load are: no InvalidSlot, and no Closed from try_publish()
\* unless the ring is closed or its position space is used up.
NoFalseCorruption ==
  /\ cResult # "InvalidSlot"
  /\ pResult = "Closed" => state = "Closed" \/ writePos = MaxPosition

\* The write cursor is never stored beyond the slots the consumer gave back,
\* and a payload that does not fit is never published.
WithinCapacity ==
  /\ writePos <= readPos + SlotCount
  /\ \A i \in 1..Len(published) : published[i] \notin TooLarge

-----------------------------------------------------------------------------
(***************************************************************************)
(* Refinement: the ring implements the bounded FIFO queue.                 *)
(***************************************************************************)

Queue == INSTANCE EventQueue WITH
           sent    <- published,
           taken   <- readPos,
           held    <- acquired,
           closed  <- (state = "Closed"),
           verdict <- cResult

\* Every step of the two handles is a step of the queue, or is invisible.
ImplementsQueue == Queue!Spec

-----------------------------------------------------------------------------
(***************************************************************************)
(* Liveness.  The consumer's owner calls try_acquire() and release() again *)
(* and again; a call once begun runs to its end; and a thread that keeps   *)
(* loading an atomic eventually reads its last store.                      *)
(***************************************************************************)

LoadNewestState == LoadState /\ sawClosed' = (state = "Closed")
LoadNewestWritePosition == LoadWritePosition /\ cachedWrite' = writePos
LoadNewestReadPosition == LoadReadPosition /\ cachedRead' = readPos

Fairness ==
  /\ WF_vars(Consumer)
  /\ SF_vars(LoadNewestState)
  /\ SF_vars(LoadNewestWritePosition)
  /\ SF_vars(LoadNewestReadPosition)

FairSpec == Spec /\ Fairness

\* Once closed, the ring is drained and the consumer is told so, if it is
\* not restarted for ever.
DrainedAfterClose ==
  <>[][~ReattachConsumer]_vars =>
    (state = "Closed" ~> (cResult = "Closed" /\ Len(delivered) = Len(published)))

\* A producer that retries is not answered Full for ever: the stale cached
\* read cursor is refreshed until the publication goes through.
FullIsTransient ==
  <>[][~ReattachConsumer /\ ~ReattachProducer]_vars =>
    <>[](pPc # "loadReadPosition")
=============================================================================
