------------------------------ MODULE RingSetup ------------------------------
(***************************************************************************)
(* The life of a ring around its hot path: SpscRing::initialize() against  *)
(* a concurrent attach() (src/shm/spsc_ring.cpp), and the handles they     *)
(* return, which can be moved, lost and used after a move.                 *)
(*                                                                         *)
(* preamble.state is an atomic with one writer.  stores is its             *)
(* modification order; each store carries how many steps of the            *)
(* construction happen before it, and an acquire load that reads it makes  *)
(* them happen before what follows.  A load returns any store not older    *)
(* than one the thread has read.  Everything else in the header, and every *)
(* slot, is plain memory.                                                  *)
(*                                                                         *)
(* attach() asks its caller to wait until the creator has signalled that   *)
(* the ring is there.  told says that it did; a caller that was not told   *)
(* tries all the same.  Before construct_at() such a caller loads from     *)
(* storage without an atomic object, which C++ leaves undefined: the bytes *)
(* of a fresh segment are zero before, during and after it, so that a      *)
(* build reads Uninitialized.                                              *)
(*                                                                         *)
(* The segment is fresh (zeroed) or holds a header of unknown origin.      *)
(* The creator's side publishes and closes, the attacher's side acquires   *)
(* and releases; each of those calls is one step here (SpscRing has their  *)
(* interleavings).                                                         *)
(***************************************************************************)
EXTENDS RingLayout, Sequences

CONSTANTS
  SlotCounts, Capacities,        \* the configurations tried
  Strides, Sizes,                \* header fields of unknown origin; mappings
  CreatorObject, AttacherObject, \* storage for SpscRing objects
  MaxEvents                      \* bound on the events published

ASSUME SetupAssumption ==
  /\ SlotCounts \subseteq 0..MaxU32 /\ Capacities \subseteq 0..MaxU32
  /\ Strides \subseteq 0..MaxU32 /\ Sizes \subseteq 0..MaxSize
  /\ CreatorObject \cap AttacherObject = {}
  /\ MaxEvents \in Nat

VARIABLES
  mapped,      \* memory.size()
  fresh,       \* the segment was created for this ring
  preamble,    \* the plain fields of RingPreamble
  stores,      \* the stores to preamble.state, in modification order
  writePos, readPos,         \* the cursors
  cPc, config, built,        \* initialize(): step, argument, steps done
  cResult,
  aPc, aSeen, aKnows,        \* attach(): step, newest store read, knowledge
  aResult,
  told,        \* the attaching side knows that initialize() is complete
  handle       \* the SpscRing object in each storage

segment == <<mapped, fresh>>
cursors == <<writePos, readPos>>
memory == <<segment, preamble, stores, cursors>>
creator == <<cPc, config, built, cResult>>
attacher == <<aPc, aSeen, aKnows, aResult, told>>
vars == <<memory, creator, attacher, handle>>

Object == CreatorObject \cup AttacherObject

\* known: magic, version and header size are right, the instance id is not
\* zero and every reserved byte is.
Preamble == [known : BOOLEAN, segmentBytes : Sizes, slots : SlotCounts,
             stride : Strides, capacity : Capacities]
ZeroPreamble ==
  [known |-> FALSE, segmentBytes |-> 0, slots |-> 0, stride |-> 0, capacity |-> 0]

State == {"Uninitialized", "Initializing", "Ready", "Closed", "Other"}

\* A default-constructed or moved-from SpscRing.
Null == [header |-> FALSE, slots |-> 0, stride |-> 0, capacity |-> 0,
         acquired |-> FALSE, acquiredPos |-> 0, initializer |-> FALSE]

\* The private constructor: the geometry is read from the header.
NewHandle(p, init) ==
  [Null EXCEPT !.header = TRUE, !.slots = p.slots, !.stride = p.stride,
               !.capacity = p.capacity, !.initializer = init]

\* The steps of initialize() that touch plain memory: the header, its
\* preamble, then cursors and slots.
SetupSteps == 3

RelaxedOrder == "relaxed"   \* a weaker order, for comparison
ReadyStoreOrder == "release"
StateLoadOrder == "acquire"

Store(value, order) ==
  stores' = Append(stores, [value   |-> value,
                            carries |-> IF order = "release" THEN built ELSE 0])

CurrentState == stores[Len(stores)].value

Init ==
  /\ mapped \in Sizes
  /\ writePos = 0 /\ readPos = 0
  /\ \/ /\ fresh = TRUE /\ cPc = "idle" /\ built = 0
        /\ preamble = ZeroPreamble
        /\ stores = <<[value |-> "Uninitialized", carries |-> 0]>>
     \/ /\ fresh = FALSE /\ cPc = "gone" /\ built = SetupSteps
        /\ preamble \in Preamble
        /\ \E s \in State : stores = <<[value |-> s, carries |-> SetupSteps]>>
  /\ config = [slots |-> 0, capacity |-> 0] /\ cResult = "None"
  /\ aPc = "idle" /\ aSeen = 1 /\ aKnows = 0 /\ aResult = "None"
  /\ told = FALSE
  /\ handle = [o \in Object |-> Null]

-----------------------------------------------------------------------------
(***************************************************************************)
(* SpscRing::initialize(memory, config, instance_id).                      *)
(***************************************************************************)
InitializeError(c, id) ==
  IF id = 0 THEN "InvalidConfig"
  ELSE IF RequiredBytesError(c) # "None" THEN RequiredBytesError(c)
  ELSE IF mapped < HeaderBytes \/ mapped # RequiredBytes(c) THEN "InvalidMemory"
  ELSE "None"

CallInitialize(c, id) ==
  /\ cPc = "idle"
  /\ cResult' = InitializeError(c, id)
  /\ IF cResult' = "None" THEN cPc' = "header" /\ config' = c
                          ELSE UNCHANGED <<cPc, config>>
  /\ UNCHANGED <<memory, built, attacher, handle>>

\* construct_at() value-initialises the header, state included.
ConstructHeader ==
  /\ cPc = "header" /\ cPc' = "preamble"
  /\ built' = 1
  /\ preamble' = ZeroPreamble
  /\ Store("Uninitialized", "relaxed")
  /\ UNCHANGED <<segment, cursors, config, cResult, attacher, handle>>

\* The quotient is cast to uint32_t.
FilledPreamble ==
  [known |-> TRUE, segmentBytes |-> mapped, slots |-> config.slots,
   stride |-> ((mapped - HeaderBytes) \div config.slots) % (MaxU32 + 1),
   capacity |-> config.capacity]

\* fill_preamble() ends with the relaxed store of Initializing.
FillPreamble ==
  /\ cPc = "preamble" /\ cPc' = "slots"
  /\ built' = 2
  /\ preamble' = FilledPreamble
  /\ Store("Initializing", "relaxed")
  /\ UNCHANGED <<segment, cursors, config, cResult, attacher, handle>>

ConstructSlots ==
  /\ cPc = "slots" /\ cPc' = "ready"
  /\ built' = SetupSteps
  /\ writePos' = 0 /\ readPos' = 0
  /\ UNCHANGED <<segment, preamble, stores, config, cResult, attacher, handle>>

StoreReady(o) ==
  /\ cPc = "ready" /\ cPc' = "done"
  /\ Store("Ready", ReadyStoreOrder)
  /\ cResult' = "Ok"
  /\ handle' = [handle EXCEPT ![o] = NewHandle(preamble, TRUE)]
  /\ UNCHANGED <<segment, preamble, cursors, config, built, attacher>>

\* The creator's process may die between any two steps; its handles go
\* with it, the segment stays as it is.
CrashCreator ==
  /\ cPc # "gone" /\ cPc' = "gone"
  /\ handle' = [o \in Object |-> IF o \in CreatorObject THEN Null ELSE handle[o]]
  /\ UNCHANGED <<memory, config, built, cResult, attacher>>

-----------------------------------------------------------------------------
(***************************************************************************)
(* SpscRing::attach(memory).                                               *)
(***************************************************************************)
EndAttach(result) == aPc' = "idle" /\ aResult' = result

Continue(error, next) ==
  IF error = "None" THEN aPc' = next /\ UNCHANGED aResult ELSE EndAttach(error)

\* The creator signals that the ring is there, by means that are not part
\* of the ring: what it did before is now known to the attaching side.
Signal ==
  /\ cPc = "done" /\ aPc = "idle" /\ ~told
  /\ told' = TRUE
  /\ aSeen' = Len(stores) /\ aKnows' = built
  /\ aResult' = "None"
  /\ UNCHANGED <<memory, creator, aPc, handle>>

\* A caller without a ring tries, or tries again.
CallAttach ==
  /\ aPc = "idle"
  /\ \A o \in AttacherObject : ~handle[o].header
  /\ IF mapped < HeaderBytes THEN EndAttach("InvalidMemory")
                             ELSE aPc' = "loadState" /\ aResult' = "None"
  /\ UNCHANGED <<memory, creator, aSeen, aKnows, told, handle>>

\* Fault: a ring that is being made is accepted.
StateErrorAcceptsUnready(value) == IF value = "Other" THEN "InvalidLayout" ELSE "None"

\* Fault: a closed ring is refused although events are left in it.
StateErrorRefusesClosed(value) ==
  CASE value = "Ready" -> "None"
    [] value = "Other" -> "InvalidLayout"
    [] OTHER           -> "NotReady"

\* validate_state().
StateError(value) ==
  CASE value \in {"Uninitialized", "Initializing"} -> "NotReady"
    [] value \in {"Ready", "Closed"}               -> "None"
    [] OTHER                                       -> "InvalidLayout"

LoadState ==
  /\ aPc = "loadState"
  /\ \E i \in aSeen..Len(stores) :
       /\ aSeen' = i
       /\ aKnows' = IF StateLoadOrder = "acquire" /\ stores[i].carries > aKnows
                      THEN stores[i].carries ELSE aKnows
       /\ Continue(StateError(stores[i].value), "validate")
  /\ UNCHANGED <<memory, creator, told, handle>>

\* invalid_layout(), the reserved bytes, then geometry and segment size
\* against what required_bytes() makes of the header's own configuration.
PreambleError(p) ==
  LET c == [slots |-> p.slots, capacity |-> p.capacity]
      size == RequiredBytes(c)
  IN  IF ~p.known \/ RequiredBytesError(c) # "None" THEN "InvalidLayout"
      ELSE IF p.stride # (size - HeaderBytes) \div p.slots
                \/ p.segmentBytes # size
        THEN "InvalidLayout"
      ELSE IF mapped # size THEN "InvalidMemory"
      ELSE "None"

ValidatePreamble ==
  /\ aPc = "validate"
  /\ Continue(PreambleError(preamble), "construct")
  /\ UNCHANGED <<memory, creator, aSeen, aKnows, told, handle>>

\* The constructor reads the geometry from the header a second time.
ConstructHandle(o) ==
  /\ aPc = "construct"
  /\ EndAttach("Ok")
  /\ handle' = [handle EXCEPT ![o] = NewHandle(preamble, FALSE)]
  /\ UNCHANGED <<memory, creator, aSeen, aKnows, told>>

-----------------------------------------------------------------------------
(***************************************************************************)
(* The handles.  release() and close_publication() look at their own flag, *)
(* not at header_, before they use header_.                                *)
(***************************************************************************)

\* Fault: the flags stay behind.
MovedFromKeepsFlags(h) ==
  [Null EXCEPT !.acquired = h.acquired, !.acquiredPos = h.acquiredPos,
               !.initializer = h.initializer]

\* What the move constructor leaves in its source.
MovedFrom(h) == Null

\* A new object is constructed from o in the storage at p, where at most an
\* object without a ring was destroyed; o stays usable.
Move(o, p) ==
  /\ o # p
  /\ ({o, p} \subseteq CreatorObject) \/ ({o, p} \subseteq AttacherObject)
  /\ handle[o].header /\ ~handle[p].header
  /\ handle' = [handle EXCEPT ![p] = handle[o], ![o] = MovedFrom(handle[o])]
  /\ UNCHANGED <<memory, creator, attacher>>

\* The attacher loses its handle; a slot on loan is not given back.
Drop(o) ==
  /\ o \in AttacherObject /\ handle[o].header
  /\ handle' = [handle EXCEPT ![o] = Null]
  /\ UNCHANGED <<memory, creator, attacher>>

TryPublish(o) ==
  /\ o \in CreatorObject /\ handle[o].header
  /\ CurrentState = "Ready"
  /\ writePos - readPos < handle[o].slots /\ writePos < MaxEvents
  /\ writePos' = writePos + 1
  /\ UNCHANGED <<segment, preamble, stores, readPos, creator, attacher, handle>>

TryAcquire(o) ==
  /\ o \in AttacherObject
  /\ handle[o].header /\ ~handle[o].acquired
  /\ readPos < writePos
  /\ handle' = [handle EXCEPT ![o].acquired = TRUE, ![o].acquiredPos = readPos]
  /\ UNCHANGED <<memory, creator, attacher>>

Release(o) ==
  /\ handle[o].acquired
  /\ readPos' = handle[o].acquiredPos + 1
  /\ handle' = [handle EXCEPT ![o].acquired = FALSE, ![o].acquiredPos = 0]
  /\ UNCHANGED <<segment, preamble, stores, writePos, creator, attacher>>

\* A repeated close stores the same value again and is left out.
ClosePublication(o) ==
  /\ handle[o].initializer
  /\ CurrentState # "Closed"
  /\ Store("Closed", "release")
  /\ UNCHANGED <<segment, preamble, cursors, creator, attacher, handle>>

-----------------------------------------------------------------------------
CreatorStep ==
  \/ ConstructHeader
  \/ FillPreamble
  \/ ConstructSlots
  \/ \E o \in CreatorObject : StoreReady(o)

AttacherStep ==
  \/ Signal
  \/ CallAttach
  \/ LoadState
  \/ ValidatePreamble
  \/ \E o \in AttacherObject : ConstructHandle(o)

HandleStep ==
  \/ \E o, p \in Object : Move(o, p)
  \/ \E o \in Object : \/ Drop(o) \/ TryPublish(o) \/ TryAcquire(o)
                       \/ Release(o) \/ ClosePublication(o)

Next ==
  \/ \E s \in SlotCounts, n \in Capacities, id \in {0, 1} :
       CallInitialize([slots |-> s, capacity |-> n], id)
  \/ CreatorStep
  \/ CrashCreator
  \/ AttacherStep
  \/ HandleStep

Spec == Init /\ [][Next]_vars

-----------------------------------------------------------------------------
\* attach() looks at the header's plain fields, and returns a handle on the
\* slots, only when the whole construction happens before: it never meets a
\* ring half made, however stale the state it loaded was.
AttachAfterSetup ==
  aPc \in {"validate", "construct"} => aKnows = SetupSteps /\ built = SetupSteps

\* Whatever header attach() accepted, and whatever configuration
\* initialize() did: every slot lies inside the mapping, metadata and
\* payload of one slot do not reach into the next, and the two sides agree
\* on where the slots are.
SlotsInsideMapping ==
  \A o \in Object : handle[o].header =>
    /\ handle[o].slots >= 2
    /\ HeaderBytes + handle[o].slots * handle[o].stride <= mapped
    /\ SlotMetadataBytes + handle[o].capacity <= handle[o].stride
    /\ \A p \in Object : handle[p].header =>
         /\ handle[p].slots = handle[o].slots
         /\ handle[p].stride = handle[o].stride

\* A ring made by initialize() is never taken for a corrupt one: a caller
\* that was not told gets NotReady or the ring, also when the creator died
\* making it.  A caller that was told is never refused, after closure and
\* after the creator's death either.
GoodRingAccepted ==
  fresh /\ mapped >= HeaderBytes =>
    aResult \in {"None", "Ok"} \cup (IF told THEN {} ELSE {"NotReady"})

\* Moves never copy a right: at most one object may close the ring, at most
\* one holds the acquired slot, and whoever holds either has the header
\* that release() and close_publication() use unchecked.
RightsMovedNotCopied ==
  /\ \A o \in Object : handle[o].acquired \/ handle[o].initializer => handle[o].header
  /\ \A o, p \in Object :
       (handle[o].acquired /\ handle[p].acquired)
         \/ (handle[o].initializer /\ handle[p].initializer) => o = p
  /\ \A o \in Object : handle[o].acquired =>
       handle[o].acquiredPos = readPos /\ readPos < writePos

\* The header stays as it is while somebody relies on it: attach() between
\* its checks and the constructor's second reading, and every handle.
HeaderStable ==
  [][(aPc \in {"validate", "construct"} \/ \E o \in Object : handle[o].header)
       => UNCHANGED <<preamble, mapped>>]_vars
=============================================================================
