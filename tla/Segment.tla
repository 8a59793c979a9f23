------------------------------- MODULE Segment -------------------------------
(***************************************************************************)
(* lle::shm::SharedMemorySegment (src/shm/segment.cpp): processes that     *)
(* create, attach, move, close and unlink shared-memory segments.  The     *)
(* calls of create_shm() and attach_shm() are split at their system calls, *)
(* so that they interleave with those of other processes and a process may *)
(* die between two of them.                                                *)
(*                                                                         *)
(* A call that changes nothing is not an action: an invalid name or a zero *)
(* size, shm_open() of a name that exists (or, to attach, does not), and   *)
(* unlink() refused to a handle that is not the owner, or by the system.   *)
(***************************************************************************)
EXTENDS Naturals

CONSTANTS
  Process,
  Name,        \* valid segment names
  Slot,        \* places of one process where a segment handle may live
  Descriptor,  \* file descriptors of one process
  Address,     \* places of one process where a segment may be mapped
  MaxObjects,  \* bound on the shared-memory objects created in a behaviour
  None         \* no object, descriptor, address, handle or call

Object == 1..MaxObjects

ASSUME MaxObjectsAssumption == MaxObjects \in Nat

ASSUME NoneAssumption ==
  None \notin Name \cup Slot \cup Descriptor \cup Address \cup Object

VARIABLES
  names,    \* the POSIX name space: which object a name stands for
  made,     \* objects created so far
  sized,    \* objects that ftruncate() has given their size
  fds,      \* open descriptors of each process
  maps,     \* mappings of each process
  handles,  \* SharedMemorySegment objects of each process
  calls,    \* the create_shm() or attach_shm() in progress in each process
  orphans,  \* history: linked objects that nobody is left to unlink
  leaked    \* history: mappings left behind after munmap() failed

vars == <<names, made, sized, fds, maps, handles, calls, orphans, leaked>>

\* obj, the object the handle was made for, is not in the code: it outlives
\* the descriptor and the mapping, which close_shm() gives up.
Handle == [name : Name \cup {None}, descriptor : Descriptor \cup {None},
           address : Address \cup {None}, owner : BOOLEAN, linked : BOOLEAN,
           obj : Object \cup {None}]

\* A default-constructed handle, and what a move leaves behind.
EmptyHandle == [name |-> None, descriptor |-> None, address |-> None,
                owner |-> FALSE, linked |-> FALSE, obj |-> None]

Call == [step : {"resize", "mapNew", "stat", "mapOld"}, name : Name,
         slot : Slot, descriptor : Descriptor]

ASSUME NoneRecordAssumption == None \notin Handle \cup Call

Free(table) == {x \in DOMAIN table : table[x] = None}

\* The table of descriptors or of mappings after process p gave up entry x.
GiveUp(table, p, x) == IF x = None THEN table ELSE [table EXCEPT ![p][x] = None]

\* Process p is at one of these steps of a call.
InStep(p, steps) == calls[p] # None /\ calls[p].step \in steps

Live(p, h) == calls[p] = None /\ handles[p][h] # None

Init ==
  /\ names = [n \in Name |-> None]
  /\ made = 0 /\ sized = {}
  /\ fds = [p \in Process |-> [d \in Descriptor |-> None]]
  /\ maps = [p \in Process |-> [a \in Address |-> None]]
  /\ handles = [p \in Process |-> [h \in Slot |-> None]]
  /\ calls = [p \in Process |-> None]
  /\ orphans = {} /\ leaked = {}

-----------------------------------------------------------------------------
(***************************************************************************)
(* create_shm() and attach_shm().                                          *)
(***************************************************************************)

\* shm_open(O_CREAT | O_EXCL): a new object of size zero under a free name.
CreateOpen(p, n, h) ==
  /\ calls[p] = None /\ handles[p][h] = None
  /\ names[n] = None /\ made < MaxObjects
  /\ made' = made + 1
  /\ names' = [names EXCEPT ![n] = made + 1]
  /\ \E d \in Free(fds[p]) :
       /\ fds' = [fds EXCEPT ![p][d] = made + 1]
       /\ calls' = [calls EXCEPT ![p] = [step |-> "resize", name |-> n,
                                         slot |-> h, descriptor |-> d]]
  /\ UNCHANGED <<sized, maps, handles, orphans, leaked>>

Resize(p) ==
  /\ InStep(p, {"resize"})
  /\ sized' = sized \cup {fds[p][calls[p].descriptor]}
  /\ calls' = [calls EXCEPT ![p].step = "mapNew"]
  /\ UNCHANGED <<names, made, fds, maps, handles, orphans, leaked>>

\* Fault: the name stays after a failed creation.
NamesAfterFailureKept(n) == names

NamesAfterFailure(n) == [names EXCEPT ![n] = None]

\* ftruncate() or mmap() failed: clean_up_failed_creation(), which does not
\* look at the result of shm_unlink().
FailCreation(p) ==
  /\ InStep(p, {"resize", "mapNew"})
  /\ fds' = GiveUp(fds, p, calls[p].descriptor)
  /\ \/ names' = NamesAfterFailure(calls[p].name) /\ UNCHANGED orphans
     \/ orphans' = orphans \cup {fds[p][calls[p].descriptor]} /\ UNCHANGED names
  /\ calls' = [calls EXCEPT ![p] = None]
  /\ UNCHANGED <<made, sized, maps, handles, leaked>>

AttachOpen(p, n, h) ==
  /\ calls[p] = None /\ handles[p][h] = None
  /\ names[n] # None
  /\ \E d \in Free(fds[p]) :
       /\ fds' = [fds EXCEPT ![p][d] = names[n]]
       /\ calls' = [calls EXCEPT ![p] = [step |-> "stat", name |-> n,
                                         slot |-> h, descriptor |-> d]]
  /\ UNCHANGED <<names, made, sized, maps, handles, orphans, leaked>>

\* fstat(): an object that its creator has not sized yet is refused.
Stat(p) ==
  /\ InStep(p, {"stat"})
  /\ fds[p][calls[p].descriptor] \in sized
  /\ calls' = [calls EXCEPT ![p].step = "mapOld"]
  /\ UNCHANGED <<names, made, sized, fds, maps, handles, orphans, leaked>>

\* Size zero, or fstat() or mmap() failed.
FailAttachment(p) ==
  /\ InStep(p, {"stat", "mapOld"})
  /\ fds' = GiveUp(fds, p, calls[p].descriptor)
  /\ calls' = [calls EXCEPT ![p] = None]
  /\ UNCHANGED <<names, made, sized, maps, handles, orphans, leaked>>

\* mmap() of either call, and the handle it returns.
Map(p) ==
  /\ InStep(p, {"mapNew", "mapOld"})
  /\ LET c == calls[p]
         object == fds[p][c.descriptor]
     IN  \E a \in Free(maps[p]) :
           /\ maps' = [maps EXCEPT ![p][a] = object]
           /\ handles' = [handles EXCEPT ![p][c.slot] =
                            [name |-> c.name, descriptor |-> c.descriptor,
                             address |-> a, owner |-> c.step = "mapNew",
                             linked |-> TRUE, obj |-> object]]
  /\ calls' = [calls EXCEPT ![p] = None]
  /\ UNCHANGED <<names, made, sized, fds, orphans, leaked>>

-----------------------------------------------------------------------------
(***************************************************************************)
(* A handle's life.                                                        *)
(***************************************************************************)

\* A handle after close_shm(), unmapped telling whether munmap() succeeded.
Closed(hd, unmapped) ==
  [hd EXCEPT !.descriptor = None, !.address = IF unmapped THEN None ELSE @]

\* Fault: munmap() is called, and fails, without an address as well.
CloseShmAlwaysUnmaps(p, hd, unmapped) ==
  /\ fds' = GiveUp(fds, p, hd.descriptor)
  /\ maps' = IF unmapped THEN GiveUp(maps, p, hd.address) ELSE maps

\* What close_shm() does to process p through its handle hd; only a handle
\* that has a mapping can fail to unmap it.
close_shm(p, hd, unmapped) ==
  /\ unmapped \/ hd.address # None
  /\ fds' = GiveUp(fds, p, hd.descriptor)
  /\ maps' = IF unmapped THEN GiveUp(maps, p, hd.address) ELSE maps

\* The handle hd of p ceases to exist after close_shm(): nobody will unlink
\* its name, or retry its munmap().
Forget(p, hd, unmapped) ==
  /\ orphans' = orphans \cup (IF hd.owner /\ hd.linked THEN {hd.obj} ELSE {})
  /\ leaked' = leaked \cup (IF unmapped THEN {} ELSE {<<p, hd.address>>})

Construct(p, h) ==
  /\ calls[p] = None /\ handles[p][h] = None
  /\ handles' = [handles EXCEPT ![p][h] = EmptyHandle]
  /\ UNCHANGED <<names, made, sized, fds, maps, calls, orphans, leaked>>

\* Closing keeps owner_ and linked_: a closed owner can still unlink.
Close(p, h) ==
  /\ Live(p, h)
  /\ \E unmapped \in BOOLEAN :
       /\ close_shm(p, handles[p][h], unmapped)
       /\ handles' = [handles EXCEPT ![p][h] = Closed(@, unmapped)]
  /\ UNCHANGED <<names, made, sized, calls, orphans, leaked>>

\* ~SharedMemorySegment() closes and does not unlink.
Destroy(p, h) ==
  /\ Live(p, h)
  /\ \E unmapped \in BOOLEAN :
       /\ close_shm(p, handles[p][h], unmapped)
       /\ Forget(p, handles[p][h], unmapped)
  /\ handles' = [handles EXCEPT ![p][h] = None]
  /\ UNCHANGED <<names, made, sized, calls>>

\* Fault: the source of the move keeps its descriptor.
MovedFromKeepsDescriptor(hd) == [EmptyHandle EXCEPT !.descriptor = hd.descriptor]

MovedFrom(hd) == EmptyHandle

MoveConstruct(p, from, to) ==
  /\ Live(p, from) /\ handles[p][to] = None
  /\ handles' = [handles EXCEPT ![p][to] = handles[p][from],
                                ![p][from] = MovedFrom(handles[p][from])]
  /\ UNCHANGED <<names, made, sized, fds, maps, calls, orphans, leaked>>

MoveAssign(p, from, to) ==
  /\ from # to
  /\ Live(p, from) /\ Live(p, to)
  /\ \E unmapped \in BOOLEAN :
       /\ close_shm(p, handles[p][to], unmapped)
       /\ Forget(p, handles[p][to], unmapped)
  /\ handles' = [handles EXCEPT ![p][to] = handles[p][from],
                                ![p][from] = MovedFrom(handles[p][from])]
  /\ UNCHANGED <<names, made, sized, calls>>

\* Fault: linked_ stays set.
UnlinkedStillLinked(hd) == hd

Unlinked(hd) == [hd EXCEPT !.linked = FALSE]

\* Only the owner, and only once: the name may stand for a newer object.
Unlink(p, h) ==
  /\ Live(p, h)
  /\ handles[p][h].owner /\ handles[p][h].linked
  /\ names' = [names EXCEPT ![handles[p][h].name] = None]
  /\ handles' = [handles EXCEPT ![p][h] = Unlinked(@)]
  /\ UNCHANGED <<made, sized, fds, maps, calls, orphans, leaked>>

-----------------------------------------------------------------------------
(***************************************************************************)
(* The processes' world.                                                   *)
(***************************************************************************)

Creating(p) == InStep(p, {"resize", "mapNew"})

Owns(p, h) == handles[p][h] # None /\ handles[p][h].owner /\ handles[p][h].linked

\* The system closes the descriptors and mappings of a dead process and
\* keeps the names it had linked.
Die(p) ==
  /\ orphans' = orphans
       \cup {handles[p][h].obj : h \in {g \in Slot : Owns(p, g)}}
       \cup (IF Creating(p) THEN {fds[p][calls[p].descriptor]} ELSE {})
  /\ leaked' = {l \in leaked : l[1] # p}
  /\ fds' = [fds EXCEPT ![p] = [d \in Descriptor |-> None]]
  /\ maps' = [maps EXCEPT ![p] = [a \in Address |-> None]]
  /\ handles' = [handles EXCEPT ![p] = [h \in Slot |-> None]]
  /\ calls' = [calls EXCEPT ![p] = None]
  /\ UNCHANGED <<names, made, sized>>

\* An operator removes a name that no living owner will remove.
RemoveOrphan(n) ==
  /\ names[n] \in orphans
  /\ names' = [names EXCEPT ![n] = None]
  /\ orphans' = orphans \ {names[n]}
  /\ UNCHANGED <<made, sized, fds, maps, handles, calls, leaked>>

Step(p) ==
  \/ Resize(p)
  \/ FailCreation(p)
  \/ Stat(p)
  \/ FailAttachment(p)
  \/ Map(p)
  \/ Die(p)
  \/ \E h \in Slot :
       \/ \E n \in Name : CreateOpen(p, n, h) \/ AttachOpen(p, n, h)
       \/ Construct(p, h)
       \/ Close(p, h)
       \/ Destroy(p, h)
       \/ Unlink(p, h)
       \/ \E g \in Slot : MoveConstruct(p, h, g) \/ MoveAssign(p, h, g)

Next ==
  \/ \E p \in Process : Step(p)
  \/ \E n \in Name : RemoveOrphan(n)

Spec == Init /\ [][Next]_vars

-----------------------------------------------------------------------------
\* The types of the name space, the processes' tables and their handles.
TypeOK ==
  /\ names \in [Name -> Object \cup {None}]
  /\ made \in 0..MaxObjects
  /\ sized \subseteq 1..made
  /\ fds \in [Process -> [Descriptor -> Object \cup {None}]]
  /\ maps \in [Process -> [Address -> Object \cup {None}]]
  /\ handles \in [Process -> [Slot -> Handle \cup {None}]]
  /\ calls \in [Process -> Call \cup {None}]
  /\ orphans \subseteq 1..made
  /\ leaked \subseteq Process \X Address

\* unlink() and the clean-up of a failed creation go by name.  Whatever
\* other processes did to the name meanwhile, a handle or a call that would
\* remove it would remove the object it made, and never a newer one that
\* another process created under the same name.
RemovesOnlyItsOwn ==
  \A p \in Process :
    /\ \A h \in Slot : Owns(p, h) => names[handles[p][h].name] = handles[p][h].obj
    /\ Creating(p) => names[calls[p].name] = fds[p][calls[p].descriptor]

\* No name is lost: as long as it exists, a creation in progress or one
\* handle, wherever moves have taken it, will remove it, unless that owner
\* is known to have gone without unlink(), or a failed creation could not.
EveryNameHasAnOwner ==
  \A n \in Name :
    names[n] # None =>
      \/ names[n] \in orphans
      \/ \E p \in Process :
           \/ Creating(p) /\ fds[p][calls[p].descriptor] = names[n]
           \/ \E h \in Slot : Owns(p, h) /\ handles[p][h].obj = names[n]

Uses(p, d) ==
  {h \in Slot : handles[p][h] # None /\ handles[p][h].descriptor = d}

MappedBy(p, a) ==
  {h \in Slot : handles[p][h] # None /\ handles[p][h].address = a}

\* Through moves, closures, failures of munmap() and failed calls, an open
\* descriptor or a mapping belongs to exactly one handle (or to the call in
\* progress), which finds its own object there, so none is leaked or given
\* up twice; the exception is a mapping that munmap() refused.
ResourcesHeldOnce ==
  \A p \in Process :
    /\ \A d \in Descriptor :
         IF calls[p] # None /\ calls[p].descriptor = d
           THEN fds[p][d] # None /\ Uses(p, d) = {}
           ELSE /\ \A h, g \in Uses(p, d) : h = g
                /\ fds[p][d] # None <=> Uses(p, d) # {}
                /\ \A h \in Uses(p, d) : handles[p][h].obj = fds[p][d]
    /\ \A a \in Address :
         IF <<p, a>> \in leaked
           THEN maps[p][a] # None /\ MappedBy(p, a) = {}
           ELSE /\ \A h, g \in MappedBy(p, a) : h = g
                /\ maps[p][a] # None <=> MappedBy(p, a) # {}
                /\ \A h \in MappedBy(p, a) : handles[p][h].obj = maps[p][a]
=============================================================================
