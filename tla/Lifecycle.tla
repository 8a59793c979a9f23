------------------------------ MODULE Lifecycle ------------------------------
(***************************************************************************)
(* The lives of Receiver and Sender objects on one host: initialize() step *)
(* by step with every failure, moves, run(), request_stop() and            *)
(* destruction (src/receiver/receiver.cpp, src/sender/sender.cpp), over    *)
(* the UDP sockets and shared-memory names they share.  What run() does to *)
(* events is in Sender and Receiver, what a segment handle does in         *)
(* Segment; here the ring of a segment is Blank, Ready or Closed.          *)
(*                                                                         *)
(* A call refused for its configuration or an address takes no resource    *)
(* and is not an action; a create_shm() that fails on the way is in        *)
(* Segment.                                                                *)
(***************************************************************************)
EXTENDS Naturals

CONSTANTS
  Slot,        \* storage for Receiver and Sender objects
  Name,        \* shared-memory names
  Port,        \* UDP ports
  Socket,      \* socket descriptors
  MaxObjects,  \* bound on the shared-memory objects created
  None         \* nothing

Object == 1..MaxObjects

\* The fields of Receiver and Sender that matter here, and where the object
\* is in its life.  socket: udp_; object, name, owner: segment_; closer: the
\* ring handle's initializer_; stop: stop_requested_.  asked, whether the
\* engine was told to stop, is not in the code.
Engine == [kind : {"Receiver", "Sender"},
           pc : {"bind", "create", "ring", "attach", "attachRing", "open", "session",
                 "idle", "running", "returned"},
           name : Name \cup {None}, port : Port \cup {None},
           socket : Socket \cup {None}, object : Object \cup {None},
           owner : BOOLEAN, closer : BOOLEAN, stop : BOOLEAN, asked : BOOLEAN]

RingState == {"Blank", "Ready", "Closed"}

ASSUME LifecycleAssumption ==
  /\ MaxObjects \in Nat
  /\ None \notin Slot \cup Name \cup Port \cup Socket \cup Object
  /\ None \notin {"unbound"} \cup RingState
  /\ None \notin Engine

VARIABLES
  sockets,   \* each socket: None (not open), "unbound" or the port it has
  names,     \* the object each name stands for
  ring,      \* the state of the ring in each object; None before creation
  foreign,   \* objects made by other programs
  orphans,   \* history: objects whose owner died without unlink()
  left,      \* history: objects that kept their name because unlink() failed
  engine     \* the object in each storage

vars == <<sockets, names, ring, foreign, orphans, left, engine>>
world == <<foreign, orphans, left>>

NewEngine(kind, pc, n, port) ==
  [kind |-> kind, pc |-> pc, name |-> n, port |-> port, socket |-> None,
   object |-> None, owner |-> FALSE, closer |-> FALSE, stop |-> FALSE,
   asked |-> FALSE]

At(s, pc) == engine[s] # None /\ engine[s].pc = pc
Resting(s) == At(s, "idle") \/ At(s, "returned")
Created == {o \in Object : ring[o] # None}

Init ==
  /\ sockets = [f \in Socket |-> None]
  /\ names = [n \in Name |-> None]
  /\ ring = [o \in Object |-> None]
  /\ foreign = {} /\ orphans = {} /\ left = {}
  /\ engine = [s \in Slot |-> None]

\* The objects an engine holds are destroyed: its socket is closed, its
\* segment closed and not unlinked.
CloseSocket(f) == IF f = None THEN sockets ELSE [sockets EXCEPT ![f] = None]

\* The name of the engine in s is removed, as its owner may.
Unlinked(s) == [names EXCEPT ![engine[s].name] = None]

\* The system refuses to remove it; nobody looks at the result.
UnlinkFails(s) ==
  /\ left' = left \cup {engine[s].object}
  /\ UNCHANGED names

-----------------------------------------------------------------------------
(***************************************************************************)
(* Receiver::initialize().                                                 *)
(***************************************************************************)
CallReceiver(s, n, port) ==
  /\ engine[s] = None
  /\ engine' = [engine EXCEPT ![s] = NewEngine("Receiver", "bind", n, port)]
  /\ UNCHANGED <<sockets, names, ring, world>>

\* UdpReceiver::bind(): a port has one socket.
Bind(s) ==
  /\ At(s, "bind")
  /\ \A f \in Socket : sockets[f] # engine[s].port
  /\ \E f \in Socket :
       /\ sockets[f] = None
       /\ sockets' = [sockets EXCEPT ![f] = engine[s].port]
       /\ engine' = [engine EXCEPT ![s].pc = "create", ![s].socket = f]
  /\ UNCHANGED <<names, ring, world>>

\* create_shm(): only under a free name.
CreateShm(s) ==
  /\ At(s, "create")
  /\ names[engine[s].name] = None
  /\ \E o \in Object \ Created :
       /\ \A q \in 1..o - 1 : q \in Created
       /\ ring' = [ring EXCEPT ![o] = "Blank"]
       /\ names' = [names EXCEPT ![engine[s].name] = o]
       /\ engine' = [engine EXCEPT ![s].pc = "ring", ![s].object = o, ![s].owner = TRUE]
  /\ UNCHANGED <<sockets, world>>

InitializeRing(s) ==
  /\ At(s, "ring")
  /\ ring' = [ring EXCEPT ![engine[s].object] = "Ready"]
  /\ engine' = [engine EXCEPT ![s].pc = "idle", ![s].closer = TRUE]
  /\ UNCHANGED <<sockets, names, world>>

-----------------------------------------------------------------------------
(***************************************************************************)
(* Sender::initialize().                                                   *)
(***************************************************************************)
CallSender(s, n) ==
  /\ engine[s] = None
  /\ engine' = [engine EXCEPT ![s] = NewEngine("Sender", "attach", n, None)]
  /\ UNCHANGED <<sockets, names, ring, world>>

AttachShm(s) ==
  /\ At(s, "attach")
  /\ names[engine[s].name] # None
  /\ engine' = [engine EXCEPT ![s].pc = "attachRing",
                              ![s].object = names[engine[s].name]]
  /\ UNCHANGED <<sockets, names, ring, world>>

AttachRing(s) ==
  /\ At(s, "attachRing")
  /\ ring[engine[s].object] # "Blank"
  /\ engine' = [engine EXCEPT ![s].pc = "open"]
  /\ UNCHANGED <<sockets, names, ring, world>>

OpenSocket(s) ==
  /\ At(s, "open")
  /\ \E f \in Socket :
       /\ sockets[f] = None
       /\ sockets' = [sockets EXCEPT ![f] = "unbound"]
       /\ engine' = [engine EXCEPT ![s].pc = "session", ![s].socket = f]
  /\ UNCHANGED <<names, ring, world>>

ChooseSession(s) ==
  /\ At(s, "session")
  /\ engine' = [engine EXCEPT ![s].pc = "idle"]
  /\ UNCHANGED <<sockets, names, ring, world>>

Initializing(s) ==
  engine[s] # None /\ engine[s].pc \notin {"idle", "running", "returned"}

\* Fault: the name is left to the segment's destructor.
NamesAfterFailureKept(s) == names

\* A ring that could not be made takes its name with it.
NamesAfterFailure(s) == IF engine[s].pc = "ring" THEN Unlinked(s) ELSE names

\* Any step of either initialize() fails; its locals are destroyed.
FailInitialize(s) ==
  /\ Initializing(s)
  /\ \/ names' = NamesAfterFailure(s) /\ UNCHANGED left
     \/ engine[s].pc = "ring" /\ UnlinkFails(s)
  /\ sockets' = CloseSocket(engine[s].socket)
  /\ engine' = [engine EXCEPT ![s] = None]
  /\ UNCHANGED <<ring, foreign, orphans>>

-----------------------------------------------------------------------------
(***************************************************************************)
(* The object after initialize().                                          *)
(***************************************************************************)

\* Faults: a move forgets the stop request, or leaves socket and flags.
MovedToForgetsStop(e) == [e EXCEPT !.stop = FALSE]
MovedFromKeepsRights(e) ==
  [e EXCEPT !.name = None, !.object = None, !.stop = TRUE, !.asked = FALSE]

\* What the move constructors of Receiver and Sender make, and leave.
MovedTo(e) == e
MovedFrom(e) == [NewEngine(e.kind, e.pc, None, e.port) EXCEPT !.stop = TRUE]

\* Moving is allowed only when run() is not running.
Move(s, t) ==
  /\ Resting(s) /\ engine[t] = None
  /\ engine' = [engine EXCEPT ![t] = MovedTo(engine[s]), ![s] = MovedFrom(engine[s])]
  /\ UNCHANGED <<sockets, names, ring, world>>

RequestStop(s) ==
  /\ Resting(s) \/ At(s, "running")
  /\ engine' = [engine EXCEPT ![s].stop = TRUE, ![s].asked = TRUE]
  /\ UNCHANGED <<sockets, names, ring, world>>

Run(s) ==
  /\ Resting(s)
  /\ engine' = [engine EXCEPT ![s].pc = "running"]
  /\ UNCHANGED <<sockets, names, ring, world>>

\* close_publication() through the handle of the engine in s.
Closed(s) == IF engine[s].closer THEN [ring EXCEPT ![engine[s].object] = "Closed"] ELSE ring

\* However its loop ended, a receiver closes its ring.
Return(s) ==
  /\ At(s, "running")
  /\ ring' = Closed(s)
  /\ engine' = [engine EXCEPT ![s].pc = "returned"]
  /\ UNCHANGED <<sockets, names, world>>

\* Fault: only the name is removed.
RingAfterDestroyOpen(s) == ring

RingAfterDestroy(s) == IF engine[s].owner THEN Closed(s) ELSE ring

\* ~Receiver() and ~Sender().
Destroy(s) ==
  /\ Resting(s)
  /\ ring' = RingAfterDestroy(s)
  /\ \/ names' = (IF engine[s].owner THEN Unlinked(s) ELSE names) /\ UNCHANGED left
     \/ engine[s].owner /\ UnlinkFails(s)
  /\ sockets' = CloseSocket(engine[s].socket)
  /\ engine' = [engine EXCEPT ![s] = None]
  /\ UNCHANGED <<foreign, orphans>>

\* The engine's process dies: the system closes its socket, the name and
\* the ring stay as they are.
Die(s) ==
  /\ engine[s] # None
  /\ sockets' = CloseSocket(engine[s].socket)
  /\ orphans' = IF engine[s].owner THEN orphans \cup {engine[s].object} ELSE orphans
  /\ engine' = [engine EXCEPT ![s] = None]
  /\ UNCHANGED <<names, ring, foreign, left>>

-----------------------------------------------------------------------------
(***************************************************************************)
(* Other programs: the producer of an ingress ring, and an operator who    *)
(* removes the names that nobody else will.                                *)
(***************************************************************************)
ForeignCreate(n) ==
  /\ names[n] = None
  /\ \E o \in Object \ Created :
       /\ \A q \in 1..o - 1 : q \in Created
       /\ ring' = [ring EXCEPT ![o] = "Blank"]
       /\ names' = [names EXCEPT ![n] = o]
       /\ foreign' = foreign \cup {o}
  /\ UNCHANGED <<sockets, orphans, left, engine>>

ForeignRing(o) ==
  /\ o \in foreign /\ ring[o] # "Closed"
  /\ ring' = [ring EXCEPT ![o] = IF ring[o] = "Blank" THEN "Ready" ELSE "Closed"]
  /\ UNCHANGED <<sockets, names, world, engine>>

RemoveName(n) ==
  /\ names[n] \in foreign \cup orphans \cup left
  /\ names' = [names EXCEPT ![n] = None]
  /\ UNCHANGED <<sockets, ring, world, engine>>

Step(s) ==
  \/ \E n \in Name : CallSender(s, n) \/ \E port \in Port : CallReceiver(s, n, port)
  \/ Bind(s) \/ CreateShm(s) \/ InitializeRing(s)
  \/ AttachShm(s) \/ AttachRing(s) \/ OpenSocket(s) \/ ChooseSession(s)
  \/ FailInitialize(s)
  \/ RequestStop(s) \/ Run(s) \/ Return(s) \/ Destroy(s) \/ Die(s)
  \/ \E t \in Slot : Move(s, t)

Next ==
  \/ \E s \in Slot : Step(s)
  \/ \E n \in Name : ForeignCreate(n) \/ RemoveName(n)
  \/ \E o \in Object : ForeignRing(o)

Spec == Init /\ [][Next]_vars

-----------------------------------------------------------------------------
Holders(f) == {s \in Slot : engine[s] # None /\ engine[s].socket = f}

\* Whichever step of initialize() failed and wherever moves took the
\* objects, an open socket, and with it the port, is held by exactly one
\* engine, which will close it, and a held socket is open.
SocketsHeldOnce ==
  \A f \in Socket : /\ sockets[f] # None <=> Holders(f) # {}
                    /\ \A s, t \in Holders(f) : s = t

\* A failed, moved or destroyed engine leaves no name behind and takes none
\* away: a name stands for the work of another program, for what a dead
\* process or a refused unlink() left, or for the segment of exactly one
\* engine, and an engine that would remove a name would remove its own
\* segment.
NamesHaveTheirOwner ==
  /\ \A n \in Name : names[n] # None =>
       \/ names[n] \in foreign \cup orphans \cup left
       \/ \E s \in Slot : engine[s] # None /\ engine[s].owner /\ engine[s].object = names[n]
  /\ \A s \in Slot : engine[s] # None /\ engine[s].owner =>
       /\ names[engine[s].name] = engine[s].object
       /\ \A t \in Slot : engine[t] # None /\ engine[t].owner
                            /\ engine[t].object = engine[s].object => s = t

\* A receiver's ring is open until the receiver that owns it now has run,
\* although earlier homes of the receiver were destroyed; and a ring whose
\* receiver is gone, other than by dying, is not left open, also when its
\* name is: an attached consumer is told.
RingFollowsReceiver ==
  \A o \in Created \ (foreign \cup orphans) :
    LET owners == {s \in Slot : engine[s] # None /\ engine[s].owner
                                  /\ engine[s].object = o}
    IN  /\ owners = {} => ring[o] # "Ready"
        /\ \A s \in owners : /\ engine[s].pc = "idle" => ring[o] = "Ready"
                             /\ engine[s].pc = "returned" => ring[o] = "Closed"

\* A stop request survives moves, and run() of an object that was moved
\* from stops at once instead of polling a socket it no longer has.
StopSurvivesMove ==
  \A s \in Slot : engine[s] # None =>
    /\ engine[s].asked => engine[s].stop
    /\ engine[s].socket = None /\ ~Initializing(s) => engine[s].stop
=============================================================================
