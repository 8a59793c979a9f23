-------------------------- MODULE LifecycleProofs --------------------------
(***************************************************************************)
(* Proofs about Lifecycle for any number of engines, names, ports and      *)
(* sockets.                                                                *)
(***************************************************************************)
EXTENDS Lifecycle, TLAPS

LifecycleTypes ==
  /\ sockets \in [Socket -> Port \cup {"unbound", None}]
  /\ names \in [Name -> Object \cup {None}]
  /\ ring \in [Object -> RingState \cup {None}]
  /\ foreign \subseteq Object /\ orphans \subseteq Object /\ left \subseteq Object
  /\ engine \in [Slot -> Engine \cup {None}]

\* What an engine holds at each point of its life: the segment it made and,
\* once the ring is made, the right to close it; its socket from the point
\* where it is opened.
Shape(e) ==
  /\ e.owner => e.name \in Name /\ e.object \in Object
  /\ e.closer <=> e.owner /\ e.pc # "ring"
  /\ e.pc = "ring" => e.owner
  /\ e.pc \in {"bind", "create", "attach", "attachRing", "open", "session"} => ~e.owner
  /\ e.pc \in {"bind", "attach", "attachRing", "open"} => e.socket = None
  /\ e.pc \in {"create", "ring", "session"} => e.socket # None
  /\ e.pc \in {"bind", "create", "attach"} => e.name \in Name
  /\ e.pc = "bind" => e.port \in Port

Shapes == \A s \in Slot : engine[s] # None => Shape(engine[s])

Owns(s, o) == engine[s] # None /\ engine[s].owner /\ engine[s].object = o

\* An engine's own segment exists, is not another program's and not left
\* behind; its ring is blank until the engine has made it.
OwnedSegments ==
  \A s \in Slot : engine[s] # None /\ engine[s].owner =>
    /\ ring[engine[s].object] # None
    /\ engine[s].object \notin foreign \cup orphans \cup left
    /\ engine[s].pc = "ring" => ring[engine[s].object] = "Blank"

\* An object has one name at most, and none before it is created.
NamesOnce ==
  /\ \A n \in Name : names[n] # None =>
       ring[names[n]] # None /\ \A m \in Name : names[m] = names[n] => m = n
  /\ foreign \cup orphans \cup left \subseteq Created

\* The inductive invariant behind the properties of Lifecycle.
LifecycleInv ==
  /\ LifecycleTypes /\ Shapes /\ OwnedSegments /\ NamesOnce
  /\ SocketsHeldOnce /\ NamesHaveTheirOwner /\ RingFollowsReceiver /\ StopSurvivesMove

-----------------------------------------------------------------------------
(***************************************************************************)
(* The properties without set comprehensions, before and after a step.     *)
(***************************************************************************)
Has(s, f) == engine[s] # None /\ engine[s].socket = f

SocketsForm ==
  \A f \in Socket : /\ sockets[f] # None <=> \E s \in Slot : Has(s, f)
                    /\ \A s, t \in Slot : Has(s, f) /\ Has(t, f) => s = t

NamesForm ==
  /\ \A n \in Name : names[n] # None =>
       names[n] \in foreign \cup orphans \cup left \/ \E s \in Slot : Owns(s, names[n])
  /\ \A s \in Slot : engine[s] # None /\ engine[s].owner =>
       names[engine[s].name] = engine[s].object
  /\ \A s, t \in Slot, o \in Object : Owns(s, o) /\ Owns(t, o) => s = t

RingForm ==
  \A o \in Object : ring[o] # None /\ o \notin foreign \cup orphans =>
    /\ ring[o] = "Ready" => \E s \in Slot : Owns(s, o)
    /\ \A s \in Slot : Owns(s, o) => /\ engine[s].pc = "idle" => ring[o] = "Ready"
                                     /\ engine[s].pc = "returned" => ring[o] = "Closed"

StopForm ==
  \A s \in Slot : engine[s] # None =>
    /\ engine[s].asked => engine[s].stop
    /\ engine[s].socket = None /\ engine[s].pc \in {"idle", "running", "returned"} =>
         engine[s].stop

LifecycleForm ==
  /\ LifecycleTypes /\ Shapes /\ OwnedSegments /\ NamesOnce
  /\ SocketsForm /\ NamesForm /\ RingForm /\ StopForm

\* The quantified forms say what the properties say.
LEMMA Forms == LifecycleInv <=> LifecycleForm
<1>1. SocketsHeldOnce <=> SocketsForm
  BY DEF SocketsHeldOnce, SocketsForm, Holders, Has
<1>2. ASSUME LifecycleTypes, Shapes PROVE NamesHaveTheirOwner <=> NamesForm
  BY <1>2 DEF NamesHaveTheirOwner, NamesForm, Owns, Shapes, Shape
<1>3. RingFollowsReceiver <=> RingForm
  BY DEF RingFollowsReceiver, RingForm, Owns, Created
<1>4. StopSurvivesMove <=> StopForm
  BY DEF StopSurvivesMove, StopForm, Initializing
<1> QED BY <1>1, <1>2, <1>3, <1>4 DEF LifecycleInv, LifecycleForm

\* The fields of an engine are of the types Engine gives them, and no engine
\* is taken for an empty storage.
LEMMA EngineFacts ==
  ASSUME LifecycleTypes, NEW s \in Slot, engine[s] # None
  PROVE  engine[s] \in Engine
BY DEF LifecycleTypes

\* None is no value of any table.
LEMMA NoneFacts ==
  /\ None \notin Engine
  /\ \A f \in Socket : f # None
  /\ \A p \in Port : p # None
  /\ \A o \in Object : o # None
  /\ \A n \in Name : n # None
  /\ None # "unbound" /\ None # "Blank" /\ None # "Ready" /\ None # "Closed"
BY LifecycleAssumption DEF RingState

\* A host without engines.
LEMMA InitLifecycleForm == Init => LifecycleForm
<1> SUFFICES ASSUME Init PROVE LifecycleForm
  OBVIOUS
<1>1. LifecycleTypes
  BY DEF Init, LifecycleTypes
<1> QED BY <1>1 DEF Init, LifecycleForm, Shapes, OwnedSegments, NamesOnce, SocketsForm, Has,
            NamesForm, Owns, RingForm, StopForm, Created

\* A step of one engine that takes and gives up nothing.
LEMMA QuietStep ==
  ASSUME LifecycleForm, NEW s \in Slot, NEW e \in Engine,
         engine' = [engine EXCEPT ![s] = e],
         UNCHANGED <<sockets, names, ring, foreign, orphans, left>>,
         Shape(e),
         \A f \in Socket : e.socket = f <=> Has(s, f),
         e.owner <=> engine[s] # None /\ engine[s].owner,
         e.owner => /\ e.object = engine[s].object /\ e.name = engine[s].name
                    /\ e.pc \in {"ring", "idle", "returned"} => e.pc = engine[s].pc,
         e.asked => e.stop,
         e.socket = None /\ e.pc \in {"idle", "running", "returned"} => e.stop
  PROVE  LifecycleForm'
<1> USE NoneFacts DEF LifecycleForm
<1>1. /\ engine'[s] = e /\ e # None
      /\ \A t \in Slot : t # s => engine'[t] = engine[t]
  BY DEF LifecycleTypes
<1>2. LifecycleTypes'
  BY DEF LifecycleTypes
<1>3. \A t \in Slot, f \in Socket : Has(t, f)' <=> Has(t, f)
  BY <1>1 DEF Has
<1>4. \A t \in Slot, o \in Object : Owns(t, o)' <=> Owns(t, o)
  BY <1>1 DEF Owns
<1>5. Shapes'
  BY <1>1 DEF Shapes, Shape
<1>6. OwnedSegments'
  BY <1>1 DEF OwnedSegments
<1>7. NamesOnce'
  BY DEF NamesOnce, Created
<1>8. SocketsForm'
  BY <1>3 DEF SocketsForm
<1>9. NamesForm'
  <2>1. \A n \in Name : names[n] # None => names[n] \in Object
    BY DEF LifecycleTypes
  <2> QED BY <1>1, <1>4, <2>1 DEF NamesForm
<1>10. RingForm'
  BY <1>1, <1>4 DEF RingForm, Owns
<1>11. StopForm'
  BY <1>1 DEF StopForm
<1> QED BY <1>2, <1>5, <1>6, <1>7, <1>8, <1>9, <1>10, <1>11

\* A call of initialize() takes a slot and no resource.
LEMMA CallStep ==
  ASSUME LifecycleForm, NEW s \in Slot, NEW n \in Name,
         CallSender(s, n) \/ \E port \in Port : CallReceiver(s, n, port)
  PROVE  LifecycleForm'
<1> USE NoneFacts DEF world
<1>1. PICK e \in Engine :
        /\ engine[s] = None /\ engine' = [engine EXCEPT ![s] = e]
        /\ UNCHANGED <<sockets, names, ring, foreign, orphans, left>>
        /\ Shape(e) /\ e.socket = None /\ ~e.owner /\ ~e.asked
        /\ e.pc \in {"bind", "attach"}
  <2>1. CASE CallSender(s, n)
    <3> DEFINE e == NewEngine("Sender", "attach", n, None)
    <3>1. e \in Engine
      BY DEF NewEngine, Engine
    <3>2. Shape(e) /\ e.socket = None /\ ~e.owner /\ ~e.asked /\ e.pc = "attach"
      BY DEF NewEngine, Shape
    <3> QED BY <2>1, <3>1, <3>2 DEF CallSender
  <2>2. ASSUME NEW port \in Port, CallReceiver(s, n, port)
        PROVE  \E e \in Engine :
                 /\ engine[s] = None /\ engine' = [engine EXCEPT ![s] = e]
                 /\ UNCHANGED <<sockets, names, ring, foreign, orphans, left>>
                 /\ Shape(e) /\ e.socket = None /\ ~e.owner /\ ~e.asked
                 /\ e.pc \in {"bind", "attach"}
    <3> DEFINE e == NewEngine("Receiver", "bind", n, port)
    <3>1. e \in Engine
      BY DEF NewEngine, Engine
    <3>2. Shape(e) /\ e.socket = None /\ ~e.owner /\ ~e.asked /\ e.pc = "bind"
      BY DEF NewEngine, Shape
    <3> QED BY <2>2, <3>1, <3>2 DEF CallReceiver
  <2> QED BY <2>1, <2>2
<1>2. \A f \in Socket : e.socket = f <=> Has(s, f)
  BY <1>1 DEF Has
<1> QED BY <1>1, <1>2, QuietStep

\* attach_shm(), the ring, the session, a stop request or run(): the engine
\* advances and keeps what it has.
LEMMA AdvanceStep ==
  ASSUME LifecycleForm, NEW s \in Slot,
         AttachShm(s) \/ AttachRing(s) \/ ChooseSession(s) \/ RequestStop(s) \/ Run(s)
  PROVE  LifecycleForm'
<1> USE NoneFacts DEF world
<1>1. /\ LifecycleTypes /\ engine[s] # None /\ engine[s] \in Engine /\ Shape(engine[s])
      /\ engine[s].asked => engine[s].stop
      /\ engine[s].socket = None /\ engine[s].pc \in {"idle", "running", "returned"} =>
           engine[s].stop
  BY EngineFacts DEF LifecycleForm, AttachShm, AttachRing, ChooseSession, RequestStop, Run,
     Resting, At, Shapes, StopForm
<1>2. engine \in [Slot -> Engine \cup {None}] /\ names \in [Name -> Object \cup {None}]
  BY <1>1 DEF LifecycleTypes
<1>3. \A f \in Socket : engine[s].socket = f <=> Has(s, f)
  BY <1>1 DEF Has
<1>4. CASE AttachShm(s)
  <2> DEFINE e == [engine[s] EXCEPT !.pc = "attachRing", !.object = names[engine[s].name]]
  <2>1. engine[s].pc = "attach" /\ names[engine[s].name] \in Object /\ ~engine[s].owner
        /\ engine[s].socket = None
    BY <1>1, <1>2, <1>4 DEF AttachShm, At, Shape
  <2>2. /\ e \in Engine /\ e.pc = "attachRing" /\ e.socket = None /\ ~e.owner
        /\ e.asked = engine[s].asked /\ e.stop = engine[s].stop /\ ~e.closer
    BY <1>1, <2>1 DEF Engine, Shape
  <2>3. Shape(e)
    BY <2>2 DEF Shape
  <2>4. engine' = [engine EXCEPT ![s] = e] /\ UNCHANGED <<sockets, names, ring, foreign, orphans, left>>
    BY <1>2, <1>4 DEF AttachShm
  <2> HIDE DEF e
  <2> QED BY <1>1, <1>3, <2>1, <2>2, <2>3, <2>4, QuietStep
<1>5. CASE AttachRing(s) \/ ChooseSession(s) \/ Run(s)
  <2>1. PICK c \in {"open", "idle", "running"} :
          /\ engine' = [engine EXCEPT ![s].pc = c]
          /\ UNCHANGED <<sockets, names, ring, foreign, orphans, left>>
          /\ c = "open" => engine[s].pc = "attachRing"
          /\ c = "idle" => engine[s].pc = "session"
          /\ c = "running" => engine[s].pc \in {"idle", "returned"}
    BY <1>5 DEF AttachRing, ChooseSession, Run, Resting, At
  <2> DEFINE e == [engine[s] EXCEPT !.pc = c]
  <2>2. /\ e \in Engine /\ e.pc = c /\ e.socket = engine[s].socket
        /\ e.owner = engine[s].owner /\ e.closer = engine[s].closer
        /\ e.object = engine[s].object /\ e.name = engine[s].name
        /\ e.asked = engine[s].asked /\ e.stop = engine[s].stop
    BY <1>1 DEF Engine
  <2>3. engine' = [engine EXCEPT ![s] = e]
    BY <1>2, <2>1
  <2> HIDE DEF e
  <2>4. Shape(e)
    BY <1>1, <2>1, <2>2 DEF Shape
  <2>5. e.socket = None /\ e.pc \in {"idle", "running", "returned"} => e.stop
    BY <1>1, <2>1, <2>2 DEF Shape
  <2>6. /\ e.owner <=> engine[s] # None /\ engine[s].owner
        /\ e.owner => (e.pc \in {"ring", "idle", "returned"} => e.pc = engine[s].pc)
    BY <1>1, <2>1, <2>2 DEF Shape
  <2> QED BY ZenonT(40), <1>1, <1>3, <2>1, <2>2, <2>3, <2>4, <2>5, <2>6, QuietStep
<1>6. CASE RequestStop(s)
  <2> DEFINE e == [engine[s] EXCEPT !.stop = TRUE, !.asked = TRUE]
  <2>1. /\ e \in Engine /\ e.pc = engine[s].pc /\ e.socket = engine[s].socket
        /\ e.owner = engine[s].owner /\ e.closer = engine[s].closer
        /\ e.object = engine[s].object /\ e.name = engine[s].name
        /\ e.port = engine[s].port /\ e.stop
    BY <1>1 DEF Engine
  <2>2. engine' = [engine EXCEPT ![s] = e] /\ UNCHANGED <<sockets, names, ring, foreign, orphans, left>>
    BY <1>2, <1>6 DEF RequestStop
  <2> HIDE DEF e
  <2>3. Shape(e)
    BY <1>1, <2>1 DEF Shape
  <2> QED BY <1>1, <1>3, <2>1, <2>2, <2>3, QuietStep
<1> QED BY <1>4, <1>5, <1>6

\* bind() and open(): a socket that nobody had.
LEMMA SocketStep ==
  ASSUME LifecycleForm, NEW s \in Slot, Bind(s) \/ OpenSocket(s)
  PROVE  LifecycleForm'
<1> USE NoneFacts DEF world
<1>1. LifecycleTypes /\ Shapes /\ OwnedSegments /\ NamesOnce /\ SocketsForm /\ NamesForm
      /\ RingForm /\ StopForm
  BY DEF LifecycleForm
<1>2. PICK f \in Socket, v \in Port \cup {"unbound"}, c \in {"create", "session"} :
        /\ engine[s] # None /\ engine[s].pc \in {"bind", "open"}
        /\ c = "create" => engine[s].pc = "bind"
        /\ sockets[f] = None
        /\ sockets' = [sockets EXCEPT ![f] = v]
        /\ engine' = [engine EXCEPT ![s].pc = c, ![s].socket = f]
        /\ UNCHANGED <<names, ring, foreign, orphans, left>>
  <2>1. CASE Bind(s)
    <3>1. engine[s] # None /\ engine[s].pc = "bind" /\ engine[s].port \in Port
      BY <1>1, <2>1 DEF Bind, At, Shapes, Shape
    <3> QED BY <2>1, <3>1 DEF Bind
  <2>2. CASE OpenSocket(s)
    BY <2>2 DEF OpenSocket, At
  <2> QED BY <2>1, <2>2
<1>3. engine[s] \in Engine /\ Shape(engine[s]) /\ engine \in [Slot -> Engine \cup {None}]
      /\ sockets \in [Socket -> Port \cup {"unbound", None}]
  BY <1>1, <1>2, EngineFacts DEF Shapes, LifecycleTypes
<1> DEFINE e == [engine[s] EXCEPT !.pc = c, !.socket = f]
<1>4. /\ e \in Engine /\ e # None /\ e.pc = c /\ e.socket = f /\ ~e.owner /\ ~e.closer
      /\ e.name = engine[s].name /\ e.port = engine[s].port
      /\ e.asked = engine[s].asked /\ e.stop = engine[s].stop
      /\ engine[s].socket = None /\ ~engine[s].owner
  BY <1>2, <1>3 DEF Engine, Shape
<1>5. /\ engine'[s] = e /\ \A t \in Slot : t # s => engine'[t] = engine[t]
      /\ engine' \in [Slot -> Engine \cup {None}]
  BY <1>2, <1>3, <1>4
<1> HIDE DEF e
<1>6. Shape(e)
  BY <1>2, <1>3, <1>4 DEF Shape
<1>7. LifecycleTypes'
  <2>1. sockets' \in [Socket -> Port \cup {"unbound", None}]
    BY <1>2, <1>3
  <2> QED BY <1>1, <1>2, <1>5, <2>1 DEF LifecycleTypes
<1>8. Shapes' /\ NamesOnce' /\ StopForm'
  <2>1. Shapes'
    BY <1>1, <1>5, <1>6 DEF Shapes, Shape
  <2>2. NamesOnce'
    BY <1>1, <1>2 DEF NamesOnce, Created
  <2>3. StopForm'
    BY <1>1, <1>2, <1>3, <1>4, <1>5 DEF StopForm
  <2> QED BY <2>1, <2>2, <2>3
<1>9. \A t \in Slot, o \in Object : Owns(t, o)' <=> Owns(t, o)
  BY <1>4, <1>5 DEF Owns
<1>10. OwnedSegments' /\ NamesForm' /\ RingForm'
  <2>1. OwnedSegments'
    BY <1>1, <1>2, <1>4, <1>5 DEF OwnedSegments
  <2>2. \A n \in Name : names[n] # None => names[n] \in Object
    BY <1>1 DEF LifecycleTypes
  <2>3. NamesForm'
    BY <1>1, <1>2, <1>4, <1>5, <1>9, <2>2 DEF NamesForm
  <2>4. RingForm'
    BY <1>1, <1>2, <1>4, <1>5, <1>9 DEF RingForm, Owns
  <2> QED BY <2>1, <2>3, <2>4
<1>11. SocketsForm'
  <2>1. \A t \in Slot : ~Has(t, f)
    BY <1>1, <1>2 DEF SocketsForm
  <2>2. \A t \in Slot : Has(t, f)' <=> t = s
    BY <1>4, <1>5, <2>1 DEF Has
  <2>3. \A t \in Slot, g \in Socket : g # f => (Has(t, g)' <=> Has(t, g))
    BY <1>4, <1>5 DEF Has
  <2>4. sockets'[f] # None /\ \A g \in Socket : g # f => sockets'[g] = sockets[g]
    BY <1>2, <1>3
  <2> QED BY <1>1, <2>2, <2>3, <2>4 DEF SocketsForm
<1> QED BY <1>7, <1>8, <1>10, <1>11 DEF LifecycleForm

\* A created object is nobody's yet: no name, no owner, no history.
LEMMA FreshObject ==
  ASSUME LifecycleForm, NEW o \in Object, o \notin Created
  PROVE  /\ ring[o] = None /\ o \notin foreign \cup orphans \cup left
         /\ \A n \in Name : names[n] # o
         /\ \A t \in Slot : ~Owns(t, o)
<1>1. ring[o] = None /\ o # None
  BY NoneFacts DEF Created
<1> QED BY <1>1 DEF LifecycleForm, NamesOnce, OwnedSegments, Owns

\* create_shm(): a fresh object under a free name, with one owner.
LEMMA CreateShmStep ==
  ASSUME LifecycleForm, NEW s \in Slot, CreateShm(s)
  PROVE  LifecycleForm'
<1> USE NoneFacts DEF world
<1>1. LifecycleTypes /\ Shapes /\ OwnedSegments /\ NamesOnce /\ SocketsForm /\ NamesForm
      /\ RingForm /\ StopForm
  BY DEF LifecycleForm
<1> DEFINE n == engine[s].name
<1>2. PICK o \in Object \ Created :
        /\ engine[s] # None /\ engine[s].pc = "create" /\ names[n] = None
        /\ ring' = [ring EXCEPT ![o] = "Blank"]
        /\ names' = [names EXCEPT ![n] = o]
        /\ engine' = [engine EXCEPT ![s].pc = "ring", ![s].object = o, ![s].owner = TRUE]
        /\ UNCHANGED <<sockets, foreign, orphans, left>>
  BY DEF CreateShm, At
<1>3. engine[s] \in Engine /\ Shape(engine[s]) /\ engine \in [Slot -> Engine \cup {None}]
      /\ names \in [Name -> Object \cup {None}] /\ ring \in [Object -> RingState \cup {None}]
  BY <1>1, <1>2, EngineFacts DEF Shapes, LifecycleTypes
<1> DEFINE e == [engine[s] EXCEPT !.pc = "ring", !.object = o, !.owner = TRUE]
<1>4. /\ e \in Engine /\ e # None /\ e.pc = "ring" /\ e.object = o /\ e.owner /\ ~e.closer
      /\ e.name = n /\ n \in Name /\ e.socket = engine[s].socket /\ e.socket # None
      /\ e.asked = engine[s].asked /\ e.stop = engine[s].stop /\ ~engine[s].owner
  BY <1>2, <1>3 DEF Engine, Shape
<1>5. /\ engine'[s] = e /\ \A t \in Slot : t # s => engine'[t] = engine[t]
      /\ engine' \in [Slot -> Engine \cup {None}]
  BY <1>2, <1>3, <1>4
<1> HIDE DEF e, n
<1>6. Shape(e)
  BY <1>4 DEF Shape
<1>7. /\ names'[n] = o /\ \A m \in Name : m # n => names'[m] = names[m]
      /\ names' \in [Name -> Object \cup {None}]
      /\ ring'[o] = "Blank" /\ \A q \in Object : q # o => ring'[q] = ring[q]
      /\ ring' \in [Object -> RingState \cup {None}]
  BY <1>2, <1>3, <1>4 DEF RingState
<1>8. /\ ring[o] = None /\ o \notin foreign \cup orphans \cup left
      /\ \A m \in Name : names[m] # o
      /\ \A t \in Slot : ~Owns(t, o)
  BY FreshObject
<1>9. LifecycleTypes'
  BY <1>1, <1>2, <1>5, <1>7 DEF LifecycleTypes
<1>10. Shapes' /\ StopForm'
  <2>1. Shapes'
    BY <1>1, <1>5, <1>6 DEF Shapes, Shape
  <2>2. StopForm'
    BY <1>1, <1>2, <1>4, <1>5 DEF StopForm
  <2> QED BY <2>1, <2>2
<1>11. SocketsForm'
  <2>1. \A t \in Slot, f \in Socket : Has(t, f)' <=> Has(t, f)
    BY ZenonT(40), <1>2, <1>4, <1>5 DEF Has
  <2> QED BY <1>1, <1>2, <2>1 DEF SocketsForm
<1>12. /\ \A t \in Slot : Owns(t, o)' <=> t = s
       /\ \A t \in Slot, q \in Object : q # o => (Owns(t, q)' <=> Owns(t, q))
  BY <1>4, <1>5, <1>8 DEF Owns
<1>13. \A t \in Slot : t # s /\ engine[t] # None /\ engine[t].owner =>
         engine[t].object \in Object /\ engine[t].object # o /\ engine[t].name \in Name
  BY <1>1, <1>8 DEF Owns, Shapes, Shape
<1>14. OwnedSegments'
  BY <1>1, <1>2, <1>4, <1>5, <1>7, <1>8, <1>13 DEF OwnedSegments
<1>15. NamesOnce'
  <2>1. \A m \in Name : names[m] # None => names[m] \in Object
    BY <1>3
  <2>2. \A m \in Name : names'[m] # None =>
          ring'[names'[m]] # None /\ \A k \in Name : names'[k] = names'[m] => k = m
    BY <1>1, <1>7, <1>8, <2>1 DEF NamesOnce
  <2>3. Created \subseteq Created'
    BY <1>7 DEF Created
  <2> QED BY <1>1, <1>2, <2>2, <2>3 DEF NamesOnce
<1>16. NamesForm'
  <2>1. \A m \in Name : names'[m] # None =>
          names'[m] \in foreign \cup orphans \cup left \/ \E t \in Slot : Owns(t, names[m])'
    <3> SUFFICES ASSUME NEW m \in Name, names'[m] # None
                 PROVE  names'[m] \in foreign \cup orphans \cup left
                        \/ \E t \in Slot : Owns(t, names[m])'
      OBVIOUS
    <3>1. CASE m = n
      BY <3>1, <1>7, <1>12 DEF Owns
    <3>2. CASE m # n
      <4>1. names'[m] = names[m] /\ names[m] \in Object /\ names[m] # o
        BY <3>2, <1>3, <1>7, <1>8
      <4>2. CASE names[m] \in foreign \cup orphans \cup left
        BY <4>1, <4>2
      <4>3. CASE \E t \in Slot : Owns(t, names[m])
        BY <4>1, <4>3, <1>12 DEF Owns
      <4> QED BY <3>2, <4>1, <4>2, <4>3, <1>1 DEF NamesForm
    <3> QED BY <3>1, <3>2
  <2>2. \A t \in Slot : engine'[t] # None /\ engine'[t].owner =>
          names'[engine'[t].name] = engine'[t].object
    <3>1. \A t \in Slot : t # s /\ engine[t] # None /\ engine[t].owner =>
            names[engine[t].name] = engine[t].object /\ engine[t].name # n
      BY <1>1, <1>2, <1>13 DEF NamesForm
    <3> QED BY <1>4, <1>5, <1>7, <1>13, <3>1
  <2>3. \A t, u \in Slot, q \in Object : Owns(t, q)' /\ Owns(u, q)' => t = u
    BY <1>1, <1>12 DEF NamesForm
  <2> QED BY <1>2, <2>1, <2>2, <2>3 DEF NamesForm
<1>17. RingForm'
  <2>1. \A t \in Slot : Owns(t, o)' => engine'[t].pc = "ring"
    BY <1>4, <1>5, <1>12
  <2>2. \A t \in Slot, q \in Object : q # o /\ Owns(t, q)' => engine'[t] = engine[t]
    BY <1>4, <1>5 DEF Owns
  <2> SUFFICES ASSUME NEW q \in Object, ring'[q] # None, q \notin foreign \cup orphans
               PROVE  /\ ring'[q] = "Ready" => \E t \in Slot : Owns(t, q)'
                      /\ \A t \in Slot : Owns(t, q)' =>
                           /\ engine'[t].pc = "idle" => ring'[q] = "Ready"
                           /\ engine'[t].pc = "returned" => ring'[q] = "Closed"
    BY <1>2 DEF RingForm
  <2>3. CASE q = o
    BY <1>7, <2>1, <2>3
  <2>4. CASE q # o
    BY <1>1, <1>7, <1>12, <2>2, <2>4 DEF RingForm
  <2> QED BY <2>3, <2>4
<1> QED BY <1>9, <1>10, <1>11, <1>14, <1>15, <1>16, <1>17 DEF LifecycleForm

\* An engine changes the state of its own ring: initialize() or the end of
\* run().
LEMMA OwnRingStep ==
  ASSUME LifecycleForm, NEW s \in Slot, NEW e \in Engine, NEW v \in RingState,
         engine[s] # None, engine[s].owner,
         engine' = [engine EXCEPT ![s] = e],
         ring' = [ring EXCEPT ![engine[s].object] = v],
         UNCHANGED <<sockets, names, foreign, orphans, left>>,
         Shape(e), e.owner, e.object = engine[s].object, e.name = engine[s].name,
         e.socket = engine[s].socket, e.stop = engine[s].stop, e.asked = engine[s].asked,
         \/ e.pc = "idle" /\ v = "Ready"
         \/ e.pc = "returned" /\ v = "Closed",
         engine[s].pc \in {"ring", "running"}
  PROVE  LifecycleForm'
<1> USE NoneFacts DEF LifecycleForm
<1> DEFINE o == engine[s].object
<1>1. /\ engine'[s] = e /\ e # None
      /\ \A t \in Slot : t # s => engine'[t] = engine[t]
  BY DEF LifecycleTypes
<1>2. o \in Object /\ ring[o] # None /\ o \notin foreign \cup orphans /\ Owns(s, o)
  BY DEF Shapes, Shape, OwnedSegments, Owns
<1>3. /\ ring'[o] = v /\ v # None /\ \A q \in Object : q # o => ring'[q] = ring[q]
  BY <1>2 DEF LifecycleTypes, RingState
<1> HIDE DEF o
<1>4. LifecycleTypes'
  BY DEF LifecycleTypes
<1>5. \A t \in Slot, f \in Socket : Has(t, f)' <=> Has(t, f)
  BY <1>1 DEF Has
<1>6. \A t \in Slot, q \in Object : Owns(t, q)' <=> Owns(t, q)
  BY <1>1 DEF Owns
<1>7. \A t \in Slot : Owns(t, o) => t = s
  BY <1>2 DEF NamesForm
<1>8. Shapes'
  BY <1>1 DEF Shapes, Shape
<1>9. OwnedSegments'
  <2>1. \A t \in Slot : t # s /\ engine[t] # None /\ engine[t].owner =>
          engine[t].object \in Object /\ engine[t].object # o
    BY <1>7 DEF Owns, Shapes, Shape
  <2> QED BY <1>1, <1>2, <1>3, <2>1 DEF OwnedSegments, o
<1>10. NamesOnce'
  BY <1>3 DEF NamesOnce, Created, LifecycleTypes
<1>11. SocketsForm'
  BY <1>5 DEF SocketsForm
<1>12. NamesForm'
  <2>1. \A n \in Name : names[n] # None => names[n] \in Object
    BY DEF LifecycleTypes
  <2> QED BY <1>1, <1>6, <2>1 DEF NamesForm
<1>13. RingForm'
  <2>1. \A t \in Slot, q \in Object : q # o /\ Owns(t, q) => t # s
    BY DEF Owns, o
  <2> QED BY <1>1, <1>2, <1>3, <1>6, <1>7, <2>1 DEF RingForm
<1>14. StopForm'
  <2>1. e.asked => e.stop
    BY DEF StopForm
  <2>2. e.socket = None => e.stop
    BY DEF StopForm, Shapes, Shape
  <2> QED BY <1>1, <2>1, <2>2 DEF StopForm
<1> QED BY <1>4, <1>8, <1>9, <1>10, <1>11, <1>12, <1>13, <1>14

\* The ring is made on the segment its receiver owns, and closed when run() returns.
LEMMA RingStep ==
  ASSUME LifecycleForm, NEW s \in Slot, InitializeRing(s) \/ Return(s)
  PROVE  LifecycleForm'
<1> USE NoneFacts DEF world
<1>1. /\ LifecycleTypes /\ engine[s] # None /\ engine[s] \in Engine /\ Shape(engine[s])
      /\ engine \in [Slot -> Engine \cup {None}]
      /\ engine[s].asked => engine[s].stop
      /\ engine[s].socket = None /\ engine[s].pc \in {"idle", "running", "returned"} =>
           engine[s].stop
  BY EngineFacts DEF LifecycleForm, InitializeRing, Return, At, Shapes, LifecycleTypes, StopForm
<1>2. CASE InitializeRing(s)
  <2> DEFINE e == [engine[s] EXCEPT !.pc = "idle", !.closer = TRUE]
  <2>1. /\ engine[s].pc = "ring" /\ engine[s].owner
        /\ engine' = [engine EXCEPT ![s] = e]
        /\ ring' = [ring EXCEPT ![engine[s].object] = "Ready"]
        /\ UNCHANGED <<sockets, names, foreign, orphans, left>>
    BY <1>1, <1>2 DEF InitializeRing, At, Shape
  <2>2. /\ e \in Engine /\ e.pc = "idle" /\ e.closer /\ e.owner = engine[s].owner
        /\ e.object = engine[s].object /\ e.name = engine[s].name
        /\ e.socket = engine[s].socket /\ e.stop = engine[s].stop
        /\ e.asked = engine[s].asked
    BY <1>1 DEF Engine
  <2> HIDE DEF e
  <2>3. Shape(e)
    BY <1>1, <2>1, <2>2 DEF Shape
  <2>4. e.owner /\ "Ready" \in RingState
    BY <2>1, <2>2 DEF RingState
  <2> QED BY <1>1, <2>1, <2>2, <2>3, <2>4, OwnRingStep
<1>3. CASE Return(s)
  <2> DEFINE e == [engine[s] EXCEPT !.pc = "returned"]
  <2>1. /\ engine[s].pc = "running" /\ ring' = Closed(s)
        /\ engine' = [engine EXCEPT ![s] = e]
        /\ UNCHANGED <<sockets, names, foreign, orphans, left>>
    BY <1>1, <1>3 DEF Return, At
  <2>2. /\ e \in Engine /\ e.pc = "returned" /\ e.closer = engine[s].closer
        /\ e.owner = engine[s].owner
        /\ e.object = engine[s].object /\ e.name = engine[s].name
        /\ e.socket = engine[s].socket /\ e.stop = engine[s].stop
        /\ e.asked = engine[s].asked
    BY <1>1 DEF Engine
  <2> HIDE DEF e
  <2>3. Shape(e)
    BY <1>1, <2>1, <2>2 DEF Shape
  <2>4. CASE engine[s].owner
    <3>1. ring' = [ring EXCEPT ![engine[s].object] = "Closed"]
      BY <1>1, <2>1, <2>4 DEF Closed, Shape
    <3> QED BY <1>1, <2>1, <2>2, <2>3, <2>4, <3>1, OwnRingStep DEF RingState
  <2>5. CASE ~engine[s].owner
    <3>1. UNCHANGED ring
      BY <1>1, <2>1, <2>5 DEF Closed, Shape
    <3>2. \A f \in Socket : e.socket = f <=> Has(s, f)
      BY <1>1, <2>2 DEF Has
    <3> QED BY <1>1, <2>1, <2>2, <2>3, <2>5, <3>1, <3>2, QuietStep
  <2> QED BY <2>4, <2>5
<1> QED BY <1>2, <1>3

\* The socket of an engine that ceases to exist is closed with it.
LEMMA GoneSockets ==
  ASSUME LifecycleForm, NEW s \in Slot, engine[s] # None,
         engine' = [engine EXCEPT ![s] = None],
         sockets' = CloseSocket(engine[s].socket)
  PROVE  /\ engine' \in [Slot -> Engine \cup {None}]
         /\ sockets' \in [Socket -> Port \cup {"unbound", None}]
         /\ engine'[s] = None /\ \A t \in Slot : t # s => engine'[t] = engine[t]
         /\ SocketsForm' /\ Shapes' /\ StopForm'
<1> USE NoneFacts DEF LifecycleForm
<1>1. engine \in [Slot -> Engine \cup {None}]
      /\ sockets \in [Socket -> Port \cup {"unbound", None}]
      /\ engine[s].socket \in Socket \cup {None}
  <2>1. engine[s] \in Engine
    BY EngineFacts
  <2> QED BY <2>1 DEF LifecycleTypes, Engine
<1>2. /\ engine' \in [Slot -> Engine \cup {None}]
      /\ engine'[s] = None /\ \A t \in Slot : t # s => engine'[t] = engine[t]
  BY <1>1
<1>3. Shapes' /\ StopForm'
  BY <1>2 DEF Shapes, Shape, StopForm
<1>4. CASE engine[s].socket = None
  <2>1. UNCHANGED sockets
    BY <1>4 DEF CloseSocket
  <2>2. \A t \in Slot, f \in Socket : Has(t, f)' <=> Has(t, f)
    BY <1>2, <1>4 DEF Has
  <2> QED BY <1>1, <1>2, <1>3, <2>1, <2>2 DEF SocketsForm
<1>5. CASE engine[s].socket # None
  <2>0. PICK g \in Socket : g = engine[s].socket
    BY <1>1, <1>5
  <2>1. Has(s, g)
    BY <2>0 DEF Has
  <2>2. /\ sockets' \in [Socket -> Port \cup {"unbound", None}]
        /\ sockets'[g] = None /\ \A f \in Socket : f # g => sockets'[f] = sockets[f]
    BY <1>1, <1>5, <2>0 DEF CloseSocket
  <2>3. \A t \in Slot, f \in Socket : f # g => (Has(t, f)' <=> Has(t, f))
    BY <1>2, <2>0 DEF Has
  <2>4. \A t \in Slot : ~Has(t, g)'
    BY <1>2, <2>1 DEF Has, SocketsForm
  <2>5. SocketsForm'
    BY <2>1, <2>2, <2>3, <2>4 DEF SocketsForm
  <2> QED BY <1>2, <1>3, <2>2, <2>5
<1> QED BY <1>4, <1>5

\* An engine without a segment of its own ceases to exist.
LEMMA GuestGone ==
  ASSUME LifecycleForm, NEW s \in Slot, engine[s] # None, ~engine[s].owner,
         engine' = [engine EXCEPT ![s] = None],
         sockets' = CloseSocket(engine[s].socket),
         UNCHANGED <<names, ring, foreign, orphans, left>>
  PROVE  LifecycleForm'
<1> USE NoneFacts DEF LifecycleForm
<1>1. /\ engine' \in [Slot -> Engine \cup {None}]
      /\ sockets' \in [Socket -> Port \cup {"unbound", None}]
      /\ engine'[s] = None /\ \A t \in Slot : t # s => engine'[t] = engine[t]
      /\ SocketsForm' /\ Shapes' /\ StopForm'
  BY GoneSockets
<1>2. \A t \in Slot, o \in Object : Owns(t, o)' <=> Owns(t, o)
  BY <1>1 DEF Owns
<1>3. LifecycleTypes' /\ NamesOnce'
  BY <1>1 DEF LifecycleTypes, NamesOnce, Created
<1>4. OwnedSegments'
  BY <1>1 DEF OwnedSegments
<1>5. NamesForm'
  <2>1. \A n \in Name : names[n] # None => names[n] \in Object
    BY DEF LifecycleTypes
  <2> QED BY <1>1, <1>2, <2>1 DEF NamesForm
<1>6. RingForm'
  BY <1>1, <1>2 DEF RingForm, Owns
<1> QED BY <1>1, <1>3, <1>4, <1>5, <1>6

\* The owner of a segment ceases to exist: it left no ring open and removed
\* the name, or failed to, or it left an orphan.
LEMMA OwnerGone ==
  ASSUME LifecycleForm, NEW s \in Slot, engine[s] # None, engine[s].owner,
         engine' = [engine EXCEPT ![s] = None],
         sockets' = CloseSocket(engine[s].socket),
         UNCHANGED foreign,
         \/ /\ \/ names' = Unlinked(s) /\ UNCHANGED <<orphans, left>>
               \/ left' = left \cup {engine[s].object} /\ UNCHANGED <<names, orphans>>
            /\ \E v \in {"Blank", "Closed"} : ring' = [ring EXCEPT ![engine[s].object] = v]
         \/ /\ orphans' = orphans \cup {engine[s].object} /\ UNCHANGED <<names, ring, left>>
  PROVE  LifecycleForm'
<1> USE NoneFacts DEF LifecycleForm
<1>0. PICK o \in Object, k \in Name : o = engine[s].object /\ k = engine[s].name
  BY DEF Shapes, Shape
<1>1. /\ engine' \in [Slot -> Engine \cup {None}]
      /\ sockets' \in [Socket -> Port \cup {"unbound", None}]
      /\ engine'[s] = None /\ \A t \in Slot : t # s => engine'[t] = engine[t]
      /\ SocketsForm' /\ Shapes' /\ StopForm'
  BY GoneSockets
<1>2. /\ names[k] = o /\ ring[o] # None /\ Owns(s, o)
      /\ o \notin foreign \cup orphans \cup left
  BY <1>0 DEF NamesForm, OwnedSegments, Owns
<1>3. \A t \in Slot : t # s /\ engine[t] # None /\ engine[t].owner =>
        /\ engine[t].object \in Object /\ engine[t].object # o
        /\ engine[t].name \in Name /\ engine[t].name # k
        /\ names[engine[t].name] = engine[t].object
  BY <1>2 DEF Shapes, Shape, NamesForm, Owns
<1>4. /\ \A t \in Slot : ~Owns(t, o)'
      /\ \A t \in Slot, q \in Object : q # o => (Owns(t, q)' <=> Owns(t, q))
  BY <1>0, <1>1, <1>3 DEF Owns
<1>5. /\ names \in [Name -> Object \cup {None}] /\ ring \in [Object -> RingState \cup {None}]
      /\ foreign \subseteq Object /\ orphans \subseteq Object /\ left \subseteq Object
  BY DEF LifecycleTypes
<1>6. \A n \in Name : names[n] = o => n = k
  BY <1>2 DEF NamesOnce
<1>7. CASE /\ names' = Unlinked(s) /\ UNCHANGED <<orphans, left>>
           /\ \E v \in {"Blank", "Closed"} : ring' = [ring EXCEPT ![o] = v]
  <2>1. PICK v \in {"Blank", "Closed"} : ring' = [ring EXCEPT ![o] = v]
    BY <1>7
  <2>2. /\ ring'[o] = v /\ ring'[o] # None /\ ring'[o] # "Ready"
        /\ \A q \in Object : q # o => ring'[q] = ring[q]
        /\ ring' \in [Object -> RingState \cup {None}]
    BY <1>2, <1>5, <2>1 DEF RingState
  <2>3. /\ names'[k] = None /\ \A n \in Name : n # k => names'[n] = names[n]
        /\ names' \in [Name -> Object \cup {None}]
    BY <1>0, <1>5, <1>7 DEF Unlinked
  <2>4. LifecycleTypes'
    BY <1>1, <1>5, <1>7, <2>2, <2>3 DEF LifecycleTypes
  <2>5. OwnedSegments'
    BY <1>1, <1>3, <1>7, <2>2 DEF OwnedSegments
  <2>6. NamesOnce'
    <3>1. \A n \in Name : names'[n] # None =>
            names'[n] = names[n] /\ names[n] \in Object /\ n # k
      BY <1>5, <2>3
    <3>2. \A q \in Object : ring[q] # None => ring'[q] # None
      BY <2>2
    <3>3. Created \subseteq Created'
      BY <3>2 DEF Created
    <3>4. \A n \in Name : names'[n] # None =>
            ring'[names'[n]] # None /\ \A m \in Name : names'[m] = names'[n] => m = n
      BY <3>1, <3>2 DEF NamesOnce
    <3> QED BY <1>7, <3>3, <3>4 DEF NamesOnce
  <2>7. NamesForm'
    <3>1. ASSUME NEW n \in Name, names'[n] # None
          PROVE  names'[n] \in foreign \cup orphans \cup left \/ \E t \in Slot : Owns(t, names[n])'
      <4>1. names'[n] = names[n] /\ names[n] \in Object /\ names[n] # o
        BY <3>1, <1>5, <1>6, <2>3
      <4>2. CASE names[n] \in foreign \cup orphans \cup left
        BY <4>1, <4>2
      <4>3. CASE \E t \in Slot : Owns(t, names[n])
        BY <4>1, <4>3, <1>4 DEF Owns
      <4> QED BY <4>1, <4>2, <4>3, <3>1 DEF NamesForm
    <3>2. \A t \in Slot : engine'[t] # None /\ engine'[t].owner =>
            names'[engine'[t].name] = engine'[t].object
      BY <1>1, <1>3, <2>3
    <3>3. \A t, u \in Slot, q \in Object : Owns(t, q)' /\ Owns(u, q)' => t = u
      BY <1>4 DEF NamesForm
    <3> QED BY <1>7, <3>1, <3>2, <3>3 DEF NamesForm
  <2>8. RingForm'
    <3> SUFFICES ASSUME NEW q \in Object, ring'[q] # None, q \notin foreign \cup orphans
                 PROVE  /\ ring'[q] = "Ready" => \E t \in Slot : Owns(t, q)'
                        /\ \A t \in Slot : Owns(t, q)' =>
                             /\ engine'[t].pc = "idle" => ring'[q] = "Ready"
                             /\ engine'[t].pc = "returned" => ring'[q] = "Closed"
      BY <1>7 DEF RingForm
    <3>1. CASE q = o
      BY <1>4, <2>2, <3>1
    <3>2. CASE q # o
      <4>1. \A t \in Slot : Owns(t, q)' => engine'[t] = engine[t]
        BY <1>1 DEF Owns
      <4> QED BY <1>4, <2>2, <3>2, <4>1 DEF RingForm
    <3> QED BY <3>1, <3>2
  <2> QED BY <1>1, <2>4, <2>5, <2>6, <2>7, <2>8
<1>8. CASE orphans' = orphans \cup {o} /\ UNCHANGED <<names, ring, left>>
  <2>1. LifecycleTypes'
    BY <1>1, <1>2, <1>5, <1>8 DEF LifecycleTypes
  <2>2. OwnedSegments'
    BY <1>1, <1>3, <1>8 DEF OwnedSegments
  <2>3. NamesOnce'
    BY <1>2, <1>8 DEF NamesOnce, Created
  <2>4. NamesForm'
    <3>1. ASSUME NEW n \in Name, names'[n] # None
          PROVE  names'[n] \in (foreign \cup orphans \cup left)' \/ \E t \in Slot : Owns(t, names[n])'
      <4>1. names'[n] = names[n] /\ names[n] \in Object
        BY <3>1, <1>5, <1>8
      <4>2. CASE names[n] \in foreign \cup orphans \cup left \cup {o}
        BY <4>1, <4>2, <1>8
      <4>3. CASE names[n] # o /\ \E t \in Slot : Owns(t, names[n])
        BY <4>1, <4>3, <1>4 DEF Owns
      <4> QED BY <4>1, <4>2, <4>3, <3>1 DEF NamesForm
    <3>2. \A t \in Slot : engine'[t] # None /\ engine'[t].owner =>
            names'[engine'[t].name] = engine'[t].object
      BY <1>1, <1>3, <1>8
    <3>3. \A t, u \in Slot, q \in Object : Owns(t, q)' /\ Owns(u, q)' => t = u
      BY <1>4 DEF NamesForm
    <3> QED BY <3>1, <3>2, <3>3 DEF NamesForm
  <2>5. RingForm'
    <3> SUFFICES ASSUME NEW q \in Object, ring[q] # None,
                        q \notin foreign \cup orphans, q # o
                 PROVE  /\ ring[q] = "Ready" => \E t \in Slot : Owns(t, q)'
                        /\ \A t \in Slot : Owns(t, q)' =>
                             /\ engine'[t].pc = "idle" => ring[q] = "Ready"
                             /\ engine'[t].pc = "returned" => ring[q] = "Closed"
      BY <1>8 DEF RingForm
    <3>1. \A t \in Slot : Owns(t, q)' => engine'[t] = engine[t]
      BY <1>1 DEF Owns
    <3> QED BY <1>4, <3>1 DEF RingForm
  <2> QED BY <1>1, <2>1, <2>2, <2>3, <2>4, <2>5
<1>9. CASE /\ left' = left \cup {o} /\ UNCHANGED <<names, orphans>>
           /\ \E v \in {"Blank", "Closed"} : ring' = [ring EXCEPT ![o] = v]
  <2>1. PICK v \in {"Blank", "Closed"} : ring' = [ring EXCEPT ![o] = v]
    BY <1>9
  <2>2. /\ ring'[o] = v /\ ring'[o] # None /\ ring'[o] # "Ready"
        /\ \A q \in Object : q # o => ring'[q] = ring[q]
        /\ ring' \in [Object -> RingState \cup {None}]
    BY <1>2, <1>5, <2>1 DEF RingState
  <2>3. LifecycleTypes'
    BY <1>1, <1>5, <1>9, <2>2 DEF LifecycleTypes
  <2>4. OwnedSegments'
    BY <1>1, <1>3, <1>9, <2>2 DEF OwnedSegments
  <2>5. NamesOnce'
    <3>1. \A q \in Object : ring[q] # None => ring'[q] # None
      BY <2>2
    <3>2. Created \cup {o} \subseteq Created'
      BY <2>2, <3>1 DEF Created
    <3>3. \A n \in Name : names[n] # None =>
            ring'[names[n]] # None /\ \A m \in Name : names[m] = names[n] => m = n
      BY <1>5, <3>1 DEF NamesOnce
    <3> QED BY <1>9, <3>2, <3>3 DEF NamesOnce
  <2>6. NamesForm'
    <3>1. ASSUME NEW n \in Name, names'[n] # None
          PROVE  names'[n] \in (foreign \cup orphans \cup left)' \/ \E t \in Slot : Owns(t, names[n])'
      <4>1. names'[n] = names[n] /\ names[n] \in Object
        BY <3>1, <1>5, <1>9
      <4>2. CASE names[n] \in foreign \cup orphans \cup left \cup {o}
        BY <4>1, <4>2, <1>9
      <4>3. CASE names[n] # o /\ \E t \in Slot : Owns(t, names[n])
        BY <4>1, <4>3, <1>4 DEF Owns
      <4> QED BY <4>1, <4>2, <4>3, <3>1 DEF NamesForm
    <3>2. \A t \in Slot : engine'[t] # None /\ engine'[t].owner =>
            names'[engine'[t].name] = engine'[t].object
      BY <1>1, <1>3, <1>9
    <3>3. \A t, u \in Slot, q \in Object : Owns(t, q)' /\ Owns(u, q)' => t = u
      BY <1>4 DEF NamesForm
    <3> QED BY <1>9, <3>1, <3>2, <3>3 DEF NamesForm
  <2>7. RingForm'
    <3> SUFFICES ASSUME NEW q \in Object, ring'[q] # None, q \notin foreign \cup orphans
                 PROVE  /\ ring'[q] = "Ready" => \E t \in Slot : Owns(t, q)'
                        /\ \A t \in Slot : Owns(t, q)' =>
                             /\ engine'[t].pc = "idle" => ring'[q] = "Ready"
                             /\ engine'[t].pc = "returned" => ring'[q] = "Closed"
      BY <1>9 DEF RingForm
    <3>1. CASE q = o
      BY <1>4, <2>2, <3>1
    <3>2. CASE q # o
      <4>1. \A t \in Slot : Owns(t, q)' => engine'[t] = engine[t]
        BY <1>1 DEF Owns
      <4> QED BY <1>4, <2>2, <3>2, <4>1 DEF RingForm
    <3> QED BY <3>1, <3>2
  <2> QED BY <1>1, <2>3, <2>4, <2>5, <2>6, <2>7
<1> QED BY <1>0, <1>7, <1>8, <1>9

\* An engine that ends gives up its socket and every claim it had.
LEMMA GoneStep ==
  ASSUME LifecycleForm, NEW s \in Slot, FailInitialize(s) \/ Destroy(s) \/ Die(s)
  PROVE  LifecycleForm'
<1> USE NoneFacts DEF world
<1>1. /\ engine[s] # None /\ engine[s] \in Engine /\ Shape(engine[s])
      /\ engine' = [engine EXCEPT ![s] = None]
      /\ sockets' = CloseSocket(engine[s].socket) /\ UNCHANGED foreign
      /\ ring \in [Object -> RingState \cup {None}]
  BY EngineFacts DEF LifecycleForm, FailInitialize, Initializing, Destroy, Resting, At, Die,
     Shapes, LifecycleTypes
<1>2. CASE ~engine[s].owner
  <2>1. UNCHANGED <<names, ring, orphans, left>>
    BY <1>1, <1>2 DEF FailInitialize, NamesAfterFailure, Destroy, RingAfterDestroy, Die, Shape
  <2> QED BY <1>1, <1>2, <2>1, GuestGone
<1>3. CASE engine[s].owner
  <2>0. engine[s].object \in Object
    BY <1>1, <1>3 DEF Shape
  <2>1. CASE FailInitialize(s)
    <3>1. /\ engine[s].pc = "ring" /\ UNCHANGED <<ring, orphans>>
          /\ \/ names' = Unlinked(s) /\ UNCHANGED left
             \/ left' = left \cup {engine[s].object} /\ UNCHANGED names
      BY <1>1, <1>3, <2>1 DEF FailInitialize, Initializing, NamesAfterFailure, UnlinkFails,
         Shape, Engine
    <3>2. ring[engine[s].object] = "Blank"
      BY <1>1, <1>3, <3>1 DEF LifecycleForm, OwnedSegments
    <3>3. ring' = [ring EXCEPT ![engine[s].object] = "Blank"]
      BY <1>1, <2>0, <3>1, <3>2
    <3> QED BY <1>1, <1>3, <3>1, <3>3, OwnerGone
  <2>2. CASE Destroy(s)
    <3>1. engine[s].closer
      BY <1>1, <1>3, <2>2 DEF Destroy, Resting, At, Shape
    <3>2. /\ \/ names' = Unlinked(s) /\ UNCHANGED left
             \/ left' = left \cup {engine[s].object} /\ UNCHANGED names
          /\ UNCHANGED orphans
          /\ ring' = [ring EXCEPT ![engine[s].object] = "Closed"]
      BY <1>3, <2>2, <3>1 DEF Destroy, RingAfterDestroy, Closed, UnlinkFails
    <3> QED BY <1>1, <1>3, <3>2, OwnerGone
  <2>3. CASE Die(s)
    <3>1. orphans' = orphans \cup {engine[s].object} /\ UNCHANGED <<names, ring, left>>
      BY <1>3, <2>3 DEF Die
    <3> QED BY <1>1, <1>3, <3>1, OwnerGone
  <2> QED BY <2>1, <2>2, <2>3
<1> QED BY <1>2, <1>3

\* What a move leaves behind, field by field.
LEMMA MovedFromFields ==
  ASSUME NEW a \in Engine
  PROVE  /\ MovedFrom(a) \in Engine /\ MovedFrom(a).pc = a.pc
         /\ ~MovedFrom(a).owner /\ ~MovedFrom(a).closer /\ MovedFrom(a).stop
         /\ MovedFrom(a).socket = None
<1> DEFINE e == NewEngine(a.kind, a.pc, None, a.port)
<1>1. /\ e \in Engine /\ e.pc = a.pc /\ ~e.owner /\ ~e.closer /\ e.socket = None
  BY DEF NewEngine, Engine
<1>2. MovedFrom(a) = [e EXCEPT !.stop = TRUE]
  BY DEF MovedFrom
<1> HIDE DEF e
<1>3. [e EXCEPT !.stop = TRUE] \in Engine /\ [e EXCEPT !.stop = TRUE].stop
  BY <1>1 DEF Engine
<1>4. /\ [e EXCEPT !.stop = TRUE].pc = e.pc /\ [e EXCEPT !.stop = TRUE].owner = e.owner
      /\ [e EXCEPT !.stop = TRUE].closer = e.closer
      /\ [e EXCEPT !.stop = TRUE].socket = e.socket
  BY <1>1 DEF Engine
<1> QED BY <1>1, <1>2, <1>3, <1>4

\* A move takes every right and the socket to the new object.
LEMMA MoveStep ==
  ASSUME LifecycleForm, NEW s \in Slot, NEW d \in Slot, Move(s, d)
  PROVE  LifecycleForm'
<1> USE NoneFacts DEF world
<1>1. LifecycleTypes /\ Shapes /\ OwnedSegments /\ NamesOnce /\ SocketsForm /\ NamesForm
      /\ RingForm /\ StopForm
  BY DEF LifecycleForm
<1>2. /\ engine[s] # None /\ engine[s].pc \in {"idle", "returned"} /\ engine[d] = None /\ s # d
      /\ engine' = [engine EXCEPT ![d] = engine[s], ![s] = MovedFrom(engine[s])]
      /\ UNCHANGED <<sockets, names, ring, foreign, orphans, left>>
  BY DEF Move, Resting, At, MovedTo
<1>3. engine[s] \in Engine /\ Shape(engine[s]) /\ engine \in [Slot -> Engine \cup {None}]
  BY <1>1, <1>2, EngineFacts DEF Shapes, LifecycleTypes
<1> DEFINE e == MovedFrom(engine[s])
<1>4. /\ e \in Engine /\ e # None /\ ~e.owner /\ ~e.closer /\ e.socket = None /\ e.stop
      /\ e.pc \in {"idle", "returned"}
  <2>1. e \in Engine /\ e.pc = engine[s].pc /\ ~e.owner /\ ~e.closer /\ e.stop /\ e.socket = None
    BY <1>3, MovedFromFields
  <2> HIDE DEF e
  <2> QED BY <1>2, <2>1
<1>5. /\ engine'[s] = e /\ engine'[d] = engine[s]
      /\ \A t \in Slot : t # s /\ t # d => engine'[t] = engine[t]
      /\ engine' \in [Slot -> Engine \cup {None}]
  BY <1>2, <1>3, <1>4
<1> HIDE DEF e
<1>6. Shape(e)
  BY <1>4 DEF Shape
<1>7. /\ \A t \in Slot, o \in Object :
           t # s /\ t # d => (Owns(t, o)' <=> Owns(t, o))
      /\ \A o \in Object : ~Owns(s, o)' /\ ~Owns(d, o) /\ (Owns(d, o)' <=> Owns(s, o))
  BY <1>2, <1>4, <1>5 DEF Owns
<1>8. /\ \A t \in Slot, f \in Socket :
           t # s /\ t # d => (Has(t, f)' <=> Has(t, f))
      /\ \A f \in Socket : ~Has(s, f)' /\ ~Has(d, f) /\ (Has(d, f)' <=> Has(s, f))
  BY <1>2, <1>4, <1>5 DEF Has
<1>9. LifecycleTypes' /\ NamesOnce'
  BY <1>1, <1>2, <1>5 DEF LifecycleTypes, NamesOnce, Created
<1>10. Shapes' /\ StopForm' /\ OwnedSegments'
  <2>1. Shapes'
    BY <1>1, <1>3, <1>5, <1>6 DEF Shapes, Shape
  <2>2. StopForm'
    BY <1>1, <1>2, <1>4, <1>5 DEF StopForm
  <2>3. OwnedSegments'
    BY <1>1, <1>2, <1>4, <1>5 DEF OwnedSegments
  <2> QED BY <2>1, <2>2, <2>3
<1>11. SocketsForm'
  <2> SUFFICES ASSUME NEW f \in Socket
               PROVE  /\ sockets[f] # None <=> \E t \in Slot : Has(t, f)'
                      /\ \A t, u \in Slot : Has(t, f)' /\ Has(u, f)' => t = u
    BY <1>2 DEF SocketsForm
  <2>1. /\ sockets[f] # None <=> \E t \in Slot : Has(t, f)
        /\ \A t, u \in Slot : Has(t, f) /\ Has(u, f) => t = u
    BY <1>1 DEF SocketsForm
  <2> QED BY <1>2, <1>8, <2>1
<1>12. NamesForm'
  <2>1. ASSUME NEW n \in Name, names[n] # None
        PROVE  names[n] \in foreign \cup orphans \cup left \/ \E t \in Slot : Owns(t, names[n])'
    <3>1. PICK o \in Object : o = names[n]
      BY <1>1, <2>1 DEF LifecycleTypes
    <3>2. CASE o \in foreign \cup orphans \cup left
      BY <3>1, <3>2
    <3>3. CASE \E t \in Slot : Owns(t, o)
      <4>1. \E t \in Slot : Owns(t, o)'
        BY <3>3, <1>7
      <4> QED BY <1>2, <3>1, <4>1 DEF Owns
    <3> QED BY <1>1, <2>1, <3>1, <3>2, <3>3 DEF NamesForm
  <2>2. \A t \in Slot : engine'[t] # None /\ engine'[t].owner =>
          names[engine'[t].name] = engine'[t].object
    BY <1>1, <1>2, <1>4, <1>5 DEF NamesForm
  <2>3. \A t, u \in Slot, q \in Object : Owns(t, q)' /\ Owns(u, q)' => t = u
    <3>1. \A t, u \in Slot, q \in Object : Owns(t, q) /\ Owns(u, q) => t = u
      BY <1>1 DEF NamesForm
    <3> QED BY <1>7, <3>1
  <2> QED BY <1>2, <2>1, <2>2, <2>3 DEF NamesForm
<1>13. RingForm'
  <2> SUFFICES ASSUME NEW q \in Object, ring[q] # None, q \notin foreign \cup orphans
               PROVE  /\ ring[q] = "Ready" => \E t \in Slot : Owns(t, q)'
                      /\ \A t \in Slot : Owns(t, q)' =>
                           /\ engine'[t].pc = "idle" => ring[q] = "Ready"
                           /\ engine'[t].pc = "returned" => ring[q] = "Closed"
    BY <1>2 DEF RingForm
  <2>1. /\ ring[q] = "Ready" => \E t \in Slot : Owns(t, q)
        /\ \A t \in Slot : Owns(t, q) => /\ engine[t].pc = "idle" => ring[q] = "Ready"
                                         /\ engine[t].pc = "returned" => ring[q] = "Closed"
    BY <1>1 DEF RingForm
  <2> QED BY <1>5, <1>7, <2>1
<1> QED BY <1>9, <1>10, <1>11, <1>12, <1>13 DEF LifecycleForm

\* Other programs create and remove names, and change their own rings.
LEMMA ForeignStep ==
  ASSUME LifecycleForm,
         \/ \E n \in Name : ForeignCreate(n) \/ RemoveName(n)
         \/ \E o \in Object : ForeignRing(o)
  PROVE  LifecycleForm'
<1> USE NoneFacts DEF world
<1>1. LifecycleTypes /\ Shapes /\ OwnedSegments /\ NamesOnce /\ SocketsForm /\ NamesForm
      /\ RingForm /\ StopForm
  BY DEF LifecycleForm
<1>2. UNCHANGED <<engine, sockets, orphans, left>>
  BY DEF ForeignCreate, RemoveName, ForeignRing
<1>3. Shapes' /\ SocketsForm' /\ StopForm'
  BY <1>1, <1>2 DEF Shapes, Shape, SocketsForm, Has, StopForm
<1>4. \A t \in Slot, o \in Object : Owns(t, o)' <=> Owns(t, o)
  BY <1>2 DEF Owns
<1>5. /\ names \in [Name -> Object \cup {None}] /\ ring \in [Object -> RingState \cup {None}]
      /\ foreign \subseteq Object /\ orphans \subseteq Object /\ left \subseteq Object
  BY <1>1 DEF LifecycleTypes
<1>6. \A t \in Slot : engine[t] # None /\ engine[t].owner =>
        /\ engine[t].object \in Object /\ engine[t].name \in Name
        /\ names[engine[t].name] = engine[t].object
        /\ engine[t].object \notin foreign \cup orphans \cup left
  BY <1>1 DEF Shapes, Shape, NamesForm, OwnedSegments
<1>7. ASSUME NEW n \in Name, ForeignCreate(n) PROVE LifecycleForm'
  <2>1. PICK o \in Object \ Created :
          /\ names[n] = None
          /\ ring' = [ring EXCEPT ![o] = "Blank"]
          /\ names' = [names EXCEPT ![n] = o]
          /\ foreign' = foreign \cup {o}
    BY <1>7 DEF ForeignCreate
  <2>2. /\ ring[o] = None /\ o \notin foreign \cup orphans \cup left
        /\ \A m \in Name : names[m] # o
        /\ \A t \in Slot : ~Owns(t, o)
    BY FreshObject
  <2>3. /\ names'[n] = o /\ \A m \in Name : m # n => names'[m] = names[m]
        /\ names' \in [Name -> Object \cup {None}]
        /\ ring'[o] = "Blank" /\ \A q \in Object : q # o => ring'[q] = ring[q]
        /\ ring' \in [Object -> RingState \cup {None}]
    BY <1>5, <2>1 DEF RingState
  <2>4. \A t \in Slot : engine[t] # None /\ engine[t].owner =>
          engine[t].object # o /\ engine[t].name # n
    BY <1>6, <2>1, <2>2 DEF Owns
  <2>5. LifecycleTypes'
    BY <1>1, <1>2, <2>1, <2>3 DEF LifecycleTypes
  <2>6. OwnedSegments'
    BY <1>1, <1>2, <1>6, <2>1, <2>3, <2>4 DEF OwnedSegments
  <2>7. NamesOnce'
    <3>1. \A m \in Name : names'[m] # None =>
            ring'[names'[m]] # None /\ \A k \in Name : names'[k] = names'[m] => k = m
      BY <1>1, <1>5, <2>2, <2>3 DEF NamesOnce
    <3>2. Created \subseteq Created' /\ o \in Created'
      BY <2>3 DEF Created
    <3> QED BY <1>1, <1>2, <2>1, <3>1, <3>2 DEF NamesOnce
  <2>8. NamesForm'
    <3>1. ASSUME NEW m \in Name, names'[m] # None
          PROVE  names'[m] \in (foreign \cup orphans \cup left)' \/ \E t \in Slot : Owns(t, names[m])'
      <4>1. CASE m = n
        BY <4>1, <2>1, <2>3
      <4>2. CASE m # n
        <5>1. names'[m] = names[m] /\ names[m] # None
          BY <3>1, <4>2, <2>3
        <5>2. CASE names[m] \in foreign \cup orphans \cup left
          BY <1>2, <2>1, <5>1, <5>2
        <5>3. CASE \E t \in Slot : Owns(t, names[m])
          BY <1>2, <5>1, <5>3 DEF Owns
        <5> QED BY <1>1, <5>1, <5>2, <5>3 DEF NamesForm
      <4> QED BY <4>1, <4>2
    <3>2. \A t \in Slot : engine[t] # None /\ engine[t].owner =>
            names'[engine[t].name] = engine[t].object
      BY <1>6, <2>3, <2>4
    <3> QED BY <1>1, <1>2, <1>4, <3>1, <3>2 DEF NamesForm
  <2>9. RingForm'
    BY <1>1, <1>2, <1>4, <2>1, <2>3 DEF RingForm
  <2> QED BY <1>3, <2>5, <2>6, <2>7, <2>8, <2>9 DEF LifecycleForm
<1>8. ASSUME NEW n \in Name, RemoveName(n) PROVE LifecycleForm'
  <2>1. /\ names[n] \in foreign \cup orphans \cup left /\ names' = [names EXCEPT ![n] = None]
        /\ UNCHANGED <<ring, foreign>>
    BY <1>8 DEF RemoveName
  <2>2. /\ names'[n] = None /\ \A m \in Name : m # n => names'[m] = names[m]
        /\ names' \in [Name -> Object \cup {None}]
    BY <1>5, <2>1
  <2>3. LifecycleTypes' /\ OwnedSegments' /\ RingForm'
    BY <1>1, <1>2, <1>4, <2>1, <2>2 DEF LifecycleTypes, OwnedSegments, RingForm
  <2>4. NamesOnce'
    BY <1>1, <1>2, <2>1, <2>2 DEF NamesOnce, Created
  <2>5. NamesForm'
    <3>1. ASSUME NEW m \in Name, names'[m] # None
          PROVE  names'[m] \in foreign \cup orphans \cup left \/ \E t \in Slot : Owns(t, names[m])'
      <4>1. names'[m] = names[m] /\ names[m] # None
        BY <3>1, <2>2
      <4> QED BY <1>1, <1>2, <4>1 DEF NamesForm, Owns
    <3>2. \A t \in Slot : engine[t] # None /\ engine[t].owner =>
            names'[engine[t].name] = engine[t].object
      BY <1>6, <2>1, <2>2
    <3> QED BY <1>1, <1>2, <1>4, <2>1, <3>1, <3>2 DEF NamesForm
  <2> QED BY <1>3, <2>3, <2>4, <2>5 DEF LifecycleForm
<1>9. ASSUME NEW o \in Object, ForeignRing(o) PROVE LifecycleForm'
  <2>1. PICK v \in {"Ready", "Closed"} :
          /\ o \in foreign /\ ring' = [ring EXCEPT ![o] = v] /\ UNCHANGED <<names, foreign>>
    BY <1>9 DEF ForeignRing
  <2>2. /\ ring'[o] = v /\ v # None /\ \A q \in Object : q # o => ring'[q] = ring[q]
        /\ ring' \in [Object -> RingState \cup {None}]
    BY <1>5, <2>1 DEF RingState
  <2>3. LifecycleTypes' /\ OwnedSegments'
    BY <1>1, <1>2, <1>6, <2>1, <2>2 DEF LifecycleTypes, OwnedSegments
  <2>4. NamesOnce'
    <3>1. Created \subseteq Created'
      BY <2>2 DEF Created
    <3>2. \A m \in Name : names[m] # None => ring'[names[m]] # None
      BY <1>1, <1>5, <2>2 DEF NamesOnce
    <3> QED BY <1>1, <1>2, <2>1, <3>1, <3>2 DEF NamesOnce
  <2>5. NamesForm'
    BY <1>1, <1>2, <2>1 DEF NamesForm, Owns
  <2>6. RingForm'
    BY <1>1, <1>2, <1>4, <2>1, <2>2 DEF RingForm
  <2> QED BY <1>3, <2>3, <2>4, <2>5, <2>6 DEF LifecycleForm
<1> QED BY <1>7, <1>8, <1>9

-----------------------------------------------------------------------------
\* The inductive invariant holds for any number of engines that start, fail,
\* move, run, die and are destroyed in any order.
THEOREM LifecycleInvariance == Spec => []LifecycleInv
<1>1. LifecycleForm /\ [Next]_vars => LifecycleForm'
  <2> SUFFICES ASSUME LifecycleForm, [Next]_vars PROVE LifecycleForm'
    OBVIOUS
  <2>1. ASSUME NEW s \in Slot, Step(s) PROVE LifecycleForm'
    <3>1. ASSUME NEW n \in Name,
                 CallSender(s, n) \/ \E port \in Port : CallReceiver(s, n, port)
          PROVE  LifecycleForm'
      BY <3>1, CallStep
    <3>2. CASE AttachShm(s) \/ AttachRing(s) \/ ChooseSession(s) \/ RequestStop(s) \/ Run(s)
      BY <3>2, AdvanceStep
    <3>3. CASE Bind(s) \/ OpenSocket(s) BY <3>3, SocketStep
    <3>4. CASE CreateShm(s) BY <3>4, CreateShmStep
    <3>5. CASE InitializeRing(s) \/ Return(s) BY <3>5, RingStep
    <3>6. CASE FailInitialize(s) \/ Destroy(s) \/ Die(s) BY <3>6, GoneStep
    <3>7. CASE \E t \in Slot : Move(s, t) BY <3>7, MoveStep
    <3> QED BY <2>1, <3>1, <3>2, <3>3, <3>4, <3>5, <3>6, <3>7 DEF Step
  <2>2. CASE \/ \E n \in Name : ForeignCreate(n) \/ RemoveName(n)
             \/ \E o \in Object : ForeignRing(o)
    BY <2>2, ForeignStep
  <2>3. CASE UNCHANGED vars
    BY <2>3 DEF vars, LifecycleForm, LifecycleTypes, Shapes, Shape, OwnedSegments, NamesOnce,
       SocketsForm, Has, NamesForm, Owns, RingForm, StopForm, Created
  <2> QED BY <2>1, <2>2, <2>3 DEF Next
<1> QED BY <1>1, InitLifecycleForm, Forms, PTL DEF Spec

\* An open socket is held by one engine, wherever initialize() failed and
\* moves took it.
THEOREM SocketsNeverShared == Spec => []SocketsHeldOnce
<1>1. LifecycleInv => SocketsHeldOnce
  BY DEF LifecycleInv
<1> QED BY <1>1, LifecycleInvariance, PTL

\* Names are removed by their owner and only by it.
THEOREM NamesOwned == Spec => []NamesHaveTheirOwner
<1>1. LifecycleInv => NamesHaveTheirOwner
  BY DEF LifecycleInv
<1> QED BY <1>1, LifecycleInvariance, PTL

\* The destructor of an object that was moved from does not close the ring,
\* and the one of its last home does.
THEOREM RingsFollowReceivers == Spec => []RingFollowsReceiver
<1>1. LifecycleInv => RingFollowsReceiver
  BY DEF LifecycleInv
<1> QED BY <1>1, LifecycleInvariance, PTL

\* A stop request is not lost in a move; a moved-from engine stops at once.
THEOREM StopsSurviveMoves == Spec => []StopSurvivesMove
<1>1. LifecycleInv => StopSurvivesMove
  BY DEF LifecycleInv
<1> QED BY <1>1, LifecycleInvariance, PTL
=============================================================================
