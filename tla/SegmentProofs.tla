----------------------------- MODULE SegmentProofs -----------------------------
(***************************************************************************)
(* Proofs about Segment, for every number of processes, names, slots,      *)
(* descriptors, addresses and objects.                                     *)
(*                                                                         *)
(* The inductive invariant has two halves.  Who may remove a name is told  *)
(* by claims: a creation in progress, or an owning handle whose object is  *)
(* still linked, claims one object under one name.  Who may give up a      *)
(* descriptor or a mapping is told process by process.                     *)
(***************************************************************************)
EXTENDS Segment, TLAPS

\* Process p will remove name n, which stands for object o: through the
\* handle at c or, where c is None, through the creation in progress.
Claim(p, c, n, o) ==
  \/ /\ c \in Slot /\ handles[p][c] # None
     /\ handles[p][c].owner /\ handles[p][c].linked
     /\ handles[p][c].name = n /\ handles[p][c].obj = o
  \/ /\ c = None /\ calls[p] # None /\ calls[p].step \in {"resize", "mapNew"}
     /\ calls[p].name = n /\ fds[p][calls[p].descriptor] = o

Claimant == Slot \cup {None}
Made == 1..made

UsesD(p, h, d) == handles[p][h] # None /\ handles[p][h].descriptor = d
UsesA(p, h, a) == handles[p][h] # None /\ handles[p][h].address = a
CallD(p, d) == calls[p] # None /\ calls[p].descriptor = d

\* An owner has a name and an object.
OwnersForm ==
  \A p \in Process, h \in Slot :
    Owns(p, h) => handles[p][h].name \in Name /\ handles[p][h].obj \in Made

\* Names stand for distinct objects that exist.
NamesForm ==
  /\ \A n \in Name : names[n] # None => names[n] \in Made
  /\ \A n, m \in Name : names[n] # None /\ names[n] = names[m] => n = m

\* A claim is about the object the name stands for, which has no other
\* claimant and is not an orphan; a name without a claimant is an orphan's.
ClaimsForm ==
  /\ \A p \in Process, c \in Claimant, n \in Name, o \in Made :
       Claim(p, c, n, o) => names[n] = o /\ o \notin orphans
  /\ \A p, q \in Process, c, b \in Claimant, n, m \in Name, o \in Made :
       Claim(p, c, n, o) /\ Claim(q, b, m, o) => p = q /\ c = b
  /\ \A n \in Name, o \in Made :
       names[n] = o =>
         o \in orphans \/ \E p \in Process, c \in Claimant : Claim(p, c, n, o)

\* Process p's descriptors: an open one is that of the call in progress or of
\* one handle, and leads to the handle's object; the call's slot is free.
DescriptorsForm(p) ==
  /\ \A h \in Slot, d \in Descriptor :
       UsesD(p, h, d) => handles[p][h].obj = fds[p][d] /\ fds[p][d] # None
  /\ \A h, g \in Slot, d \in Descriptor : UsesD(p, h, d) /\ UsesD(p, g, d) => h = g
  /\ \A d \in Descriptor :
       fds[p][d] # None =>
         fds[p][d] \in Made /\ (CallD(p, d) \/ \E h \in Slot : UsesD(p, h, d))
  /\ \A d \in Descriptor : CallD(p, d) => fds[p][d] # None /\ \A h \in Slot : ~UsesD(p, h, d)
  /\ calls[p] # None => handles[p][calls[p].slot] = None

\* Process p's mappings: each is leaked or one handle's.
MappingsForm(p) ==
  /\ \A h \in Slot, a \in Address :
       UsesA(p, h, a) => /\ handles[p][h].obj = maps[p][a] /\ maps[p][a] # None
                         /\ <<p, a>> \notin leaked
  /\ \A h, g \in Slot, a \in Address : UsesA(p, h, a) /\ UsesA(p, g, a) => h = g
  /\ \A a \in Address :
       maps[p][a] # None => <<p, a>> \in leaked \/ \E h \in Slot : UsesA(p, h, a)
  /\ \A a \in Address : <<p, a>> \in leaked => maps[p][a] # None

Names == OwnersForm /\ NamesForm /\ ClaimsForm
Resources == \A p \in Process : DescriptorsForm(p) /\ MappingsForm(p)

SegmentInv == TypeOK /\ Names /\ Resources

-----------------------------------------------------------------------------
(***************************************************************************)
(* Facts about the constants and the tables.                               *)
(***************************************************************************)

LEMMA NoneFacts ==
  /\ \A x \in Handle \cup Call : x # None
  /\ \A x \in Object : x # None
  /\ \A x \in Name : x # None
  /\ \A x \in Slot : x # None
  /\ \A x \in Descriptor : x # None
  /\ \A x \in Address : x # None
BY NoneAssumption, NoneRecordAssumption

\* Objects are numbered in the order of their creation.
LEMMA ObjectFacts ==
  ASSUME TypeOK
  PROVE  /\ Made \subseteq Object /\ made \in Nat /\ None \notin Made
         /\ \A o \in Object : o \in Made <=> o <= made
<1>1. made \in Nat /\ made <= MaxObjects /\ MaxObjects \in Nat
  BY MaxObjectsAssumption DEF TypeOK
<1>2. Made \subseteq Object /\ \A o \in Object : o \in Made <=> o <= made
  BY <1>1 DEF Made, Object
<1> QED BY <1>1, <1>2, NoneFacts

\* What giving up an entry leaves of a table of descriptors or mappings.
LEMMA GiveUpFacts ==
  ASSUME NEW X, NEW t \in [Process -> [X -> Object \cup {None}]], None \notin X,
         NEW p \in Process, NEW x \in X \cup {None}
  PROVE  /\ GiveUp(t, p, x) \in [Process -> [X -> Object \cup {None}]]
         /\ \A q \in Process : q # p => GiveUp(t, p, x)[q] = t[q]
         /\ \A y \in X : GiveUp(t, p, x)[p][y] = IF y = x THEN None ELSE t[p][y]
<1>1. CASE x = None
  BY <1>1 DEF GiveUp
<1>2. CASE x \in X
  <2>1. GiveUp(t, p, x) = [t EXCEPT ![p][x] = None]
    BY <1>2 DEF GiveUp
  <2>2. t[p] \in [X -> Object \cup {None}]
    OBVIOUS
  <2> QED BY <1>2, <2>1, <2>2
<1> QED BY <1>1, <1>2

\* The fields of a handle.
LEMMA HandleFields ==
  ASSUME NEW e \in Handle
  PROVE  /\ e.name \in Name \cup {None} /\ e.descriptor \in Descriptor \cup {None}
         /\ e.address \in Address \cup {None} /\ e.obj \in Object \cup {None}
         /\ e.owner \in BOOLEAN /\ e.linked \in BOOLEAN
BY DEF Handle

\* The fields of a call under way.
LEMMA CallFields ==
  ASSUME NEW e \in Call
  PROVE  /\ e.step \in {"resize", "mapNew", "stat", "mapOld"}
         /\ e.name \in Name /\ e.slot \in Slot /\ e.descriptor \in Descriptor
BY DEF Call

\* A moved-from or closed handle holds nothing.
LEMMA EmptyHandleFacts ==
  /\ EmptyHandle \in Handle
  /\ EmptyHandle.name = None /\ EmptyHandle.descriptor = None
  /\ EmptyHandle.address = None /\ EmptyHandle.obj = None
  /\ ~EmptyHandle.owner /\ ~EmptyHandle.linked
BY DEF EmptyHandle, Handle

\* The types of one process's tables.
LEMMA ProcessTypes ==
  ASSUME TypeOK, NEW p \in Process
  PROVE  /\ fds[p] \in [Descriptor -> Object \cup {None}]
         /\ maps[p] \in [Address -> Object \cup {None}]
         /\ handles[p] \in [Slot -> Handle \cup {None}]
         /\ calls[p] \in Call \cup {None}
         /\ calls[p] # None => calls[p] \in Call
         /\ \A h \in Slot : handles[p][h] # None => handles[p][h] \in Handle
BY DEF TypeOK

-----------------------------------------------------------------------------
(***************************************************************************)
(* The properties follow from the invariant.                               *)
(***************************************************************************)

LEMMA FormImplies ==
  ASSUME SegmentInv
  PROVE  RemovesOnlyItsOwn /\ EveryNameHasAnOwner /\ ResourcesHeldOnce
<1> USE NoneFacts DEF SegmentInv, Names, Resources
<1>1. TypeOK /\ Made \subseteq Object /\ None \notin Made
  BY ObjectFacts
<1>2. RemovesOnlyItsOwn
  <2> SUFFICES ASSUME NEW p \in Process
               PROVE  /\ \A h \in Slot : Owns(p, h) => names[handles[p][h].name] = handles[p][h].obj
                      /\ Creating(p) => names[calls[p].name] = fds[p][calls[p].descriptor]
    BY DEF RemovesOnlyItsOwn
  <2>1. ASSUME NEW h \in Slot, Owns(p, h) PROVE names[handles[p][h].name] = handles[p][h].obj
    <3>1. Claim(p, h, handles[p][h].name, handles[p][h].obj)
      BY <2>1 DEF Claim, Owns
    <3>2. handles[p][h].name \in Name /\ handles[p][h].obj \in Made
      BY <2>1 DEF OwnersForm
    <3> QED BY <3>1, <3>2 DEF ClaimsForm, Claimant
  <2>2. ASSUME Creating(p) PROVE names[calls[p].name] = fds[p][calls[p].descriptor]
    <3>1. calls[p] \in Call
      BY <1>1, <2>2, ProcessTypes DEF Creating, InStep
    <3>2. calls[p].name \in Name /\ calls[p].descriptor \in Descriptor
      BY <3>1, CallFields
    <3>3. Claim(p, None, calls[p].name, fds[p][calls[p].descriptor])
      BY <2>2 DEF Claim, Creating, InStep
    <3>4. fds[p][calls[p].descriptor] \in Made
      BY <2>2, <3>2 DEF DescriptorsForm, CallD, Creating, InStep
    <3> QED BY <3>2, <3>3, <3>4 DEF ClaimsForm, Claimant
  <2> QED BY <2>1, <2>2
<1>3. EveryNameHasAnOwner
  <2> SUFFICES ASSUME NEW n \in Name, names[n] # None, names[n] \notin orphans
               PROVE  \E p \in Process :
                        \/ Creating(p) /\ fds[p][calls[p].descriptor] = names[n]
                        \/ \E h \in Slot : Owns(p, h) /\ handles[p][h].obj = names[n]
    BY DEF EveryNameHasAnOwner
  <2>1. PICK o \in Made : o = names[n]
    BY DEF NamesForm
  <2>2. PICK p \in Process, c \in Claimant : Claim(p, c, n, o)
    BY <2>1 DEF ClaimsForm
  <2> QED BY <2>1, <2>2 DEF Claim, Creating, InStep, Owns
<1>4. ResourcesHeldOnce
  <2> SUFFICES ASSUME NEW p \in Process
               PROVE  /\ \A d \in Descriptor :
                           IF CallD(p, d)
                             THEN fds[p][d] # None /\ Uses(p, d) = {}
                             ELSE /\ \A h, g \in Uses(p, d) : h = g
                                  /\ fds[p][d] # None <=> Uses(p, d) # {}
                                  /\ \A h \in Uses(p, d) : handles[p][h].obj = fds[p][d]
                      /\ \A a \in Address :
                           IF <<p, a>> \in leaked
                             THEN maps[p][a] # None /\ MappedBy(p, a) = {}
                             ELSE /\ \A h, g \in MappedBy(p, a) : h = g
                                  /\ maps[p][a] # None <=> MappedBy(p, a) # {}
                                  /\ \A h \in MappedBy(p, a) : handles[p][h].obj = maps[p][a]
    BY DEF ResourcesHeldOnce, CallD
  <2>1. /\ \A h, d : h \in Uses(p, d) <=> h \in Slot /\ UsesD(p, h, d)
        /\ \A h, a : h \in MappedBy(p, a) <=> h \in Slot /\ UsesA(p, h, a)
    BY DEF Uses, MappedBy, UsesD, UsesA
  <2>2. DescriptorsForm(p) /\ MappingsForm(p)
    OBVIOUS
  <2>3. ASSUME NEW d \in Descriptor
        PROVE  IF CallD(p, d)
                 THEN fds[p][d] # None /\ Uses(p, d) = {}
                 ELSE /\ \A h, g \in Uses(p, d) : h = g
                      /\ fds[p][d] # None <=> Uses(p, d) # {}
                      /\ \A h \in Uses(p, d) : handles[p][h].obj = fds[p][d]
    BY <2>1, <2>2 DEF DescriptorsForm
  <2>4. ASSUME NEW a \in Address
        PROVE  IF <<p, a>> \in leaked
                 THEN maps[p][a] # None /\ MappedBy(p, a) = {}
                 ELSE /\ \A h, g \in MappedBy(p, a) : h = g
                      /\ maps[p][a] # None <=> MappedBy(p, a) # {}
                      /\ \A h \in MappedBy(p, a) : handles[p][h].obj = maps[p][a]
    BY <2>1, <2>2 DEF MappingsForm
  <2> QED BY <2>3, <2>4
<1> QED BY <1>2, <1>3, <1>4

\* No name, no descriptor, no handle.
LEMMA InitSegment == Init => SegmentInv
<1> SUFFICES ASSUME Init PROVE SegmentInv
  OBVIOUS
<1>1. TypeOK
  BY MaxObjectsAssumption DEF Init, TypeOK, Object
<1>2. /\ \A p \in Process : calls[p] = None /\ \A h \in Slot : handles[p][h] = None
      /\ \A p \in Process, d \in Descriptor : fds[p][d] = None
      /\ \A p \in Process, a \in Address : maps[p][a] = None
      /\ \A n \in Name : names[n] = None
      /\ leaked = {} /\ orphans = {} /\ made = 0
  BY DEF Init
<1>3. Names
  BY <1>1, <1>2, ObjectFacts DEF Names, OwnersForm, Owns, NamesForm, ClaimsForm, Claim
<1>4. Resources
  BY <1>2 DEF Resources, DescriptorsForm, MappingsForm, UsesD, UsesA, CallD
<1> QED BY <1>1, <1>3, <1>4 DEF SegmentInv
-----------------------------------------------------------------------------
(***************************************************************************)
(* What may happen to the claims.                                          *)
(***************************************************************************)

LEMMA ClaimsAgain ==
  ASSUME Made' = Made,
         \A p \in Process, c \in Claimant, n \in Name, o \in Made :
           Claim(p, c, n, o)' => names'[n] = o /\ o \notin orphans',
         \A p, q \in Process, c, b \in Claimant, n, m \in Name, o \in Made :
           Claim(p, c, n, o)' /\ Claim(q, b, m, o)' => p = q /\ c = b,
         \A n \in Name, o \in Made :
           names'[n] = o =>
             o \in orphans' \/ \E p \in Process, c \in Claimant : Claim(p, c, n, o)'
  PROVE  ClaimsForm'
BY DEF ClaimsForm, Claimant

\* The claims stay as they are.
LEMMA ClaimsSame ==
  ASSUME Names, OwnersForm', UNCHANGED <<names, made, orphans>>,
         \A q \in Process, b \in Claimant, m \in Name, x \in Made :
           Claim(q, b, m, x)' <=> Claim(q, b, m, x)
  PROVE  Names'
<1>1. Made' = Made
  BY DEF Made
<1>2. NamesForm'
  BY <1>1 DEF Names, NamesForm
<1>3. /\ \A p \in Process, c \in Claimant, n \in Name, o \in Made :
           Claim(p, c, n, o)' => names'[n] = o /\ o \notin orphans'
      /\ \A p, q \in Process, c, b \in Claimant, n, m \in Name, o \in Made :
           Claim(p, c, n, o)' /\ Claim(q, b, m, o)' => p = q /\ c = b
  BY DEF Names, ClaimsForm
<1>4. ASSUME NEW n \in Name, NEW o \in Made, names'[n] = o, o \notin orphans'
      PROVE  \E p \in Process, c \in Claimant : Claim(p, c, n, o)'
  <2>1. PICK p \in Process, c \in Claimant : Claim(p, c, n, o)
    BY <1>4 DEF Names, ClaimsForm
  <2> QED BY <2>1
<1>5. ClaimsForm'
  BY <1>1, <1>3, <1>4, ClaimsAgain
<1> QED BY <1>2, <1>5 DEF Names

\* An object has one claimant.
LEMMA OneClaimant ==
  ASSUME ClaimsForm, NEW p \in Process, NEW q \in Process, NEW c \in Claimant,
         NEW b \in Claimant, NEW n \in Name, NEW m \in Name, NEW o \in Made,
         Claim(p, c, n, o), Claim(q, b, m, o)
  PROVE  p = q /\ c = b
BY DEF ClaimsForm

\* A claimant claims one object under one name.
LEMMA ClaimOne ==
  ASSUME NEW p \in Process, NEW c \in Claimant, NEW n, NEW m, NEW o, NEW x,
         Claim(p, c, n, o), Claim(p, c, m, x)
  PROVE  m = n /\ x = o
BY NoneFacts DEF Claim

\* A claim goes with its name, or makes an orphan.
LEMMA ClaimDropped ==
  ASSUME TypeOK, Names, OwnersForm', UNCHANGED made,
         NEW p \in Process, NEW c \in Claimant, NEW n \in Name, NEW o \in Made,
         Claim(p, c, n, o),
         \A q \in Process, b \in Claimant, m \in Name, x \in Made :
           Claim(q, b, m, x)' <=> (Claim(q, b, m, x) /\ ~(q = p /\ b = c)),
         \A m \in Name : m # n => names'[m] = names[m],
         \/ names'[n] = None /\ orphans' = orphans
         \/ names'[n] = names[n] /\ orphans' = orphans \cup {o}
  PROVE  Names'
<1> USE DEF Claimant
<1>1. Made' = Made /\ None \notin Made /\ names \in [Name -> Object \cup {None}]
  BY ObjectFacts DEF Made, TypeOK
<1>2. NamesForm /\ ClaimsForm /\ names[n] = o /\ o \notin orphans
  BY DEF Names, ClaimsForm
<1>3. \A m \in Name : /\ names'[m] # None => names'[m] = names[m]
                      /\ m # n => names'[m] = names[m]
                      /\ m = n => names'[m] = None \/ (names'[m] = o /\ o \in orphans')
  BY <1>1, <1>2
<1>4. NamesForm'
  BY <1>1, <1>2, <1>3 DEF NamesForm
<1>5. \A q \in Process, b \in Claimant, m \in Name, x \in Made :
        Claim(q, b, m, x)' => Claim(q, b, m, x) /\ x # o /\ m # n
  BY <1>2 DEF ClaimsForm
<1>6. orphans \subseteq orphans' /\ \A x \in orphans' : x # o => x \in orphans
  OBVIOUS
<1>7. \A q \in Process, b \in Claimant, m \in Name, x \in Made :
        Claim(q, b, m, x)' => names'[m] = x /\ x \notin orphans'
  BY <1>2, <1>3, <1>5, <1>6 DEF ClaimsForm
<1>8. \A q, r \in Process, b, a \in Claimant, m, l \in Name, x \in Made :
        Claim(q, b, m, x)' /\ Claim(r, a, l, x)' => q = r /\ b = a
  <2>1. ASSUME NEW q \in Process, NEW r \in Process, NEW b \in Claimant, NEW a \in Claimant,
               NEW m \in Name, NEW l \in Name, NEW x \in Made,
               Claim(q, b, m, x)', Claim(r, a, l, x)'
        PROVE  q = r /\ b = a
    <3>1. Claim(q, b, m, x) /\ Claim(r, a, l, x)
      BY <1>5, <2>1
    <3> QED BY <1>2, <3>1, OneClaimant
  <2> QED BY ZenonT(40), <2>1
<1>9. ASSUME NEW m \in Name, NEW x \in Made, names'[m] = x, x \notin orphans'
      PROVE  \E q \in Process, b \in Claimant : Claim(q, b, m, x)'
  <2>1. m # n /\ names[m] = x /\ x \notin orphans
    BY <1>1, <1>3, <1>6, <1>9
  <2>2. PICK q \in Process, b \in Claimant : Claim(q, b, m, x)
    BY <1>2, <2>1 DEF ClaimsForm
  <2>3. x # o
    BY <1>1, <1>2, <2>1 DEF NamesForm
  <2>4. ~(q = p /\ b = c)
    BY <2>2, <2>3, ClaimOne
  <2> QED BY <2>2, <2>4
<1>10. ClaimsForm'
  <2>1. \A m \in Name, x \in Made : names'[m] = x =>
          x \in orphans' \/ \E q \in Process, b \in Claimant : Claim(q, b, m, x)'
    BY <1>9
  <2> QED BY <1>1, <1>7, <1>8, <2>1, ClaimsAgain
<1> QED BY <1>4, <1>10 DEF Names

\* A claim moves to another claimant of its process; what that one claimed
\* before is an orphan.
LEMMA ClaimMoved ==
  ASSUME TypeOK, Names, OwnersForm', UNCHANGED <<names, made>>,
         NEW p \in Process, NEW c \in Claimant, NEW d \in Claimant, c # d,
         \A q \in Process, b \in Claimant, m \in Name, x \in Made :
           Claim(q, b, m, x)' <=>
             \/ Claim(q, b, m, x) /\ ~(q = p /\ (b = c \/ b = d))
             \/ q = p /\ b = d /\ Claim(p, c, m, x),
         orphans \subseteq orphans',
         \A x \in orphans' \ orphans : \E m \in Name : Claim(p, d, m, x),
         \A m \in Name, x \in Made : Claim(p, d, m, x) => x \in orphans'
  PROVE  Names'
<1> USE DEF Claimant
<1>1. Made' = Made /\ NamesForm /\ ClaimsForm
  BY DEF Made, Names
<1>2. NamesForm'
  BY <1>1 DEF NamesForm
<1>3. ASSUME NEW q \in Process, NEW b \in Claimant, NEW m \in Name, NEW x \in Made,
             Claim(q, b, m, x)'
      PROVE  \E a \in Claimant : /\ Claim(q, a, m, x) /\ ~(q = p /\ a = d)
                                 /\ (q = p /\ a = c) <=> (q = p /\ b = d)
                                 /\ a = b \/ (q = p /\ a = c /\ b = d)
  BY <1>3
<1>4. \A q \in Process, b \in Claimant, m \in Name, x \in Made :
        Claim(q, b, m, x)' => names'[m] = x /\ x \notin orphans'
  BY <1>1, <1>3 DEF ClaimsForm
<1>5. ASSUME NEW q \in Process, NEW r \in Process, NEW b \in Claimant, NEW a \in Claimant,
             NEW m \in Name, NEW l \in Name, NEW x \in Made,
             Claim(q, b, m, x)', Claim(r, a, l, x)'
      PROVE  q = r /\ b = a
  <2>1. PICK b1 \in Claimant : /\ Claim(q, b1, m, x)
                               /\ (q = p /\ b1 = c) <=> (q = p /\ b = d)
                               /\ b1 = b \/ (q = p /\ b1 = c /\ b = d)
    BY <1>3, <1>5
  <2>2. PICK a1 \in Claimant : /\ Claim(r, a1, l, x)
                               /\ (r = p /\ a1 = c) <=> (r = p /\ a = d)
                               /\ a1 = a \/ (r = p /\ a1 = c /\ a = d)
    BY <1>3, <1>5
  <2>3. q = r /\ a1 = b1
    BY ZenonT(40), <1>1, <2>1, <2>2 DEF ClaimsForm
  <2> QED BY <2>1, <2>2, <2>3
<1>6. ASSUME NEW m \in Name, NEW x \in Made, names[m] = x, x \notin orphans'
      PROVE  \E q \in Process, b \in Claimant : Claim(q, b, m, x)'
  <2>1. PICK q \in Process, b \in Claimant : Claim(q, b, m, x)
    BY <1>1, <1>6 DEF ClaimsForm
  <2>2. ~(q = p /\ b = d)
    BY <1>6, <2>1
  <2> QED BY <2>1, <2>2
<1>7. ClaimsForm'
  BY ZenonT(40), <1>1, <1>4, <1>5, <1>6 DEF ClaimsForm
<1> QED BY <1>2, <1>7 DEF Names

\* A new object under a free name is claimed by the call that makes it.
LEMMA ClaimMade ==
  ASSUME TypeOK, Names, OwnersForm', orphans' = orphans,
         made < MaxObjects, made' = made + 1,
         NEW p \in Process, NEW n \in Name, names[n] = None,
         names'[n] = made + 1, \A m \in Name : m # n => names'[m] = names[m],
         \A q \in Process, b \in Claimant, m \in Name, x \in Made' :
           Claim(q, b, m, x)' <=>
             \/ x \in Made /\ Claim(q, b, m, x)
             \/ q = p /\ b = None /\ m = n /\ x = made + 1
  PROVE  Names'
<1> USE DEF Claimant
<1>1. /\ made + 1 \notin Made /\ made + 1 \in Made' /\ Made \subseteq Made'
      /\ \A x \in Made' : x \in Made \/ x = made + 1
      /\ made + 1 \in Object
  BY ObjectFacts, MaxObjectsAssumption DEF Made, Object
<1>2. NamesForm /\ ClaimsForm /\ names \in [Name -> Object \cup {None}] /\ orphans \subseteq Made
  BY DEF Names, TypeOK, Made
<1>3. names'[n] = made + 1 /\ \A m \in Name : m # n => names'[m] = names[m]
  OBVIOUS
<1>4. NamesForm'
  BY <1>1, <1>2, <1>3 DEF NamesForm
<1>5. \A q \in Process, b \in Claimant, m \in Name, x \in Made' :
        Claim(q, b, m, x)' => names'[m] = x /\ x \notin orphans'
  <2>1. ASSUME NEW q \in Process, NEW b \in Claimant, NEW m \in Name, NEW x \in Made,
               Claim(q, b, m, x)
        PROVE  names[m] = x /\ x \notin orphans /\ m # n
    BY <1>2, <2>1, ObjectFacts DEF ClaimsForm
  <2> QED BY <1>1, <1>2, <1>3, <2>1
<1>6. \A q, r \in Process, b, a \in Claimant, m, l \in Name, x \in Made' :
        Claim(q, b, m, x)' /\ Claim(r, a, l, x)' => q = r /\ b = a
  <2>1. ASSUME NEW q \in Process, NEW r \in Process, NEW b \in Claimant, NEW a \in Claimant,
               NEW m \in Name, NEW l \in Name, NEW x \in Made,
               Claim(q, b, m, x)', Claim(r, a, l, x)'
        PROVE  q = r /\ b = a
    <3>1. Claim(q, b, m, x) /\ Claim(r, a, l, x)
      BY <1>1, <2>1
    <3> QED BY <1>2, <3>1, OneClaimant
  <2>2. \A q \in Process, b \in Claimant, m \in Name, x \in Made' :
          Claim(q, b, m, x)' /\ x = made + 1 => q = p /\ b = None
    BY <1>1
  <2> QED BY <1>1, <2>1, <2>2
<1>7. ASSUME NEW m \in Name, NEW x \in Made', names'[m] = x, x \notin orphans'
      PROVE  \E q \in Process, b \in Claimant : Claim(q, b, m, x)'
  <2>1. CASE m = n
    BY <1>1, <1>3, <1>7, <2>1
  <2>2. CASE m # n
    <3>1. names[m] = x /\ x \in Made
      BY <1>1, <1>2, <1>3, <1>7, <2>2, ObjectFacts, NoneFacts DEF NamesForm
    <3>2. PICK q \in Process, b \in Claimant : Claim(q, b, m, x)
      BY <1>2, <1>7, <3>1 DEF ClaimsForm
    <3> QED BY <3>1, <3>2
  <2> QED BY <2>1, <2>2
<1>8. ClaimsForm'
  <2>1. \A m \in Name, x \in Made' : names'[m] = x =>
          x \in orphans' \/ \E q \in Process, b \in Claimant : Claim(q, b, m, x)'
    BY <1>7
  <2> QED BY <1>5, <1>6, <2>1 DEF ClaimsForm
<1> QED BY <1>4, <1>8 DEF Names

\* What a dead process claimed are orphans.
LEMMA ClaimsOfDead ==
  ASSUME Names, OwnersForm', UNCHANGED <<names, made>>, NEW p \in Process,
         \A q \in Process, b \in Claimant, m \in Name, x \in Made :
           Claim(q, b, m, x)' <=> Claim(q, b, m, x) /\ q # p,
         \A x \in Made :
           x \in orphans' <=>
             x \in orphans \/ \E b \in Claimant, m \in Name : Claim(p, b, m, x)
  PROVE  Names'
<1>1. Made' = Made /\ NamesForm /\ ClaimsForm
  BY DEF Made, Names
<1>2. NamesForm'
  BY <1>1 DEF NamesForm
<1>3. \A q \in Process, b \in Claimant, m \in Name, x \in Made :
        Claim(q, b, m, x)' => names'[m] = x /\ x \notin orphans'
  BY <1>1 DEF ClaimsForm
<1>4. \A q, r \in Process, b, a \in Claimant, m, l \in Name, x \in Made :
        Claim(q, b, m, x)' /\ Claim(r, a, l, x)' => q = r /\ b = a
  BY <1>1 DEF ClaimsForm
<1>5. ASSUME NEW m \in Name, NEW x \in Made, names'[m] = x, x \notin orphans'
      PROVE  \E q \in Process, b \in Claimant : Claim(q, b, m, x)'
  <2>1. PICK q \in Process, b \in Claimant : Claim(q, b, m, x)
    BY <1>1, <1>5 DEF ClaimsForm
  <2> QED BY <1>5, <2>1
<1>6. ClaimsForm'
  BY <1>1, <1>3, <1>4, <1>5, ClaimsAgain
<1> QED BY <1>2, <1>6 DEF Names

\* Removing an orphan's name touches no claim.
LEMMA OrphanRemoved ==
  ASSUME SegmentInv, NEW n \in Name, RemoveOrphan(n)
  PROVE  SegmentInv'
<1>1. TypeOK /\ Names /\ OwnersForm /\ NamesForm /\ ClaimsForm /\ Resources
  BY DEF SegmentInv, Names
<1>2. /\ names[n] \in orphans /\ names' = [names EXCEPT ![n] = None]
      /\ orphans' = orphans \ {names[n]}
      /\ UNCHANGED <<made, sized, fds, maps, handles, calls, leaked>>
  BY DEF RemoveOrphan
<1>3. Made' = Made /\ names \in [Name -> Object \cup {None}] /\ None \notin Made
  BY <1>1, <1>2, ObjectFacts DEF Made, TypeOK
<1>4. TypeOK'
  BY <1>1, <1>2 DEF TypeOK
<1>5. Resources'
  BY <1>1, <1>2, <1>3 DEF Resources, DescriptorsForm, MappingsForm, UsesD, UsesA, CallD
<1>6. OwnersForm' /\ \A q \in Process, b \in Claimant, m \in Name, x \in Made :
                       Claim(q, b, m, x)' <=> Claim(q, b, m, x)
  BY <1>1, <1>2, <1>3 DEF OwnersForm, Owns, Claim
<1>7. NamesForm'
  BY <1>1, <1>2, <1>3 DEF NamesForm
<1>8. \A q \in Process, b \in Claimant, m \in Name, x \in Made :
        Claim(q, b, m, x)' => names'[m] = x /\ x \notin orphans'
  BY <1>1, <1>2, <1>3, <1>6 DEF ClaimsForm
<1>9. \A q, r \in Process, b, a \in Claimant, m, l \in Name, x \in Made :
        Claim(q, b, m, x)' /\ Claim(r, a, l, x)' => q = r /\ b = a
  BY <1>1, <1>6 DEF ClaimsForm
<1>10. ASSUME NEW m \in Name, NEW x \in Made, names'[m] = x, x \notin orphans'
       PROVE  \E q \in Process, b \in Claimant : Claim(q, b, m, x)'
  <2>1. m # n /\ names[m] = x /\ x # names[n]
    BY <1>1, <1>2, <1>3, <1>10 DEF NamesForm
  <2>2. PICK q \in Process, b \in Claimant : Claim(q, b, m, x)
    BY <1>1, <1>2, <1>10, <2>1 DEF ClaimsForm
  <2> QED BY <1>6, <2>2
<1>11. ClaimsForm'
  <2>1. \A m \in Name, x \in Made : names'[m] = x =>
          x \in orphans' \/ \E q \in Process, b \in Claimant : Claim(q, b, m, x)'
    BY <1>10
  <2> QED BY <1>3, <1>8, <1>9, <2>1, ClaimsAgain
<1> QED BY <1>4, <1>5, <1>6, <1>7, <1>11 DEF SegmentInv, Names

-----------------------------------------------------------------------------
(***************************************************************************)
(* A step of one process leaves those of the others alone.                 *)
(***************************************************************************)

OnlyTouches(p) ==
  \A q \in Process \ {p} :
    /\ fds'[q] = fds[q] /\ maps'[q] = maps[q]
    /\ handles'[q] = handles[q] /\ calls'[q] = calls[q]
    /\ \A a \in Address : <<q, a>> \in leaked' <=> <<q, a>> \in leaked

\* A step of one process leaves the others' descriptors and mappings alone.
LEMMA OtherResources ==
  ASSUME Resources, NEW p \in Process, OnlyTouches(p), Made \subseteq Made',
         DescriptorsForm(p)', MappingsForm(p)'
  PROVE  Resources'
<1> SUFFICES ASSUME NEW q \in Process, q # p
             PROVE  DescriptorsForm(q)' /\ MappingsForm(q)'
  BY DEF Resources
<1>1. /\ fds'[q] = fds[q] /\ maps'[q] = maps[q]
      /\ handles'[q] = handles[q] /\ calls'[q] = calls[q]
      /\ \A a \in Address : <<q, a>> \in leaked' <=> <<q, a>> \in leaked
  BY DEF OnlyTouches
<1>2. DescriptorsForm(q) /\ MappingsForm(q)
  BY DEF Resources
<1>3. /\ \A h \in Slot, d \in Descriptor : UsesD(q, h, d)' <=> UsesD(q, h, d)
      /\ \A h \in Slot, a \in Address : UsesA(q, h, a)' <=> UsesA(q, h, a)
      /\ \A d \in Descriptor : CallD(q, d)' <=> CallD(q, d)
  BY <1>1 DEF UsesD, UsesA, CallD
<1>4. DescriptorsForm(q)'
  BY <1>1, <1>2, <1>3 DEF DescriptorsForm
<1>5. MappingsForm(q)'
  BY <1>1, <1>2, <1>3 DEF MappingsForm
<1> QED BY <1>4, <1>5

\* A step of one process leaves the others' claims alone.
LEMMA OtherClaims ==
  ASSUME NEW p \in Process, OnlyTouches(p), NEW q \in Process, q # p,
         NEW b \in Claimant, NEW m, NEW x
  PROVE  Claim(q, b, m, x)' <=> Claim(q, b, m, x)
<1>1. fds'[q] = fds[q] /\ handles'[q] = handles[q] /\ calls'[q] = calls[q]
  BY DEF OnlyTouches
<1> QED BY <1>1 DEF Claim

\* A step of one process leaves the others' ownership alone.
LEMMA OtherOwners ==
  ASSUME OwnersForm, NEW p \in Process, OnlyTouches(p), Made \subseteq Made',
         \A h \in Slot : Owns(p, h)' =>
           handles'[p][h].name \in Name /\ handles'[p][h].obj \in Made'
  PROVE  OwnersForm'
<1>1. \A q \in Process : q # p => handles'[q] = handles[q]
  BY DEF OnlyTouches
<1>2. ASSUME NEW q \in Process, NEW h \in Slot, Owns(q, h)'
      PROVE  handles'[q][h].name \in Name /\ handles'[q][h].obj \in Made'
  <2>1. CASE q = p
    BY <1>2, <2>1
  <2>2. CASE q # p
    <3>1. Owns(q, h) /\ handles'[q][h] = handles[q][h]
      BY <1>1, <1>2, <2>2 DEF Owns
    <3> QED BY <3>1 DEF OwnersForm
  <2> QED BY <2>1, <2>2
<1> QED BY <1>2 DEF OwnersForm

\* The invariant, seen from process p.
LEMMA Seen ==
  ASSUME SegmentInv, NEW p \in Process
  PROVE  /\ TypeOK /\ Names /\ OwnersForm /\ NamesForm /\ ClaimsForm /\ Resources
         /\ DescriptorsForm(p) /\ MappingsForm(p)
         /\ Made \subseteq Object /\ made \in Nat /\ None \notin Made
         /\ names \in [Name -> Object \cup {None}]
         /\ fds \in [Process -> [Descriptor -> Object \cup {None}]]
         /\ maps \in [Process -> [Address -> Object \cup {None}]]
         /\ handles \in [Process -> [Slot -> Handle \cup {None}]]
         /\ calls \in [Process -> Call \cup {None}]
         /\ sized \subseteq Made /\ orphans \subseteq Made /\ leaked \subseteq Process \X Address
BY ObjectFacts DEF SegmentInv, Names, Resources, TypeOK, Made

-----------------------------------------------------------------------------
(***************************************************************************)
(* create_shm() and attach_shm().                                          *)
(***************************************************************************)

\* A call that moves on to its next step.
LEMMA NextCallStep ==
  ASSUME SegmentInv, NEW p \in Process, Resize(p) \/ Stat(p)
  PROVE  SegmentInv'
<1> USE NoneFacts
<1>1. /\ TypeOK /\ Names /\ OwnersForm /\ Resources
      /\ DescriptorsForm(p) /\ MappingsForm(p)
      /\ fds \in [Process -> [Descriptor -> Object \cup {None}]]
      /\ calls \in [Process -> Call \cup {None}]
  BY Seen
<1>2. PICK st \in {"mapNew", "mapOld"} :
        /\ calls[p] # None /\ calls[p].step \in {"resize", "stat"}
        /\ st = "mapNew" <=> calls[p].step = "resize"
        /\ calls' = [calls EXCEPT ![p].step = st]
        /\ UNCHANGED <<names, made, fds, maps, handles, orphans, leaked>>
        /\ sized' = sized \cup {fds[p][calls[p].descriptor]} \/ sized' = sized
  BY DEF Resize, Stat, InStep
<1>3. calls[p] \in Call /\ calls[p].descriptor \in Descriptor
  BY <1>1, <1>2, ProcessTypes, CallFields
<1> DEFINE e == [calls[p] EXCEPT !.step = st]
<1>4. /\ e \in Call /\ e.step = st /\ e.name = calls[p].name /\ e.slot = calls[p].slot
      /\ e.descriptor = calls[p].descriptor
  BY <1>3 DEF Call
<1>5. calls' = [calls EXCEPT ![p] = e]
  BY <1>1, <1>2
<1> HIDE DEF e
<1>6. calls'[p] = e /\ e # None /\ \A q \in Process : q # p => calls'[q] = calls[q]
  BY <1>1, <1>4, <1>5
<1>7. Made' = Made
  BY <1>2 DEF Made
<1>8. TypeOK'
  <2>1. fds[p][calls[p].descriptor] \in Made
    BY <1>1, <1>2, <1>3 DEF DescriptorsForm, CallD
  <2>2. calls' \in [Process -> Call \cup {None}]
    BY <1>1, <1>4, <1>5
  <2> QED BY <1>1, <1>2, <2>1, <2>2 DEF TypeOK, Made
<1>9. OnlyTouches(p)
  BY <1>2, <1>6 DEF OnlyTouches
<1>10. Resources'
  <2>1. DescriptorsForm(p)'
    <3>1. /\ \A d \in Descriptor : CallD(p, d)' <=> CallD(p, d)
          /\ \A h \in Slot, d \in Descriptor : UsesD(p, h, d)' <=> UsesD(p, h, d)
      BY <1>2, <1>4, <1>6 DEF CallD, UsesD
    <3> QED BY <1>1, <1>2, <1>4, <1>6, <1>7, <3>1 DEF DescriptorsForm
  <2>2. MappingsForm(p)'
    BY <1>1, <1>2 DEF MappingsForm, UsesA
  <2> QED BY <1>1, <1>7, <1>9, <2>1, <2>2, OtherResources
<1>11. Names'
  <2>1. OwnersForm'
    BY <1>1, <1>2, <1>7 DEF OwnersForm, Owns
  <2>2. \A q \in Process, b \in Claimant, m \in Name, x \in Made :
          Claim(q, b, m, x)' <=> Claim(q, b, m, x)
    <3>1. \A b \in Claimant, m \in Name, x \in Made : Claim(p, b, m, x)' <=> Claim(p, b, m, x)
      BY <1>2, <1>4, <1>6 DEF Claim
    <3> QED BY <1>9, <3>1, OtherClaims
  <2> QED BY <1>1, <1>2, <2>1, <2>2, ClaimsSame
<1> QED BY <1>8, <1>10, <1>11 DEF SegmentInv

\* shm_open() succeeded: a free descriptor is the call's.
LEMMA OpenResources ==
  ASSUME SegmentInv, NEW p \in Process, NEW h \in Slot, NEW d \in Descriptor, NEW e \in Call,
         NEW o \in Object, o \in Made', Made \subseteq Made',
         calls[p] = None, handles[p][h] = None, fds[p][d] = None,
         e.slot = h, e.descriptor = d,
         fds'[p][d] = o, \A c \in Descriptor : c # d => fds'[p][c] = fds[p][c],
         calls'[p] = e,
         \A q \in Process : q # p => fds'[q] = fds[q] /\ calls'[q] = calls[q],
         UNCHANGED <<maps, handles, leaked>>
  PROVE  Resources' /\ OnlyTouches(p) /\ OwnersForm'
<1> USE NoneFacts
<1>1. /\ TypeOK /\ OwnersForm /\ Resources /\ DescriptorsForm(p) /\ MappingsForm(p)
  BY Seen
<1>2. e # None
  OBVIOUS
<1>3. OnlyTouches(p)
  BY DEF OnlyTouches
<1>4. DescriptorsForm(p)'
  <2>1. /\ \A c \in Descriptor : CallD(p, c)' <=> c = d
        /\ \A g \in Slot, c \in Descriptor : UsesD(p, g, c)' <=> UsesD(p, g, c)
        /\ \A c \in Descriptor : ~CallD(p, c)
    BY <1>2 DEF CallD, UsesD
  <2>2. \A g \in Slot : ~UsesD(p, g, d)
    BY <1>1 DEF DescriptorsForm
  <2> QED BY <1>1, <1>2, <2>1, <2>2 DEF DescriptorsForm
<1>5. MappingsForm(p)'
  BY <1>1 DEF MappingsForm, UsesA
<1>6. Resources'
  BY <1>1, <1>3, <1>4, <1>5, OtherResources
<1>7. OwnersForm'
  BY <1>1 DEF OwnersForm, Owns
<1> QED BY <1>3, <1>6, <1>7

\* shm_open(O_CREAT | O_EXCL): a new object, claimed by the call.
LEMMA CreateOpenStep ==
  ASSUME SegmentInv, NEW p \in Process, NEW n \in Name, NEW h \in Slot, CreateOpen(p, n, h)
  PROVE  SegmentInv'
<1> USE NoneFacts
<1>1. /\ TypeOK /\ Names /\ OwnersForm /\ ClaimsForm /\ DescriptorsForm(p)
      /\ fds \in [Process -> [Descriptor -> Object \cup {None}]]
      /\ calls \in [Process -> Call \cup {None}]
      /\ names \in [Name -> Object \cup {None}] /\ made \in Nat /\ Made \subseteq Object
  BY Seen
<1>2. /\ calls[p] = None /\ handles[p][h] = None /\ names[n] = None
      /\ made < MaxObjects /\ made' = made + 1 /\ names' = [names EXCEPT ![n] = made + 1]
      /\ UNCHANGED <<sized, maps, handles, orphans, leaked>>
  BY DEF CreateOpen
<1>3. PICK d \in Descriptor :
        /\ fds[p][d] = None /\ fds' = [fds EXCEPT ![p][d] = made + 1]
        /\ calls' = [calls EXCEPT ![p] = [step |-> "resize", name |-> n,
                                          slot |-> h, descriptor |-> d]]
  BY <1>1 DEF CreateOpen, Free
<1> DEFINE e == [step |-> "resize", name |-> n, slot |-> h, descriptor |-> d]
<1>4. e \in Call /\ e.step = "resize" /\ e.name = n /\ e.slot = h /\ e.descriptor = d
  BY DEF Call
<1>5. calls' = [calls EXCEPT ![p] = e]
  BY <1>3
<1> HIDE DEF e
<1>6. PICK o \in Object : o = made + 1
  BY <1>1, <1>2, MaxObjectsAssumption DEF Object
<1>7. /\ Made \subseteq Made' /\ o \in Made' /\ o \notin Made
      /\ \A x \in Made' : x \in Made \/ x = o
  BY <1>1, <1>2, <1>6 DEF Made
<1>8. /\ Resources' /\ OnlyTouches(p) /\ OwnersForm'
      /\ fds' \in [Process -> [Descriptor -> Object \cup {None}]]
      /\ calls' \in [Process -> Call \cup {None}]
      /\ calls'[p] = e /\ fds'[p][d] = o
  <2>1. /\ fds'[p][d] = o /\ \A c \in Descriptor : c # d => fds'[p][c] = fds[p][c]
        /\ fds' \in [Process -> [Descriptor -> Object \cup {None}]]
        /\ \A q \in Process : q # p => fds'[q] = fds[q]
    BY <1>1, <1>3, <1>6
  <2>3. /\ calls'[p] = e /\ calls' \in [Process -> Call \cup {None}]
        /\ \A q \in Process : q # p => calls'[q] = calls[q]
    BY <1>1, <1>4, <1>5
  <2>2. o \in Made' /\ Made \subseteq Made'
    BY <1>6, <1>7
  <2> QED BY <1>2, <1>3, <1>4, <2>1, <2>2, <2>3, OpenResources
<1>9. TypeOK'
  <2>1. names' \in [Name -> Object \cup {None}]
    BY <1>1, <1>2, <1>6
  <2>2. made' \in 0..MaxObjects
    BY <1>1, <1>2, MaxObjectsAssumption
  <2>3. sized' \subseteq 1..made' /\ orphans' \subseteq 1..made'
    BY <1>1, <1>2, <1>7 DEF TypeOK, Made
  <2> QED BY <1>1, <1>2, <1>8, <2>1, <2>2, <2>3 DEF TypeOK
<1>10. Names'
  <2>1. \A q \in Process, b \in Claimant, m \in Name, x \in Made' :
          Claim(q, b, m, x)' <=>
            \/ x \in Made /\ Claim(q, b, m, x)
            \/ q = p /\ b = None /\ m = n /\ x = made + 1
    <3>1. ASSUME NEW q \in Process, NEW b \in Claimant, NEW m \in Name, NEW x,
                 Claim(q, b, m, x)
          PROVE  x \in Made
      <4>1. DescriptorsForm(q) /\ (calls[q] # None => calls[q] \in Call)
        BY Seen, ProcessTypes
      <4>2. CASE b \in Slot
        BY <1>1, <3>1, <4>2 DEF Claim, OwnersForm, Owns
      <4>3. CASE b = None
        <5>1. calls[q] # None /\ calls[q].descriptor \in Descriptor
              /\ fds[q][calls[q].descriptor] = x
          BY <3>1, <4>1, <4>3, CallFields DEF Claim
        <5> QED BY <4>1, <5>1 DEF DescriptorsForm, CallD
      <4> QED BY <4>2, <4>3 DEF Claimant
    <3>2. \A b \in Claimant, m \in Name, x \in Made' :
            Claim(p, b, m, x)' <=> (b \in Slot /\ Claim(p, b, m, x)) \/ (b = None /\ m = n /\ x = o)
      BY <1>2, <1>4, <1>8 DEF Claim
    <3>3. \A m \in Name, x \in Made' : ~Claim(p, None, m, x)
      BY <1>2 DEF Claim
    <3>4. \A b \in Claimant, m \in Name, x \in Made' :
            Claim(p, b, m, x)' <=> (x \in Made /\ Claim(p, b, m, x)) \/ (b = None /\ m = n /\ x = o)
      BY <3>1, <3>2, <3>3 DEF Claimant
    <3>5. \A q \in Process, b \in Claimant, m \in Name, x \in Made' :
            q # p => (Claim(q, b, m, x)' <=> x \in Made /\ Claim(q, b, m, x))
      BY <1>8, <3>1, OtherClaims
    <3> QED BY <1>6, <3>4, <3>5
  <2>2. /\ OwnersForm' /\ orphans' = orphans
        /\ names'[n] = made + 1 /\ \A m \in Name : m # n => names'[m] = names[m]
    BY <1>1, <1>2, <1>8
  <2> QED BY <1>1, <1>2, <2>1, <2>2, ClaimMade
<1> QED BY <1>8, <1>9, <1>10 DEF SegmentInv

\* shm_open() of an existing name: a descriptor without a claim.
LEMMA AttachOpenStep ==
  ASSUME SegmentInv, NEW p \in Process, NEW n \in Name, NEW h \in Slot, AttachOpen(p, n, h)
  PROVE  SegmentInv'
<1> USE NoneFacts
<1>1. /\ TypeOK /\ Names /\ NamesForm
      /\ fds \in [Process -> [Descriptor -> Object \cup {None}]]
      /\ calls \in [Process -> Call \cup {None}]
      /\ names \in [Name -> Object \cup {None}] /\ Made \subseteq Object
  BY Seen
<1>2. /\ calls[p] = None /\ handles[p][h] = None /\ names[n] # None
      /\ UNCHANGED <<names, made, sized, maps, handles, orphans, leaked>>
  BY DEF AttachOpen
<1>3. PICK d \in Descriptor :
        /\ fds[p][d] = None /\ fds' = [fds EXCEPT ![p][d] = names[n]]
        /\ calls' = [calls EXCEPT ![p] = [step |-> "stat", name |-> n,
                                          slot |-> h, descriptor |-> d]]
  BY ZenonT(40), <1>1 DEF AttachOpen, Free
<1> DEFINE e == [step |-> "stat", name |-> n, slot |-> h, descriptor |-> d]
<1>4. e \in Call /\ e.step = "stat" /\ e.name = n /\ e.slot = h /\ e.descriptor = d
  BY DEF Call
<1>5. calls' = [calls EXCEPT ![p] = e]
  BY <1>3
<1> HIDE DEF e
<1>6. PICK o \in Object : o = names[n] /\ o \in Made
  BY <1>1, <1>2 DEF NamesForm
<1>7. Made' = Made
  BY <1>2 DEF Made
<1>8. /\ Resources' /\ OnlyTouches(p) /\ OwnersForm'
      /\ fds' \in [Process -> [Descriptor -> Object \cup {None}]]
      /\ calls' \in [Process -> Call \cup {None}]
      /\ calls'[p] = e /\ fds'[p][d] = o
  <2>1. /\ fds'[p][d] = o /\ \A c \in Descriptor : c # d => fds'[p][c] = fds[p][c]
        /\ fds' \in [Process -> [Descriptor -> Object \cup {None}]]
        /\ \A q \in Process : q # p => fds'[q] = fds[q]
    BY <1>1, <1>3, <1>6
  <2>3. /\ calls'[p] = e /\ calls' \in [Process -> Call \cup {None}]
        /\ \A q \in Process : q # p => calls'[q] = calls[q]
    BY <1>1, <1>4, <1>5
  <2>2. o \in Made' /\ Made \subseteq Made'
    BY <1>6, <1>7
  <2> QED BY <1>2, <1>3, <1>4, <2>1, <2>2, <2>3, OpenResources
<1>9. TypeOK'
  BY <1>1, <1>2, <1>8 DEF TypeOK
<1>10. Names'
  <2>1. \A b \in Claimant, m \in Name, x \in Made : Claim(p, b, m, x)' <=> Claim(p, b, m, x)
    BY <1>2, <1>4, <1>8 DEF Claim
  <2>2. \A q \in Process, b \in Claimant, m \in Name, x \in Made :
          Claim(q, b, m, x)' <=> Claim(q, b, m, x)
    BY <1>8, <2>1, OtherClaims
  <2> QED BY <1>1, <1>2, <1>8, <2>2, ClaimsSame
<1> QED BY <1>8, <1>9, <1>10 DEF SegmentInv

\* The clean-up of a failed call.
LEMMA FailStep ==
  ASSUME SegmentInv, NEW p \in Process, FailCreation(p) \/ FailAttachment(p)
  PROVE  SegmentInv'
<1> USE NoneFacts
<1>1. /\ TypeOK /\ Names /\ OwnersForm /\ Resources /\ DescriptorsForm(p) /\ MappingsForm(p)
      /\ fds \in [Process -> [Descriptor -> Object \cup {None}]]
      /\ names \in [Name -> Object \cup {None}]
      /\ calls \in [Process -> Call \cup {None}]
  BY Seen
<1>2. /\ calls[p] # None
      /\ fds' = GiveUp(fds, p, calls[p].descriptor) /\ calls' = [calls EXCEPT ![p] = None]
      /\ UNCHANGED <<made, sized, maps, handles, leaked>>
      /\ \/ /\ calls[p].step \in {"resize", "mapNew"}
            /\ \/ /\ names' = [names EXCEPT ![calls[p].name] = None]
                  /\ orphans' = orphans
               \/ /\ orphans' = orphans \cup {fds[p][calls[p].descriptor]}
                  /\ names' = names
         \/ /\ calls[p].step \in {"stat", "mapOld"}
            /\ names' = names /\ orphans' = orphans
  BY DEF FailCreation, FailAttachment, NamesAfterFailure, InStep
<1>3. PICK d \in Descriptor, n \in Name : d = calls[p].descriptor /\ n = calls[p].name
  BY <1>1, <1>2, ProcessTypes, CallFields
<1>4. /\ fds' \in [Process -> [Descriptor -> Object \cup {None}]]
      /\ \A q \in Process : q # p => fds'[q] = fds[q]
      /\ \A c \in Descriptor : fds'[p][c] = IF c = d THEN None ELSE fds[p][c]
  BY SMTT(30), <1>1, <1>2, <1>3, GiveUpFacts
<1>5. /\ calls' \in [Process -> Call \cup {None}] /\ calls'[p] = None
      /\ \A q \in Process : q # p => calls'[q] = calls[q]
  BY <1>1, <1>2
<1>6. Made' = Made /\ UNCHANGED <<made, sized, maps, handles, leaked>>
  BY <1>2 DEF Made
<1>7. TypeOK'
  <2>1. names' \in [Name -> Object \cup {None}]
    BY <1>1, <1>2, <1>3
  <2>2. fds[p][d] \in Made
    BY <1>1, <1>2, <1>3 DEF DescriptorsForm, CallD
  <2>3. orphans' \subseteq 1..made'
    BY <1>1, <1>2, <1>3, <2>2 DEF TypeOK, Made
  <2> QED BY <1>1, <1>4, <1>5, <1>6, <2>1, <2>3 DEF TypeOK
<1>8. OnlyTouches(p)
  BY <1>4, <1>5, <1>6 DEF OnlyTouches
<1>9. Resources'
  <2>1. DescriptorsForm(p)'
    <3>1. /\ \A c \in Descriptor : ~CallD(p, c)' /\ (CallD(p, c) <=> c = d)
          /\ \A h \in Slot, c \in Descriptor : UsesD(p, h, c)' <=> UsesD(p, h, c)
      BY <1>2, <1>3, <1>5 DEF CallD, UsesD
    <3>2. \A h \in Slot : ~UsesD(p, h, d)
      BY <1>1, <3>1 DEF DescriptorsForm
    <3> QED BY <1>1, <1>4, <1>5, <1>6, <3>1, <3>2 DEF DescriptorsForm
  <2>2. MappingsForm(p)'
    BY <1>1, <1>6 DEF MappingsForm, UsesA
  <2> QED BY <1>1, <1>6, <1>8, <2>1, <2>2, OtherResources
<1>10. OwnersForm'
  BY <1>1, <1>6 DEF OwnersForm, Owns
<1>11. \A b \in Claimant, m \in Name, x \in Made :
         Claim(p, b, m, x)' <=> Claim(p, b, m, x) /\ b # None
  BY <1>5, <1>6 DEF Claim
<1>12. CASE calls[p].step \in {"resize", "mapNew"}
  <2>1. PICK o \in Made : o = fds[p][d]
    BY <1>1, <1>2, <1>3 DEF DescriptorsForm, CallD
  <2>2. Claim(p, None, n, o)
    BY <1>2, <1>3, <1>12, <2>1 DEF Claim
  <2>3. \A q \in Process, b \in Claimant, m \in Name, x \in Made :
          Claim(q, b, m, x)' <=> (Claim(q, b, m, x) /\ ~(q = p /\ b = None))
    BY <1>8, <1>11, OtherClaims
  <2>4. /\ \A m \in Name : m # n => names'[m] = names[m]
        /\ \/ names'[n] = None /\ orphans' = orphans
           \/ names'[n] = names[n] /\ orphans' = orphans \cup {o}
    BY <1>1, <1>2, <1>3, <1>12, <2>1
  <2>5. Names'
    BY <1>1, <1>6, <1>10, <2>2, <2>3, <2>4, ClaimDropped DEF Claimant
  <2> QED BY <1>7, <1>9, <2>5 DEF SegmentInv
<1>13. CASE calls[p].step \in {"stat", "mapOld"}
  <2>1. \A m \in Name, x \in Made : ~Claim(p, None, m, x)
    BY <1>13 DEF Claim
  <2>2. \A q \in Process, b \in Claimant, m \in Name, x \in Made :
          Claim(q, b, m, x)' <=> Claim(q, b, m, x)
    BY <1>8, <1>11, <2>1, OtherClaims
  <2>3. names' = names /\ orphans' = orphans
    BY <1>2, <1>13
  <2>4. Names'
    BY <1>1, <1>6, <1>10, <2>2, <2>3, ClaimsSame
  <2> QED BY <1>7, <1>9, <2>4 DEF SegmentInv
<1> QED BY <1>2, <1>12, <1>13

\* mmap() succeeded: the handle takes over what the call held.
LEMMA MapStep ==
  ASSUME SegmentInv, NEW p \in Process, Map(p)
  PROVE  SegmentInv'
<1> USE NoneFacts
<1>1. /\ TypeOK /\ Names /\ OwnersForm /\ Resources /\ DescriptorsForm(p) /\ MappingsForm(p)
      /\ maps \in [Process -> [Address -> Object \cup {None}]]
      /\ handles \in [Process -> [Slot -> Handle \cup {None}]]
      /\ calls \in [Process -> Call \cup {None}]
      /\ Made \subseteq Object /\ None \notin Made
  BY Seen
<1>2. /\ calls[p] # None /\ calls[p].step \in {"mapNew", "mapOld"}
      /\ calls' = [calls EXCEPT ![p] = None]
      /\ UNCHANGED <<names, made, sized, fds, orphans, leaked>>
  BY DEF Map, InStep
<1>3. PICK d \in Descriptor, n \in Name, s \in Slot :
        d = calls[p].descriptor /\ n = calls[p].name /\ s = calls[p].slot
  BY <1>1, <1>2, ProcessTypes, CallFields
<1>4. PICK o \in Made : o = fds[p][d]
  BY <1>1, <1>2, <1>3 DEF DescriptorsForm, CallD
<1>5. PICK w \in BOOLEAN : w <=> calls[p].step = "mapNew"
  OBVIOUS
<1>6. PICK a \in Address :
        /\ maps[p][a] = None /\ maps' = [maps EXCEPT ![p][a] = o]
        /\ handles' = [handles EXCEPT ![p][s] =
                         [name |-> n, descriptor |-> d, address |-> a, owner |-> w,
                          linked |-> TRUE, obj |-> o]]
  <2>1. PICK a \in Free(maps[p]) :
          /\ maps' = [maps EXCEPT ![p][a] = fds[p][d]]
          /\ handles' = [handles EXCEPT ![p][s] =
                           [name |-> n, descriptor |-> d, address |-> a,
                            owner |-> calls[p].step = "mapNew",
                            linked |-> TRUE, obj |-> fds[p][d]]]
    BY <1>3 DEF Map
  <2>2. a \in Address /\ maps[p][a] = None
    BY <1>1 DEF Free
  <2>3. (calls[p].step = "mapNew") = w
    BY <1>5
  <2> QED BY <1>4, <2>1, <2>2, <2>3
<1> DEFINE e == [name |-> n, descriptor |-> d, address |-> a, owner |-> w,
                 linked |-> TRUE, obj |-> o]
<1>7. /\ e \in Handle /\ e.name = n /\ e.descriptor = d /\ e.address = a /\ e.owner = w
      /\ e.linked = TRUE /\ e.obj = o
  BY <1>1, <1>4 DEF Handle
<1>8. handles' = [handles EXCEPT ![p][s] = e]
  BY <1>6
<1> HIDE DEF e
<1>9. /\ handles'[p][s] = e /\ e # None
      /\ \A h \in Slot : h # s => handles'[p][h] = handles[p][h]
      /\ \A q \in Process : q # p => handles'[q] = handles[q]
      /\ handles' \in [Process -> [Slot -> Handle \cup {None}]]
  BY <1>1, <1>7, <1>8
<1>10. /\ maps'[p][a] = o /\ \A c \in Address : c # a => maps'[p][c] = maps[p][c]
       /\ \A q \in Process : q # p => maps'[q] = maps[q]
       /\ maps' \in [Process -> [Address -> Object \cup {None}]]
  BY <1>1, <1>4, <1>6
<1>11. /\ calls'[p] = None /\ calls' \in [Process -> Call \cup {None}]
       /\ \A q \in Process : q # p => calls'[q] = calls[q]
  BY <1>1, <1>2
<1>12. Made' = Made /\ UNCHANGED <<names, made, sized, fds, orphans, leaked>>
  BY <1>2 DEF Made
<1>13. TypeOK'
  BY <1>1, <1>9, <1>10, <1>11, <1>12 DEF TypeOK
<1>14. OnlyTouches(p)
  BY <1>9, <1>10, <1>11, <1>12 DEF OnlyTouches
<1>15. handles[p][s] = None
  BY <1>1, <1>2, <1>3 DEF DescriptorsForm
<1>16. Resources'
  <2>1. DescriptorsForm(p)'
    <3>1. /\ \A c \in Descriptor : ~CallD(p, c)' /\ (CallD(p, c) <=> c = d)
          /\ \A h \in Slot, c \in Descriptor :
               /\ h # s => (UsesD(p, h, c)' <=> UsesD(p, h, c))
               /\ UsesD(p, s, c)' <=> c = d
               /\ ~UsesD(p, s, c)
      BY <1>2, <1>3, <1>7, <1>9, <1>11, <1>15 DEF CallD, UsesD
    <3>2. \A h \in Slot : ~UsesD(p, h, d)
      BY <1>1, <3>1 DEF DescriptorsForm
    <3>3. \A h \in Slot, c \in Descriptor :
            UsesD(p, h, c)' => handles'[p][h].obj = fds[p][c] /\ fds[p][c] # None
      BY <1>1, <1>4, <1>7, <1>9, <3>1 DEF DescriptorsForm
    <3>4. \A h, g \in Slot, c \in Descriptor : UsesD(p, h, c)' /\ UsesD(p, g, c)' => h = g
      BY <1>1, <3>1, <3>2 DEF DescriptorsForm
    <3>5. \A c \in Descriptor :
            fds[p][c] # None => fds[p][c] \in Made /\ \E h \in Slot : UsesD(p, h, c)'
      BY <1>1, <3>1 DEF DescriptorsForm
    <3> QED BY <1>11, <1>12, <3>1, <3>3, <3>4, <3>5 DEF DescriptorsForm
  <2>2. MappingsForm(p)'
    <3>1. \A h \in Slot, c \in Address :
            /\ h # s => (UsesA(p, h, c)' <=> UsesA(p, h, c))
            /\ UsesA(p, s, c)' <=> c = a
            /\ ~UsesA(p, s, c)
      BY <1>7, <1>9, <1>15 DEF UsesA
    <3>2. (\A h \in Slot : ~UsesA(p, h, a)) /\ <<p, a>> \notin leaked
      BY <1>1, <1>6 DEF MappingsForm
    <3>3. \A h \in Slot, c \in Address :
            UsesA(p, h, c)' => /\ handles'[p][h].obj = maps'[p][c] /\ maps'[p][c] # None
                               /\ <<p, c>> \notin leaked
      <4> SUFFICES ASSUME NEW h \in Slot, NEW c \in Address, UsesA(p, h, c)'
                   PROVE  /\ handles'[p][h].obj = maps'[p][c] /\ maps'[p][c] # None
                          /\ <<p, c>> \notin leaked
        OBVIOUS
      <4>1. CASE h = s
        <5>1. c = a
          BY <3>1, <4>1
        <5> QED BY <1>1, <1>7, <1>9, <1>10, <3>2, <4>1, <5>1
      <4>2. CASE h # s
        <5>1. UsesA(p, h, c) /\ c # a
          BY <3>1, <3>2, <4>2
        <5> QED BY <1>1, <1>9, <1>10, <4>2, <5>1 DEF MappingsForm
      <4> QED BY <4>1, <4>2
    <3>4. \A h, g \in Slot, c \in Address : UsesA(p, h, c)' /\ UsesA(p, g, c)' => h = g
      BY <1>1, <3>1, <3>2 DEF MappingsForm
    <3>5. \A c \in Address :
            maps'[p][c] # None => <<p, c>> \in leaked \/ \E h \in Slot : UsesA(p, h, c)'
      BY <1>1, <1>10, <3>1 DEF MappingsForm
    <3>6. \A c \in Address : <<p, c>> \in leaked => maps'[p][c] # None
      BY <1>1, <1>10, <3>2 DEF MappingsForm
    <3> QED BY <1>12, <3>3, <3>4, <3>5, <3>6 DEF MappingsForm
  <2> QED BY <1>1, <1>12, <1>14, <2>1, <2>2, OtherResources
<1>17. OwnersForm'
  <2>1. \A h \in Slot : Owns(p, h)' =>
          handles'[p][h].name \in Name /\ handles'[p][h].obj \in Made'
    BY <1>1, <1>7, <1>9, <1>12 DEF OwnersForm, Owns
  <2> QED BY <1>1, <1>12, <1>14, <2>1, OtherOwners
<1>18. /\ \A m \in Name, x \in Made : ~Claim(p, None, m, x)' /\ ~Claim(p, s, m, x)
       /\ \A m \in Name, x \in Made : Claim(p, s, m, x)' <=> (w /\ m = n /\ x = o)
       /\ \A m \in Name, x \in Made : Claim(p, None, m, x) <=> (w /\ m = n /\ x = o)
       /\ \A h \in Slot, m \in Name, x \in Made :
            h # s => (Claim(p, h, m, x)' <=> Claim(p, h, m, x))
  BY <1>2, <1>3, <1>4, <1>5, <1>7, <1>9, <1>11, <1>15 DEF Claim
<1>19. Names'
  <2>1. \A q \in Process, b \in Claimant, m \in Name, x \in Made :
          Claim(q, b, m, x)' <=>
            \/ Claim(q, b, m, x) /\ ~(q = p /\ (b = None \/ b = s))
            \/ q = p /\ b = s /\ Claim(p, None, m, x)
    <3>1. \A b \in Claimant, m \in Name, x \in Made :
            Claim(p, b, m, x)' <=> \/ Claim(p, b, m, x) /\ ~(b = None \/ b = s)
                                   \/ b = s /\ Claim(p, None, m, x)
      BY <1>18 DEF Claimant
    <3>2. \A q \in Process, b \in Claimant, m \in Name, x \in Made :
            q # p => (Claim(q, b, m, x)' <=> Claim(q, b, m, x))
      BY <1>14, OtherClaims
    <3> QED BY <3>1, <3>2
  <2>2. s # None /\ s \in Claimant /\ None \in Claimant
    BY DEF Claimant
  <2>3. \A m \in Name, x \in Made : Claim(p, s, m, x) => x \in orphans'
    BY <1>18
  <2> QED BY <1>1, <1>12, <1>17, <2>1, <2>2, <2>3, ClaimMoved
<1> QED BY <1>13, <1>16, <1>19 DEF SegmentInv

-----------------------------------------------------------------------------
(***************************************************************************)
(* A handle's life.                                                        *)
(***************************************************************************)

\* What close_shm() does to the tables, entry by entry.
LEMMA CloseFacts ==
  ASSUME TypeOK, NEW p \in Process, NEW hd \in Handle, NEW un \in BOOLEAN,
         close_shm(p, hd, un)
  PROVE  /\ fds' \in [Process -> [Descriptor -> Object \cup {None}]]
         /\ maps' \in [Process -> [Address -> Object \cup {None}]]
         /\ \A q \in Process : q # p => fds'[q] = fds[q] /\ maps'[q] = maps[q]
         /\ \A d \in Descriptor : fds'[p][d] = IF d = hd.descriptor THEN None ELSE fds[p][d]
         /\ \A a \in Address : maps'[p][a] = IF un /\ a = hd.address THEN None ELSE maps[p][a]
         /\ un \/ hd.address \in Address
<1>1. hd.descriptor \in Descriptor \cup {None} /\ hd.address \in Address \cup {None}
  BY HandleFields
<1>2. /\ fds \in [Process -> [Descriptor -> Object \cup {None}]]
      /\ maps \in [Process -> [Address -> Object \cup {None}]]
  BY DEF TypeOK
<1>3. /\ fds' = GiveUp(fds, p, hd.descriptor)
      /\ maps' = IF un THEN GiveUp(maps, p, hd.address) ELSE maps
      /\ un \/ hd.address # None
  BY DEF close_shm
<1>4. None \notin Descriptor /\ None \notin Address
  BY NoneFacts
<1>5. /\ fds' \in [Process -> [Descriptor -> Object \cup {None}]]
      /\ \A q \in Process : q # p => fds'[q] = fds[q]
      /\ \A d \in Descriptor : fds'[p][d] = IF d = hd.descriptor THEN None ELSE fds[p][d]
  <2>1. PICK x \in Descriptor \cup {None} : x = hd.descriptor
    BY <1>1
  <2>2. fds' = GiveUp(fds, p, x)
    BY <1>3, <2>1
  <2>3. PICK t \in [Process -> [Descriptor -> Object \cup {None}]] : t = fds
    BY <1>2
  <2>4. /\ GiveUp(t, p, x) \in [Process -> [Descriptor -> Object \cup {None}]]
        /\ \A q \in Process : q # p => GiveUp(t, p, x)[q] = t[q]
        /\ \A d \in Descriptor : GiveUp(t, p, x)[p][d] = IF d = x THEN None ELSE t[p][d]
    BY <1>4, GiveUpFacts
  <2> QED BY <2>1, <2>2, <2>3, <2>4
<1>6. /\ maps' \in [Process -> [Address -> Object \cup {None}]]
      /\ \A q \in Process : q # p => maps'[q] = maps[q]
      /\ \A a \in Address : maps'[p][a] = IF un /\ a = hd.address THEN None ELSE maps[p][a]
  <2>1. CASE un
    <3>1. PICK x \in Address \cup {None} : x = hd.address
      BY <1>1
    <3>2. maps' = GiveUp(maps, p, x)
      BY <1>3, <2>1, <3>1
    <3>3. /\ GiveUp(maps, p, x) \in [Process -> [Address -> Object \cup {None}]]
          /\ \A q \in Process : q # p => GiveUp(maps, p, x)[q] = maps[q]
          /\ \A a \in Address : GiveUp(maps, p, x)[p][a] = IF a = x THEN None ELSE maps[p][a]
      BY <1>2, <1>4, GiveUpFacts
    <3> QED BY <2>1, <3>1, <3>2, <3>3
  <2>2. CASE ~un
    BY <1>2, <1>3, <2>2
  <2> QED BY <2>1, <2>2
<1> QED BY <1>1, <1>3, <1>5, <1>6

\* The descriptors after the handle at h gave up its own.
LEMMA DescriptorGone ==
  ASSUME NEW p \in Process, NEW h \in Slot, DescriptorsForm(p), Made' = Made,
         calls[p] = None, calls'[p] = None,
         \A g \in Slot : g # h => handles'[p][g] = handles[p][g],
         \A d \in Descriptor : ~UsesD(p, h, d)',
         \A d \in Descriptor : fds'[p][d] = IF UsesD(p, h, d) THEN None ELSE fds[p][d]
  PROVE  DescriptorsForm(p)'
<1>1. /\ \A g \in Slot, d \in Descriptor : UsesD(p, g, d)' <=> g # h /\ UsesD(p, g, d)
      /\ \A d \in Descriptor : ~CallD(p, d) /\ ~CallD(p, d)'
  BY DEF UsesD, CallD
<1>2. \A g \in Slot, d \in Descriptor :
        UsesD(p, g, d)' => handles'[p][g].obj = fds'[p][d] /\ fds'[p][d] # None
  BY <1>1 DEF DescriptorsForm
<1>3. \A g, k \in Slot, d \in Descriptor : UsesD(p, g, d)' /\ UsesD(p, k, d)' => g = k
  BY <1>1 DEF DescriptorsForm
<1>4. \A d \in Descriptor :
        fds'[p][d] # None => fds'[p][d] \in Made /\ \E g \in Slot : UsesD(p, g, d)'
  BY <1>1 DEF DescriptorsForm
<1> QED BY <1>1, <1>2, <1>3, <1>4 DEF DescriptorsForm

\* close_shm() gives up descriptor and mapping, or fails to unmap and leaks it.
LEMMA CloseStep ==
  ASSUME SegmentInv, NEW p \in Process, NEW h \in Slot, Close(p, h)
  PROVE  SegmentInv'
<1> USE NoneFacts
<1>1. /\ TypeOK /\ Names /\ OwnersForm /\ Resources /\ DescriptorsForm(p) /\ MappingsForm(p)
      /\ handles \in [Process -> [Slot -> Handle \cup {None}]]
  BY Seen
<1>2. /\ calls[p] = None /\ handles[p][h] # None
      /\ UNCHANGED <<names, made, sized, calls, orphans, leaked>>
  BY DEF Close, Live
<1>3. PICK hd \in Handle : hd = handles[p][h]
  BY <1>1, <1>2, ProcessTypes
<1>4. PICK un \in BOOLEAN :
        /\ close_shm(p, hd, un)
        /\ handles' = [handles EXCEPT ![p][h] = Closed(handles[p][h], un)]
  BY <1>3 DEF Close
<1> DEFINE e == Closed(hd, un)
<1>5. /\ e \in Handle /\ e.name = hd.name /\ e.descriptor = None
      /\ e.address = (IF un THEN None ELSE hd.address)
      /\ e.owner = hd.owner /\ e.linked = hd.linked /\ e.obj = hd.obj
  <2>1. hd.address \in Address \cup {None}
    BY HandleFields
  <2>2. PICK a \in Address \cup {None} : a = IF un THEN None ELSE hd.address
    BY <2>1
  <2>3. e = [hd EXCEPT !.descriptor = None, !.address = a]
    BY <2>2 DEF Closed
  <2> HIDE DEF e
  <2> QED BY <2>2, <2>3 DEF Handle
<1>6. handles' = [handles EXCEPT ![p][h] = e]
  BY <1>3, <1>4
<1> HIDE DEF e
<1>7. /\ handles'[p][h] = e /\ e # None
      /\ \A g \in Slot : g # h => handles'[p][g] = handles[p][g]
      /\ \A q \in Process : q # p => handles'[q] = handles[q]
      /\ handles' \in [Process -> [Slot -> Handle \cup {None}]]
  BY <1>1, <1>5, <1>6
<1>8. /\ fds' \in [Process -> [Descriptor -> Object \cup {None}]]
      /\ maps' \in [Process -> [Address -> Object \cup {None}]]
      /\ \A q \in Process : q # p => fds'[q] = fds[q] /\ maps'[q] = maps[q]
      /\ \A d \in Descriptor : fds'[p][d] = IF d = hd.descriptor THEN None ELSE fds[p][d]
      /\ \A a \in Address : maps'[p][a] = IF un /\ a = hd.address THEN None ELSE maps[p][a]
  BY <1>1, <1>4, CloseFacts
<1>9. Made' = Made /\ UNCHANGED <<names, made, sized, calls, orphans, leaked>>
  BY <1>2 DEF Made
<1>10. TypeOK'
  BY <1>1, <1>7, <1>8, <1>9 DEF TypeOK
<1>11. OnlyTouches(p)
  BY <1>7, <1>8, <1>9 DEF OnlyTouches
<1>12. DescriptorsForm(p)'
  <2>1. /\ \A d \in Descriptor : ~UsesD(p, h, d)'
        /\ \A d \in Descriptor : fds'[p][d] = IF UsesD(p, h, d) THEN None ELSE fds[p][d]
    BY <1>2, <1>3, <1>5, <1>7, <1>8 DEF UsesD
  <2> QED BY <1>1, <1>2, <1>7, <1>9, <2>1, DescriptorGone
<1>13. MappingsForm(p)'
  <2>1. /\ \A g \in Slot, a \in Address : g # h => (UsesA(p, g, a)' <=> UsesA(p, g, a))
        /\ \A a \in Address : UsesA(p, h, a)' <=> UsesA(p, h, a) /\ ~un
        /\ \A a \in Address : UsesA(p, h, a) <=> a = hd.address
    BY <1>2, <1>3, <1>5, <1>7 DEF UsesA
  <2>2. \A g \in Slot, a \in Address :
          UsesA(p, g, a)' => /\ handles'[p][g].obj = maps'[p][a] /\ maps'[p][a] # None
                             /\ <<p, a>> \notin leaked
    <3> SUFFICES ASSUME NEW g \in Slot, NEW a \in Address, UsesA(p, g, a)'
                 PROVE  /\ handles'[p][g].obj = maps'[p][a] /\ maps'[p][a] # None
                        /\ <<p, a>> \notin leaked
      OBVIOUS
    <3>1. UsesA(p, g, a) /\ (g = h => ~un) /\ handles'[p][g].obj = handles[p][g].obj
      BY <1>3, <1>5, <1>7, <2>1
    <3>2. ~(un /\ a = hd.address)
      BY <1>1, <2>1, <3>1 DEF MappingsForm
    <3> QED BY <1>1, <1>8, <3>1, <3>2 DEF MappingsForm
  <2>3. \A g, k \in Slot, a \in Address : UsesA(p, g, a)' /\ UsesA(p, k, a)' => g = k
    BY <1>1, <2>1 DEF MappingsForm
  <2>4. \A a \in Address :
          maps'[p][a] # None => <<p, a>> \in leaked \/ \E g \in Slot : UsesA(p, g, a)'
    BY <1>1, <1>8, <2>1 DEF MappingsForm
  <2>5. \A a \in Address : <<p, a>> \in leaked => maps'[p][a] # None
    BY <1>1, <1>8, <2>1 DEF MappingsForm
  <2> QED BY <1>9, <2>2, <2>3, <2>4, <2>5 DEF MappingsForm
<1>14. Resources'
  BY <1>1, <1>9, <1>11, <1>12, <1>13, OtherResources
<1>15. OwnersForm'
  <2>1. \A g \in Slot : Owns(p, g)' =>
          handles'[p][g].name \in Name /\ handles'[p][g].obj \in Made'
    BY <1>1, <1>2, <1>3, <1>5, <1>7, <1>9 DEF OwnersForm, Owns
  <2> QED BY <1>1, <1>9, <1>11, <2>1, OtherOwners
<1>16. Names'
  <2>1. \A b \in Claimant, m \in Name, x \in Made : Claim(p, b, m, x)' <=> Claim(p, b, m, x)
    BY <1>2, <1>3, <1>5, <1>7, <1>9 DEF Claim
  <2>2. \A q \in Process, b \in Claimant, m \in Name, x \in Made :
          Claim(q, b, m, x)' <=> Claim(q, b, m, x)
    BY <1>11, <2>1, OtherClaims
  <2> QED BY <1>1, <1>9, <1>15, <2>2, ClaimsSame
<1> QED BY <1>10, <1>14, <1>16 DEF SegmentInv

\* The destructor closes, and leaves a name still linked an orphan.
LEMMA DestroyStep ==
  ASSUME SegmentInv, NEW p \in Process, NEW h \in Slot, Destroy(p, h)
  PROVE  SegmentInv'
<1> USE NoneFacts
<1>1. /\ TypeOK /\ Names /\ OwnersForm /\ Resources /\ DescriptorsForm(p) /\ MappingsForm(p)
      /\ handles \in [Process -> [Slot -> Handle \cup {None}]]
      /\ orphans \subseteq Made /\ leaked \subseteq Process \X Address
  BY Seen
<1>2. /\ calls[p] = None /\ handles[p][h] # None
      /\ handles' = [handles EXCEPT ![p][h] = None]
      /\ UNCHANGED <<names, made, sized, calls>>
  BY DEF Destroy, Live
<1>3. PICK hd \in Handle : hd = handles[p][h]
  BY <1>1, <1>2, ProcessTypes
<1>4. PICK un \in BOOLEAN : close_shm(p, hd, un) /\ Forget(p, hd, un)
  BY <1>3 DEF Destroy
<1>5. /\ orphans' = orphans \cup (IF hd.owner /\ hd.linked THEN {hd.obj} ELSE {})
      /\ leaked' = leaked \cup (IF un THEN {} ELSE {<<p, hd.address>>})
  BY <1>4 DEF Forget
<1>6. /\ fds' \in [Process -> [Descriptor -> Object \cup {None}]]
      /\ maps' \in [Process -> [Address -> Object \cup {None}]]
      /\ \A q \in Process : q # p => fds'[q] = fds[q] /\ maps'[q] = maps[q]
      /\ \A d \in Descriptor : fds'[p][d] = IF d = hd.descriptor THEN None ELSE fds[p][d]
      /\ \A a \in Address : maps'[p][a] = IF un /\ a = hd.address THEN None ELSE maps[p][a]
      /\ un \/ hd.address \in Address
  BY <1>1, <1>4, CloseFacts
<1>7. /\ handles'[p][h] = None
      /\ \A g \in Slot : g # h => handles'[p][g] = handles[p][g]
      /\ \A q \in Process : q # p => handles'[q] = handles[q]
      /\ handles' \in [Process -> [Slot -> Handle \cup {None}]]
  BY <1>1, <1>2
<1>8. Made' = Made /\ UNCHANGED <<names, made, sized, calls>>
  BY <1>2 DEF Made
<1>9. hd.owner /\ hd.linked => hd.name \in Name /\ hd.obj \in Made
  BY <1>1, <1>2, <1>3 DEF OwnersForm, Owns
<1>10. /\ \A q \in Process, a \in Address : q # p => (<<q, a>> \in leaked' <=> <<q, a>> \in leaked)
       /\ \A a \in Address : <<p, a>> \in leaked' <=> <<p, a>> \in leaked \/ (~un /\ a = hd.address)
       /\ leaked' \subseteq Process \X Address
  BY <1>1, <1>5, <1>6
<1>11. TypeOK'
  <2>1. orphans' \subseteq Made'
    BY <1>1, <1>5, <1>8, <1>9
  <2> QED BY <1>1, <1>6, <1>7, <1>8, <1>10, <2>1 DEF TypeOK, Made
<1>12. OnlyTouches(p)
  BY <1>6, <1>7, <1>8, <1>10 DEF OnlyTouches
<1>13. DescriptorsForm(p)'
  <2>1. /\ \A d \in Descriptor : ~UsesD(p, h, d)'
        /\ \A d \in Descriptor : fds'[p][d] = IF UsesD(p, h, d) THEN None ELSE fds[p][d]
    BY <1>2, <1>3, <1>6, <1>7 DEF UsesD
  <2> QED BY <1>1, <1>2, <1>7, <1>8, <2>1, DescriptorGone
<1>14. MappingsForm(p)'
  <2>1. /\ \A g \in Slot, a \in Address : UsesA(p, g, a)' <=> g # h /\ UsesA(p, g, a)
        /\ \A a \in Address : UsesA(p, h, a) <=> a = hd.address
    BY <1>2, <1>3, <1>7 DEF UsesA
  <2>2. \A g \in Slot, a \in Address :
          UsesA(p, g, a)' => /\ handles'[p][g].obj = maps'[p][a] /\ maps'[p][a] # None
                             /\ <<p, a>> \notin leaked'
    <3> SUFFICES ASSUME NEW g \in Slot, NEW a \in Address, UsesA(p, g, a)'
                 PROVE  /\ handles'[p][g].obj = maps'[p][a] /\ maps'[p][a] # None
                        /\ <<p, a>> \notin leaked'
      OBVIOUS
    <3>1. UsesA(p, g, a) /\ g # h /\ handles'[p][g] = handles[p][g]
      BY <1>7, <2>1
    <3>2. a # hd.address
      BY <1>1, <2>1, <3>1 DEF MappingsForm
    <3> QED BY <1>1, <1>6, <1>10, <3>1, <3>2 DEF MappingsForm
  <2>3. \A g, k \in Slot, a \in Address : UsesA(p, g, a)' /\ UsesA(p, k, a)' => g = k
    BY <1>1, <2>1 DEF MappingsForm
  <2>4. \A a \in Address :
          maps'[p][a] # None => <<p, a>> \in leaked' \/ \E g \in Slot : UsesA(p, g, a)'
    BY SMTT(30), <1>1, <1>6, <1>10, <2>1 DEF MappingsForm
  <2>5. \A a \in Address : <<p, a>> \in leaked' => maps'[p][a] # None
    BY <1>1, <1>6, <1>10, <2>1 DEF MappingsForm
  <2> QED BY <2>2, <2>3, <2>4, <2>5 DEF MappingsForm
<1>15. Resources'
  BY <1>1, <1>8, <1>12, <1>13, <1>14, OtherResources
<1>16. OwnersForm'
  <2>1. \A g \in Slot : Owns(p, g)' =>
          handles'[p][g].name \in Name /\ handles'[p][g].obj \in Made'
    BY <1>1, <1>7, <1>8 DEF OwnersForm, Owns
  <2> QED BY <1>1, <1>8, <1>12, <2>1, OtherOwners
<1>17. \A q \in Process, b \in Claimant, m \in Name, x \in Made :
         Claim(q, b, m, x)' <=> (Claim(q, b, m, x) /\ ~(q = p /\ b = h))
  <2>1. \A b \in Claimant, m \in Name, x \in Made :
          Claim(p, b, m, x)' <=> Claim(p, b, m, x) /\ b # h
    BY <1>2, <1>7, <1>8 DEF Claim
  <2> QED BY <1>12, <2>1, OtherClaims
<1>18. Names'
  <2>1. CASE hd.owner /\ hd.linked
    <3>1. PICK n \in Name, o \in Made : n = hd.name /\ o = hd.obj
      BY <1>9, <2>1
    <3>2. Claim(p, h, n, o) /\ h \in Claimant
      BY <1>2, <1>3, <2>1, <3>1 DEF Claim, Claimant
    <3>3. orphans' = orphans \cup {o} /\ names' = names
      BY <1>5, <1>8, <2>1, <3>1
    <3> QED BY <1>1, <1>8, <1>16, <1>17, <3>2, <3>3, ClaimDropped
  <2>2. CASE ~(hd.owner /\ hd.linked)
    <3>1. \A m \in Name, x \in Made : ~Claim(p, h, m, x)
      BY <1>3, <2>2 DEF Claim
    <3>2. orphans' = orphans
      BY <1>5, <2>2
    <3> QED BY <1>1, <1>8, <1>16, <1>17, <3>1, <3>2, ClaimsSame
  <2> QED BY <2>1, <2>2
<1> QED BY <1>11, <1>15, <1>18 DEF SegmentInv

\* A default-constructed handle holds nothing.
LEMMA ConstructStep ==
  ASSUME SegmentInv, NEW p \in Process, NEW h \in Slot, Construct(p, h)
  PROVE  SegmentInv'
<1> USE NoneFacts, EmptyHandleFacts
<1>1. /\ TypeOK /\ Names /\ OwnersForm /\ Resources /\ DescriptorsForm(p) /\ MappingsForm(p)
      /\ handles \in [Process -> [Slot -> Handle \cup {None}]]
  BY Seen
<1>2. /\ calls[p] = None /\ handles[p][h] = None
      /\ handles' = [handles EXCEPT ![p][h] = EmptyHandle]
      /\ UNCHANGED <<names, made, sized, fds, maps, calls, orphans, leaked>>
  BY DEF Construct
<1>3. /\ handles'[p][h] = EmptyHandle
      /\ \A g \in Slot : g # h => handles'[p][g] = handles[p][g]
      /\ \A q \in Process : q # p => handles'[q] = handles[q]
      /\ handles' \in [Process -> [Slot -> Handle \cup {None}]]
  BY <1>1, <1>2
<1>4. Made' = Made /\ UNCHANGED <<names, made, sized, fds, maps, calls, orphans, leaked>>
  BY <1>2 DEF Made
<1>5. TypeOK' /\ OnlyTouches(p)
  BY <1>1, <1>3, <1>4 DEF TypeOK, OnlyTouches
<1>6. /\ \A g \in Slot, d \in Descriptor : UsesD(p, g, d)' <=> UsesD(p, g, d)
      /\ \A g \in Slot, a \in Address : UsesA(p, g, a)' <=> UsesA(p, g, a)
      /\ \A g \in Slot, d \in Descriptor : UsesD(p, g, d) => handles'[p][g] = handles[p][g]
      /\ \A g \in Slot, a \in Address : UsesA(p, g, a) => handles'[p][g] = handles[p][g]
      /\ \A d \in Descriptor : ~CallD(p, d)' /\ ~CallD(p, d)
  BY <1>2, <1>3, <1>4 DEF UsesD, UsesA, CallD
<1>7. DescriptorsForm(p)'
  BY <1>1, <1>2, <1>4, <1>6 DEF DescriptorsForm
<1>8. MappingsForm(p)'
  BY <1>1, <1>4, <1>6 DEF MappingsForm
<1>9. Resources'
  BY <1>1, <1>4, <1>5, <1>7, <1>8, OtherResources
<1>10. OwnersForm'
  <2>1. \A g \in Slot : Owns(p, g)' =>
          handles'[p][g].name \in Name /\ handles'[p][g].obj \in Made'
    BY <1>1, <1>3, <1>4 DEF OwnersForm, Owns
  <2> QED BY <1>1, <1>4, <1>5, <2>1, OtherOwners
<1>11. Names'
  <2>1. \A b \in Claimant, m \in Name, x \in Made : Claim(p, b, m, x)' <=> Claim(p, b, m, x)
    BY <1>2, <1>3, <1>4 DEF Claim
  <2>2. \A q \in Process, b \in Claimant, m \in Name, x \in Made :
          Claim(q, b, m, x)' <=> Claim(q, b, m, x)
    BY <1>5, <2>1, OtherClaims
  <2> QED BY <1>1, <1>4, <1>10, <2>2, ClaimsSame
<1> QED BY <1>5, <1>9, <1>11 DEF SegmentInv

\* unlink() removes the name, which is still that of its own object.
LEMMA UnlinkStep ==
  ASSUME SegmentInv, NEW p \in Process, NEW h \in Slot, Unlink(p, h)
  PROVE  SegmentInv'
<1> USE NoneFacts
<1>1. /\ TypeOK /\ Names /\ OwnersForm /\ Resources /\ DescriptorsForm(p) /\ MappingsForm(p)
      /\ handles \in [Process -> [Slot -> Handle \cup {None}]]
      /\ names \in [Name -> Object \cup {None}]
  BY Seen
<1>2. /\ calls[p] = None /\ handles[p][h] # None /\ handles[p][h].owner /\ handles[p][h].linked
      /\ names' = [names EXCEPT ![handles[p][h].name] = None]
      /\ handles' = [handles EXCEPT ![p][h] = Unlinked(handles[p][h])]
      /\ UNCHANGED <<made, sized, fds, maps, calls, orphans, leaked>>
  BY DEF Unlink, Live
<1>3. PICK hd \in Handle : hd = handles[p][h]
  BY <1>1, <1>2, ProcessTypes
<1> DEFINE e == Unlinked(hd)
<1>4. /\ e \in Handle /\ e.linked = FALSE /\ e.name = hd.name /\ e.descriptor = hd.descriptor
      /\ e.address = hd.address /\ e.owner = hd.owner /\ e.obj = hd.obj
  BY DEF Unlinked, Handle
<1>5. handles' = [handles EXCEPT ![p][h] = e]
  BY <1>2, <1>3
<1> HIDE DEF e
<1>6. /\ handles'[p][h] = e /\ e # None
      /\ \A g \in Slot : g # h => handles'[p][g] = handles[p][g]
      /\ \A q \in Process : q # p => handles'[q] = handles[q]
      /\ handles' \in [Process -> [Slot -> Handle \cup {None}]]
  BY <1>1, <1>4, <1>5
<1>7. Made' = Made /\ UNCHANGED <<made, sized, fds, maps, calls, orphans, leaked>>
  BY <1>2 DEF Made
<1>8. PICK n \in Name, o \in Made : n = hd.name /\ o = hd.obj
  BY <1>1, <1>2, <1>3 DEF OwnersForm, Owns
<1>9. /\ names' \in [Name -> Object \cup {None}] /\ names'[n] = None
      /\ \A m \in Name : m # n => names'[m] = names[m]
  BY <1>1, <1>2, <1>3, <1>8
<1>10. TypeOK' /\ OnlyTouches(p)
  BY <1>1, <1>6, <1>7, <1>9 DEF TypeOK, OnlyTouches
<1>11. /\ \A g \in Slot, d \in Descriptor : UsesD(p, g, d)' <=> UsesD(p, g, d)
       /\ \A g \in Slot, a \in Address : UsesA(p, g, a)' <=> UsesA(p, g, a)
       /\ \A g \in Slot : handles[p][g] # None => handles'[p][g].obj = handles[p][g].obj
       /\ \A d \in Descriptor : ~CallD(p, d)' /\ ~CallD(p, d)
  BY <1>2, <1>3, <1>4, <1>6, <1>7 DEF UsesD, UsesA, CallD
<1>12. DescriptorsForm(p)'
  <2>1. \A g \in Slot, d \in Descriptor : UsesD(p, g, d) => handles'[p][g].obj = handles[p][g].obj
    BY <1>11 DEF UsesD
  <2> QED BY <1>1, <1>2, <1>7, <1>11, <2>1 DEF DescriptorsForm
<1>13. MappingsForm(p)'
  <2>1. \A g \in Slot, a \in Address : UsesA(p, g, a) => handles'[p][g].obj = handles[p][g].obj
    BY <1>11 DEF UsesA
  <2> QED BY <1>1, <1>7, <1>11, <2>1 DEF MappingsForm
<1>14. Resources'
  BY <1>1, <1>7, <1>10, <1>12, <1>13, OtherResources
<1>15. OwnersForm'
  <2>1. \A g \in Slot : Owns(p, g)' =>
          handles'[p][g].name \in Name /\ handles'[p][g].obj \in Made'
    BY <1>1, <1>4, <1>6, <1>7 DEF OwnersForm, Owns
  <2> QED BY <1>1, <1>7, <1>10, <2>1, OtherOwners
<1>16. Names'
  <2>1. \A b \in Claimant, m \in Name, x \in Made :
          Claim(p, b, m, x)' <=> Claim(p, b, m, x) /\ b # h
    BY <1>2, <1>4, <1>6, <1>7 DEF Claim
  <2>2. \A q \in Process, b \in Claimant, m \in Name, x \in Made :
          Claim(q, b, m, x)' <=> (Claim(q, b, m, x) /\ ~(q = p /\ b = h))
    BY <1>10, <2>1, OtherClaims
  <2>3. Claim(p, h, n, o) /\ h \in Claimant
    BY <1>2, <1>3, <1>8 DEF Claim, Claimant
  <2> QED BY <1>1, <1>7, <1>9, <1>15, <2>2, <2>3, ClaimDropped
<1> QED BY <1>10, <1>14, <1>16 DEF SegmentInv

\* Both moves, seen entry by entry: the target gives up what it held.
LEMMA MoveFacts ==
  ASSUME SegmentInv, NEW p \in Process, NEW f \in Slot, NEW t \in Slot,
         MoveConstruct(p, f, t) \/ MoveAssign(p, f, t)
  PROVE  /\ f # t /\ calls[p] = None /\ handles[p][f] # None
         /\ handles' = [handles EXCEPT ![p][t] = handles[p][f], ![p][f] = EmptyHandle]
         /\ UNCHANGED <<names, made, sized, calls>>
         /\ fds' \in [Process -> [Descriptor -> Object \cup {None}]]
         /\ maps' \in [Process -> [Address -> Object \cup {None}]]
         /\ \A q \in Process : q # p => fds'[q] = fds[q] /\ maps'[q] = maps[q]
         /\ \A d \in Descriptor : fds'[p][d] = IF UsesD(p, t, d) THEN None ELSE fds[p][d]
         /\ \E un \in BOOLEAN :
              /\ \A a \in Address :
                   maps'[p][a] = IF un /\ UsesA(p, t, a) THEN None ELSE maps[p][a]
              /\ \A a \in Address :
                   <<p, a>> \in leaked' <=> <<p, a>> \in leaked \/ (~un /\ UsesA(p, t, a))
         /\ \A q \in Process, a \in Address :
              q # p => (<<q, a>> \in leaked' <=> <<q, a>> \in leaked)
         /\ leaked' \subseteq Process \X Address
         /\ orphans' = orphans \cup (IF Owns(p, t) THEN {handles[p][t].obj} ELSE {})
<1> USE NoneFacts
<1>1. /\ TypeOK /\ leaked \subseteq Process \X Address
      /\ fds \in [Process -> [Descriptor -> Object \cup {None}]]
      /\ maps \in [Process -> [Address -> Object \cup {None}]]
  BY Seen
<1>2. CASE MoveConstruct(p, f, t)
  <2>1. /\ calls[p] = None /\ handles[p][f] # None /\ handles[p][t] = None
        /\ handles' = [handles EXCEPT ![p][t] = handles[p][f], ![p][f] = EmptyHandle]
        /\ UNCHANGED <<names, made, sized, fds, maps, calls, orphans, leaked>>
    BY <1>2 DEF MoveConstruct, MovedFrom, Live
  <2>2. f # t
    BY <2>1
  <2>3. /\ \A d \in Descriptor : ~UsesD(p, t, d)
        /\ \A a \in Address : ~UsesA(p, t, a)
        /\ ~Owns(p, t)
    BY <2>1 DEF UsesD, UsesA, Owns
  <2>4. TRUE \in BOOLEAN
    OBVIOUS
  <2>5. \E un \in BOOLEAN :
          /\ \A a \in Address :
               maps'[p][a] = IF un /\ UsesA(p, t, a) THEN None ELSE maps[p][a]
          /\ \A a \in Address :
               <<p, a>> \in leaked' <=> <<p, a>> \in leaked \/ (~un /\ UsesA(p, t, a))
    BY <2>1, <2>3, <2>4
  <2> QED BY <1>1, <2>1, <2>2, <2>3, <2>5
<1>3. CASE MoveAssign(p, f, t)
  <2>1. /\ f # t /\ calls[p] = None /\ handles[p][f] # None /\ handles[p][t] # None
        /\ handles' = [handles EXCEPT ![p][t] = handles[p][f], ![p][f] = EmptyHandle]
        /\ UNCHANGED <<names, made, sized, calls>>
    BY <1>3 DEF MoveAssign, MovedFrom, Live
  <2>2. PICK hd \in Handle : hd = handles[p][t]
    BY <1>1, <2>1, ProcessTypes
  <2>3. PICK un \in BOOLEAN : close_shm(p, hd, un) /\ Forget(p, hd, un)
    BY <1>3, <2>2 DEF MoveAssign
  <2>4. /\ orphans' = orphans \cup (IF hd.owner /\ hd.linked THEN {hd.obj} ELSE {})
        /\ leaked' = leaked \cup (IF un THEN {} ELSE {<<p, hd.address>>})
    BY <2>3 DEF Forget
  <2>5. /\ fds' \in [Process -> [Descriptor -> Object \cup {None}]]
        /\ maps' \in [Process -> [Address -> Object \cup {None}]]
        /\ \A q \in Process : q # p => fds'[q] = fds[q] /\ maps'[q] = maps[q]
        /\ \A d \in Descriptor : fds'[p][d] = IF d = hd.descriptor THEN None ELSE fds[p][d]
        /\ \A a \in Address : maps'[p][a] = IF un /\ a = hd.address THEN None ELSE maps[p][a]
        /\ un \/ hd.address \in Address
    BY <1>1, <2>3, CloseFacts
  <2>6. /\ \A d \in Descriptor : UsesD(p, t, d) <=> d = hd.descriptor
        /\ \A a \in Address : UsesA(p, t, a) <=> a = hd.address
        /\ Owns(p, t) <=> hd.owner /\ hd.linked
    BY <2>1, <2>2 DEF UsesD, UsesA, Owns
  <2>7. /\ \A q \in Process, a \in Address :
             q # p => (<<q, a>> \in leaked' <=> <<q, a>> \in leaked)
        /\ \A a \in Address :
             <<p, a>> \in leaked' <=> <<p, a>> \in leaked \/ (~un /\ a = hd.address)
        /\ leaked' \subseteq Process \X Address
    BY <1>1, <2>4, <2>5
  <2>8. orphans' = orphans \cup (IF Owns(p, t) THEN {handles[p][t].obj} ELSE {})
    BY <2>2, <2>4, <2>6
  <2>9. /\ \A a \in Address :
             maps'[p][a] = IF un /\ UsesA(p, t, a) THEN None ELSE maps[p][a]
        /\ \A a \in Address :
             <<p, a>> \in leaked' <=> <<p, a>> \in leaked \/ (~un /\ UsesA(p, t, a))
    BY <2>5, <2>6, <2>7
  <2>10. \A d \in Descriptor : fds'[p][d] = IF UsesD(p, t, d) THEN None ELSE fds[p][d]
    BY <2>5, <2>6
  <2> QED BY <2>1, <2>5, <2>7, <2>8, <2>9, <2>10
<1> QED BY <1>2, <1>3

\* A move takes everything to the target and leaves an empty handle.
LEMMA MoveStep ==
  ASSUME SegmentInv, NEW p \in Process, NEW f \in Slot, NEW t \in Slot,
         MoveConstruct(p, f, t) \/ MoveAssign(p, f, t)
  PROVE  SegmentInv'
<1> USE NoneFacts, EmptyHandleFacts
<1>1. /\ TypeOK /\ Names /\ OwnersForm /\ Resources /\ DescriptorsForm(p) /\ MappingsForm(p)
      /\ handles \in [Process -> [Slot -> Handle \cup {None}]]
      /\ orphans \subseteq Made
  BY Seen
<1>2. /\ f # t /\ calls[p] = None /\ handles[p][f] # None
      /\ UNCHANGED <<names, made, sized, calls>> /\ Made' = Made
      /\ fds' \in [Process -> [Descriptor -> Object \cup {None}]]
      /\ maps' \in [Process -> [Address -> Object \cup {None}]]
      /\ \A q \in Process : q # p => fds'[q] = fds[q] /\ maps'[q] = maps[q]
      /\ \A d \in Descriptor : fds'[p][d] = IF UsesD(p, t, d) THEN None ELSE fds[p][d]
      /\ \A q \in Process, a \in Address :
           q # p => (<<q, a>> \in leaked' <=> <<q, a>> \in leaked)
      /\ leaked' \subseteq Process \X Address
      /\ orphans' = orphans \cup (IF Owns(p, t) THEN {handles[p][t].obj} ELSE {})
  <2>1. Made' = Made
    BY MoveFacts DEF Made
  <2>2. /\ f # t /\ calls[p] = None /\ handles[p][f] # None
        /\ UNCHANGED <<names, made, sized, calls>>
    BY DEF MoveConstruct, MoveAssign, Live
  <2>3. /\ fds' \in [Process -> [Descriptor -> Object \cup {None}]]
        /\ maps' \in [Process -> [Address -> Object \cup {None}]]
        /\ leaked' \subseteq Process \X Address
    BY MoveFacts
  <2>4. /\ \A q \in Process : q # p => fds'[q] = fds[q] /\ maps'[q] = maps[q]
        /\ \A d \in Descriptor : fds'[p][d] = IF UsesD(p, t, d) THEN None ELSE fds[p][d]
    BY MoveFacts
  <2>5. \A q \in Process, a \in Address :
          q # p => (<<q, a>> \in leaked' <=> <<q, a>> \in leaked)
    BY MoveFacts
  <2>6. orphans' = orphans \cup (IF Owns(p, t) THEN {handles[p][t].obj} ELSE {})
    BY MoveFacts
  <2> QED BY <2>1, <2>2, <2>3, <2>4, <2>5, <2>6
<1>3. PICK un \in BOOLEAN :
        /\ \A a \in Address :
             maps'[p][a] = IF un /\ UsesA(p, t, a) THEN None ELSE maps[p][a]
        /\ \A a \in Address :
             <<p, a>> \in leaked' <=> <<p, a>> \in leaked \/ (~un /\ UsesA(p, t, a))
  BY MoveFacts
<1>4. handles' = [handles EXCEPT ![p][t] = handles[p][f], ![p][f] = EmptyHandle]
  BY MoveFacts
<1>5. PICK hd \in Handle : hd = handles[p][f]
  BY <1>1, <1>2, ProcessTypes
<1>6. /\ handles'[p][t] = hd /\ handles'[p][f] = EmptyHandle
      /\ \A g \in Slot : g # f /\ g # t => handles'[p][g] = handles[p][g]
      /\ \A q \in Process : q # p => handles'[q] = handles[q]
      /\ handles' \in [Process -> [Slot -> Handle \cup {None}]]
  BY <1>1, <1>2, <1>4, <1>5
<1>7. Owns(p, t) => handles[p][t].name \in Name /\ handles[p][t].obj \in Made
  BY <1>1 DEF OwnersForm
<1>8. TypeOK'
  <2>1. orphans' \subseteq Made'
    BY <1>1, <1>2, <1>7
  <2> QED BY <1>1, <1>2, <1>6, <2>1 DEF TypeOK, Made
<1>9. OnlyTouches(p)
  BY <1>2, <1>6 DEF OnlyTouches
<1>10. DescriptorsForm(p)'
  <2>1. /\ \A g \in Slot, d \in Descriptor :
             g # f /\ g # t => (UsesD(p, g, d)' <=> UsesD(p, g, d))
        /\ \A d \in Descriptor : (UsesD(p, t, d)' <=> UsesD(p, f, d)) /\ ~UsesD(p, f, d)'
        /\ \A d \in Descriptor : ~CallD(p, d) /\ ~CallD(p, d)'
    BY <1>2, <1>5, <1>6 DEF UsesD, CallD
  <2>2. ASSUME NEW g \in Slot, NEW d \in Descriptor, UsesD(p, g, d)'
        PROVE  \E k \in Slot : /\ UsesD(p, k, d) /\ k # t
                               /\ handles'[p][g] = handles[p][k]
                               /\ IF g = t THEN k = f ELSE k = g
    <3>1. CASE g = t
      <4>1. UsesD(p, f, d)
        BY <2>1, <2>2, <3>1
      <4> QED BY <1>2, <1>5, <1>6, <3>1, <4>1
    <3>2. CASE g # t
      <4>1. g # f
        BY <2>1, <2>2
      <4> QED BY <1>6, <2>1, <2>2, <3>2, <4>1
    <3> QED BY <3>1, <3>2
  <2>3. ASSUME NEW g \in Slot, NEW d \in Descriptor, UsesD(p, g, d)'
        PROVE  handles'[p][g].obj = fds'[p][d] /\ fds'[p][d] # None
    <3>1. PICK k \in Slot : UsesD(p, k, d) /\ k # t /\ handles'[p][g] = handles[p][k]
      BY <2>2, <2>3
    <3>2. ~UsesD(p, t, d)
      BY <1>1, <3>1 DEF DescriptorsForm
    <3> QED BY <1>1, <1>2, <3>1, <3>2 DEF DescriptorsForm
  <2>4. ASSUME NEW g \in Slot, NEW h \in Slot, NEW d \in Descriptor,
               UsesD(p, g, d)', UsesD(p, h, d)'
        PROVE  g = h
    <3>1. g # f /\ h # f
      BY <2>1, <2>4
    <3>2. PICK k \in Slot : UsesD(p, k, d) /\ IF g = t THEN k = f ELSE k = g
      BY <2>2, <2>4
    <3>3. PICK l \in Slot : UsesD(p, l, d) /\ IF h = t THEN l = f ELSE l = h
      BY <2>2, <2>4
    <3>4. k = l
      BY <1>1, <3>2, <3>3 DEF DescriptorsForm
    <3> QED BY <3>1, <3>2, <3>3, <3>4
  <2>5. ASSUME NEW d \in Descriptor, fds'[p][d] # None
        PROVE  fds'[p][d] \in Made /\ \E g \in Slot : UsesD(p, g, d)'
    <3>1. fds'[p][d] = fds[p][d] /\ ~UsesD(p, t, d)
      BY <1>2, <2>5
    <3>2. fds[p][d] \in Made /\ \E g \in Slot : UsesD(p, g, d)
      BY <1>1, <2>1, <2>5, <3>1 DEF DescriptorsForm
    <3> QED BY <2>1, <3>1, <3>2
  <2> QED BY <1>2, <2>1, <2>3, <2>4, <2>5 DEF DescriptorsForm
<1>11. MappingsForm(p)'
  <2>1. /\ \A g \in Slot, a \in Address :
             g # f /\ g # t => (UsesA(p, g, a)' <=> UsesA(p, g, a))
        /\ \A a \in Address : (UsesA(p, t, a)' <=> UsesA(p, f, a)) /\ ~UsesA(p, f, a)'
    BY <1>2, <1>5, <1>6 DEF UsesA
  <2>2. ASSUME NEW g \in Slot, NEW a \in Address, UsesA(p, g, a)'
        PROVE  \E k \in Slot : /\ UsesA(p, k, a) /\ k # t
                               /\ handles'[p][g] = handles[p][k]
                               /\ IF g = t THEN k = f ELSE k = g
    <3>1. CASE g = t
      <4>1. UsesA(p, f, a)
        BY <2>1, <2>2, <3>1
      <4> QED BY <1>2, <1>5, <1>6, <3>1, <4>1
    <3>2. CASE g # t
      <4>1. g # f
        BY <2>1, <2>2
      <4> QED BY <1>6, <2>1, <2>2, <3>2, <4>1
    <3> QED BY <3>1, <3>2
  <2>3. ASSUME NEW g \in Slot, NEW a \in Address, UsesA(p, g, a)'
        PROVE  /\ handles'[p][g].obj = maps'[p][a] /\ maps'[p][a] # None
               /\ <<p, a>> \notin leaked'
    <3>1. PICK k \in Slot : UsesA(p, k, a) /\ k # t /\ handles'[p][g] = handles[p][k]
      BY <2>2, <2>3
    <3>2. ~UsesA(p, t, a)
      BY <1>1, <3>1 DEF MappingsForm
    <3> QED BY <1>1, <1>3, <3>1, <3>2 DEF MappingsForm
  <2>4. ASSUME NEW g \in Slot, NEW h \in Slot, NEW a \in Address,
               UsesA(p, g, a)', UsesA(p, h, a)'
        PROVE  g = h
    <3>1. g # f /\ h # f
      BY <2>1, <2>4
    <3>2. PICK k \in Slot : UsesA(p, k, a) /\ IF g = t THEN k = f ELSE k = g
      BY <2>2, <2>4
    <3>3. PICK l \in Slot : UsesA(p, l, a) /\ IF h = t THEN l = f ELSE l = h
      BY <2>2, <2>4
    <3>4. k = l
      BY <1>1, <3>2, <3>3 DEF MappingsForm
    <3> QED BY <3>1, <3>2, <3>3, <3>4
  <2>5. ASSUME NEW a \in Address, maps'[p][a] # None, <<p, a>> \notin leaked'
        PROVE  \E g \in Slot : UsesA(p, g, a)'
    <3>1. maps[p][a] # None /\ <<p, a>> \notin leaked /\ ~UsesA(p, t, a)
      BY <1>3, <2>5
    <3>2. \E g \in Slot : UsesA(p, g, a)
      BY <1>1, <3>1 DEF MappingsForm
    <3> QED BY <2>1, <3>1, <3>2
  <2>6. \A a \in Address : <<p, a>> \in leaked' => maps'[p][a] # None
    BY <1>1, <1>3 DEF MappingsForm
  <2> QED BY <2>3, <2>4, <2>5, <2>6 DEF MappingsForm
<1>12. Resources'
  BY <1>1, <1>2, <1>9, <1>10, <1>11, OtherResources
<1>13. OwnersForm'
  <2>1. ASSUME NEW g \in Slot, Owns(p, g)'
        PROVE  handles'[p][g].name \in Name /\ handles'[p][g].obj \in Made'
    <3>1. PICK k \in Slot : handles'[p][g] = handles[p][k]
      BY <1>5, <1>6, <2>1 DEF Owns
    <3>2. Owns(p, k)
      BY <2>1, <3>1 DEF Owns
    <3> QED BY <1>1, <1>2, <3>1, <3>2 DEF OwnersForm
  <2> QED BY <1>1, <1>2, <1>9, <2>1, OtherOwners
<1>14. Names'
  <2>1. \A q \in Process, b \in Claimant, m \in Name, x \in Made :
          Claim(q, b, m, x)' <=>
            \/ Claim(q, b, m, x) /\ ~(q = p /\ (b = f \/ b = t))
            \/ q = p /\ b = t /\ Claim(p, f, m, x)
    <3>1. \A b \in Claimant, m \in Name, x \in Made :
            Claim(p, b, m, x)' <=> \/ Claim(p, b, m, x) /\ ~(b = f \/ b = t)
                                   \/ b = t /\ Claim(p, f, m, x)
      BY <1>2, <1>5, <1>6 DEF Claim
    <3>2. \A q \in Process, b \in Claimant, m \in Name, x \in Made :
            q # p => (Claim(q, b, m, x)' <=> Claim(q, b, m, x))
      BY <1>9, OtherClaims
    <3> QED BY <3>1, <3>2
  <2>2. f \in Claimant /\ t \in Claimant
    BY DEF Claimant
  <2>3. \A m \in Name, x \in Made :
          Claim(p, t, m, x) <=> (Owns(p, t) /\ handles[p][t].name = m /\ handles[p][t].obj = x)
    BY DEF Claim, Owns
  <2>4. \A m \in Name, x \in Made : Claim(p, t, m, x) => x \in orphans'
    BY <1>2, <2>3
  <2>5. \A x \in orphans' \ orphans : \E m \in Name : Claim(p, t, m, x)
    BY <1>2, <1>7, <2>3
  <2>6. orphans \subseteq orphans'
    BY <1>2
  <2> QED BY <1>1, <1>2, <1>13, <2>1, <2>2, <2>4, <2>5, <2>6, ClaimMoved
<1> QED BY <1>8, <1>12, <1>14 DEF SegmentInv

-----------------------------------------------------------------------------
(***************************************************************************)
(* The death of a process, and the theorems.                               *)
(***************************************************************************)

LEMMA DieStep ==
  ASSUME SegmentInv, NEW p \in Process, Die(p)
  PROVE  SegmentInv'
<1> USE NoneFacts
<1>1. /\ TypeOK /\ Names /\ OwnersForm /\ Resources /\ DescriptorsForm(p)
      /\ fds \in [Process -> [Descriptor -> Object \cup {None}]]
      /\ maps \in [Process -> [Address -> Object \cup {None}]]
      /\ handles \in [Process -> [Slot -> Handle \cup {None}]]
      /\ calls \in [Process -> Call \cup {None}]
      /\ orphans \subseteq Made /\ leaked \subseteq Process \X Address
  BY Seen
<1>2. /\ fds' = [fds EXCEPT ![p] = [d \in Descriptor |-> None]]
      /\ maps' = [maps EXCEPT ![p] = [a \in Address |-> None]]
      /\ handles' = [handles EXCEPT ![p] = [h \in Slot |-> None]]
      /\ calls' = [calls EXCEPT ![p] = None]
      /\ leaked' = {l \in leaked : l[1] # p}
      /\ UNCHANGED <<names, made, sized>>
  BY DEF Die
<1>3. orphans' = orphans
        \cup {handles[p][h].obj : h \in {g \in Slot : Owns(p, g)}}
        \cup (IF Creating(p) THEN {fds[p][calls[p].descriptor]} ELSE {})
  BY DEF Die
<1>4. /\ fds' \in [Process -> [Descriptor -> Object \cup {None}]]
      /\ \A q \in Process : q # p => fds'[q] = fds[q]
      /\ \A d \in Descriptor : fds'[p][d] = None
  BY <1>1, <1>2
<1>5. /\ maps' \in [Process -> [Address -> Object \cup {None}]]
      /\ \A q \in Process : q # p => maps'[q] = maps[q]
      /\ \A a \in Address : maps'[p][a] = None
  BY <1>1, <1>2
<1>6. /\ handles' \in [Process -> [Slot -> Handle \cup {None}]]
      /\ \A q \in Process : q # p => handles'[q] = handles[q]
      /\ \A h \in Slot : handles'[p][h] = None
  BY <1>1, <1>2
<1>7. /\ calls' \in [Process -> Call \cup {None}] /\ calls'[p] = None
      /\ \A q \in Process : q # p => calls'[q] = calls[q]
  BY <1>1, <1>2
<1>8. /\ leaked' \subseteq Process \X Address
      /\ \A q \in Process, a \in Address :
           <<q, a>> \in leaked' <=> (<<q, a>> \in leaked /\ q # p)
  BY <1>1, <1>2
<1>9. Made' = Made
  BY <1>2 DEF Made
<1>10. /\ \A h \in Slot : Owns(p, h) => handles[p][h].name \in Name /\ handles[p][h].obj \in Made
       /\ Creating(p) => calls[p].name \in Name /\ fds[p][calls[p].descriptor] \in Made
  <2>1. ASSUME Creating(p) PROVE calls[p].name \in Name /\ fds[p][calls[p].descriptor] \in Made
    <3>1. calls[p] # None /\ calls[p].name \in Name /\ calls[p].descriptor \in Descriptor
      BY <1>1, <2>1, ProcessTypes, CallFields DEF Creating, InStep
    <3> QED BY <1>1, <3>1 DEF DescriptorsForm, CallD
  <2> QED BY <1>1, <2>1 DEF OwnersForm
<1>11. /\ orphans' \subseteq Made
       /\ \A x \in Made : x \in orphans' <=>
            \/ x \in orphans
            \/ \E h \in Slot : Owns(p, h) /\ handles[p][h].obj = x
            \/ Creating(p) /\ fds[p][calls[p].descriptor] = x
  BY <1>1, <1>3, <1>10
<1>12. TypeOK'
  <2>1. orphans' \subseteq 1..made'
    BY <1>9, <1>11 DEF Made
  <2> QED BY <1>1, <1>2, <1>4, <1>5, <1>6, <1>7, <1>8, <2>1 DEF TypeOK
<1>13. OnlyTouches(p)
  BY <1>4, <1>5, <1>6, <1>7, <1>8 DEF OnlyTouches
<1>14. DescriptorsForm(p)' /\ MappingsForm(p)'
  <2>1. /\ \A h \in Slot, d \in Descriptor : ~UsesD(p, h, d)'
        /\ \A h \in Slot, a \in Address : ~UsesA(p, h, a)'
        /\ \A d \in Descriptor : ~CallD(p, d)'
    BY <1>6, <1>7 DEF UsesD, UsesA, CallD
  <2>2. DescriptorsForm(p)'
    BY <1>4, <1>7, <2>1 DEF DescriptorsForm
  <2>3. MappingsForm(p)'
    BY <1>5, <1>8, <2>1 DEF MappingsForm
  <2> QED BY <2>2, <2>3
<1>15. Resources'
  BY <1>1, <1>9, <1>13, <1>14, OtherResources
<1>16. OwnersForm'
  <2>1. \A h \in Slot : ~Owns(p, h)'
    BY <1>6 DEF Owns
  <2> QED BY <1>1, <1>9, <1>13, <2>1, OtherOwners
<1>17. \A q \in Process, b \in Claimant, m \in Name, x \in Made :
         Claim(q, b, m, x)' <=> Claim(q, b, m, x) /\ q # p
  <2>1. \A b \in Claimant, m \in Name, x \in Made : ~Claim(p, b, m, x)'
    BY <1>6, <1>7 DEF Claim
  <2> QED BY <1>13, <2>1, OtherClaims
<1>18. \A x \in Made : x \in orphans' <=>
         x \in orphans \/ \E b \in Claimant, m \in Name : Claim(p, b, m, x)
  <2> SUFFICES ASSUME NEW x \in Made
               PROVE  (\E b \in Claimant, m \in Name : Claim(p, b, m, x)) <=>
                        \/ \E h \in Slot : Owns(p, h) /\ handles[p][h].obj = x
                        \/ Creating(p) /\ fds[p][calls[p].descriptor] = x
    BY <1>11
  <2>1. ASSUME NEW b \in Claimant, NEW m \in Name, Claim(p, b, m, x)
        PROVE  \/ \E h \in Slot : Owns(p, h) /\ handles[p][h].obj = x
               \/ Creating(p) /\ fds[p][calls[p].descriptor] = x
    BY <2>1 DEF Claim, Owns, Creating, InStep
  <2>2. ASSUME NEW h \in Slot, Owns(p, h), handles[p][h].obj = x
        PROVE  \E b \in Claimant, m \in Name : Claim(p, b, m, x)
    <3>1. Claim(p, h, handles[p][h].name, x)
      BY <2>2 DEF Claim, Owns
    <3> QED BY <1>10, <2>2, <3>1 DEF Claimant
  <2>3. ASSUME Creating(p), fds[p][calls[p].descriptor] = x
        PROVE  \E b \in Claimant, m \in Name : Claim(p, b, m, x)
    <3>1. Claim(p, None, calls[p].name, x)
      BY <2>3 DEF Claim, Creating, InStep
    <3> QED BY <1>10, <2>3, <3>1 DEF Claimant
  <2> QED BY <2>1, <2>2, <2>3
<1>19. Names'
  BY <1>1, <1>2, <1>16, <1>17, <1>18, ClaimsOfDead
<1> QED BY <1>12, <1>15, <1>19 DEF SegmentInv

\* Every step of a process, its death included, and the removal of an
\* orphan's name keep the invariant.
LEMMA SegmentStep == SegmentInv /\ [Next]_vars => SegmentInv'
<1> SUFFICES ASSUME SegmentInv, [Next]_vars PROVE SegmentInv'
  OBVIOUS
<1>1. ASSUME NEW p \in Process, Step(p) PROVE SegmentInv'
  <2>1. CASE Resize(p) \/ Stat(p)
    BY <2>1, NextCallStep
  <2>2. CASE FailCreation(p) \/ FailAttachment(p)
    BY <2>2, FailStep
  <2>3. CASE Map(p)
    BY <2>3, MapStep
  <2>4. CASE Die(p)
    BY <2>4, DieStep
  <2>5. ASSUME NEW h \in Slot, NEW n \in Name, CreateOpen(p, n, h) PROVE SegmentInv'
    BY <2>5, CreateOpenStep
  <2>6. ASSUME NEW h \in Slot, NEW n \in Name, AttachOpen(p, n, h) PROVE SegmentInv'
    BY <2>6, AttachOpenStep
  <2>7. ASSUME NEW h \in Slot, Construct(p, h) PROVE SegmentInv'
    BY <2>7, ConstructStep
  <2>8. ASSUME NEW h \in Slot, Close(p, h) PROVE SegmentInv'
    BY <2>8, CloseStep
  <2>9. ASSUME NEW h \in Slot, Destroy(p, h) PROVE SegmentInv'
    BY <2>9, DestroyStep
  <2>10. ASSUME NEW h \in Slot, Unlink(p, h) PROVE SegmentInv'
    BY <2>10, UnlinkStep
  <2>11. ASSUME NEW h \in Slot, NEW g \in Slot, MoveConstruct(p, h, g) \/ MoveAssign(p, h, g)
         PROVE  SegmentInv'
    BY <2>11, MoveStep
  <2> QED
    BY <1>1, <2>1, <2>2, <2>3, <2>4, <2>5, <2>6, <2>7, <2>8, <2>9, <2>10, <2>11 DEF Step
<1>2. ASSUME NEW n \in Name, RemoveOrphan(n) PROVE SegmentInv'
  BY <1>2, OrphanRemoved
<1>3. ASSUME UNCHANGED vars PROVE SegmentInv'
  <2>1. UNCHANGED <<names, made, sized, fds, maps, handles, calls, orphans, leaked>>
    BY <1>3 DEF vars
  <2>2. Made' = Made
    BY <2>1 DEF Made
  <2>3. TypeOK'
    BY <2>1 DEF SegmentInv, TypeOK
  <2>4. Resources'
    BY <2>1, <2>2 DEF SegmentInv, Resources, DescriptorsForm, MappingsForm, UsesD, UsesA, CallD
  <2>5. OwnersForm'
    BY <2>1, <2>2 DEF SegmentInv, Names, OwnersForm, Owns
  <2>6. \A q \in Process, b \in Claimant, m \in Name, x \in Made :
          Claim(q, b, m, x)' <=> Claim(q, b, m, x)
    BY <2>1 DEF Claim
  <2>7. Names'
    BY <2>1, <2>5, <2>6, ClaimsSame DEF SegmentInv
  <2> QED BY <2>3, <2>4, <2>7 DEF SegmentInv
<1> QED BY <1>1, <1>2, <1>3 DEF Next

\* The inductive invariant of the segments: each linked object has one
\* claimant, each descriptor and mapping one holder.
THEOREM SegmentInvariance == Spec => []SegmentInv
BY InitSegment, SegmentStep, PTL DEF Spec

\* The tables and handles of segment.cpp keep their types.
THEOREM SegmentTypes == Spec => []TypeOK
<1>1. SegmentInv => TypeOK
  BY DEF SegmentInv
<1> QED BY <1>1, SegmentInvariance, PTL

\* unlink() and clean_up_failed_creation() go by name and yet remove only
\* the object their own create_shm() made, whatever other processes do and
\* wherever one of them dies.
THEOREM UnlinkRemovesItsOwn == Spec => []RemovesOnlyItsOwn
BY FormImplies, SegmentInvariance, PTL

\* A name in the POSIX name space always has a creation or a handle that
\* will remove it, or is a known orphan: moves and failures lose none.
THEOREM NamesHaveOwners == Spec => []EveryNameHasAnOwner
BY FormImplies, SegmentInvariance, PTL

\* close_shm() never gives up a descriptor or a mapping twice, or somebody
\* else's, and leaks only a mapping that munmap() refused.
THEOREM ResourcesAreHeldOnce == Spec => []ResourcesHeldOnce
BY FormImplies, SegmentInvariance, PTL

-----------------------------------------------------------------------------
\* Who may remove object o by name, now.
Claimed(o) == \E p \in Process, c \in Claimant, n \in Name : Claim(p, c, n, o)

\* A name is bound only to an object that did not exist before, is never
\* bound from one object to another, and an object whose name was removed has
\* neither a name nor anyone who would remove it: unlinking is for good.
Rebinding ==
  /\ \A n \in Name : names[n] = None /\ names'[n] # None => names'[n] = made + 1
  /\ \A n \in Name, o \in Object :
       names[n] = o /\ names'[n] # o =>
         names'[n] = None /\ ~Claimed(o)' /\ \A m \in Name : names'[m] # o

RemovedForGood == [][Rebinding]_vars

\* A name is removed and nothing else changes in the name space.
LEMMA UnboundForGood ==
  ASSUME SegmentInv, SegmentInv', NEW n \in Name,
         names' = [names EXCEPT ![n] = None], UNCHANGED made
  PROVE  Rebinding
<1>1. /\ names \in [Name -> Object \cup {None}]
      /\ \A m, k \in Name : names[m] # None /\ names[m] = names[k] => m = k
      /\ \A m \in Name : names[m] # None => names[m] \in Made
  BY DEF SegmentInv, TypeOK, Names, NamesForm
<1>2. /\ names'[n] = None
      /\ \A m \in Name : m # n => names'[m] = names[m]
  BY <1>1
<1>3. Made' = Made /\ \A o \in Object : o # None
  BY NoneFacts DEF Made
<1>4. ASSUME NEW m \in Name, NEW o \in Object, names[m] = o, names'[m] # o
      PROVE  names'[m] = None /\ ~Claimed(o)' /\ \A k \in Name : names'[k] # o
  <2>1. m = n /\ o \in Made /\ o # None
    BY <1>1, <1>2, <1>3, <1>4
  <2>2. \A k \in Name : names'[k] # o
    BY <1>1, <1>2, <1>4, <2>1
  <2>3. ASSUME NEW p \in Process, NEW c \in Claimant, NEW k \in Name
        PROVE  ~Claim(p, c, k, o)'
    <3>1. \A x \in Made' : Claim(p, c, k, x)' => names'[k] = x
      BY DEF SegmentInv, Names, ClaimsForm
    <3> QED BY <1>3, <2>1, <2>2, <3>1
  <2> QED BY <1>2, <2>1, <2>2, <2>3 DEF Claimed
<1>5. \A m \in Name : names[m] = None => names'[m] = None
  BY <1>2
<1> QED BY <1>4, <1>5 DEF Rebinding

\* Of the steps of segment.cpp only unlink(), the clean-up of a failed
\* creation and an operator remove a name, and only shm_open() binds one.
THEOREM UnlinkedForGood == Spec => RemovedForGood
<1>1. ASSUME SegmentInv, SegmentInv', [Next]_vars PROVE [Rebinding]_vars
  <2>1. /\ names \in [Name -> Object \cup {None}] /\ made \in Nat
    BY <1>1, ObjectFacts DEF SegmentInv, TypeOK
  <2>2. ASSUME UNCHANGED names PROVE Rebinding
    BY <2>2 DEF Rebinding
  <2>3. ASSUME NEW p \in Process, NEW n \in Name, NEW h \in Slot, CreateOpen(p, n, h)
        PROVE  Rebinding
    <3>1. names[n] = None /\ names' = [names EXCEPT ![n] = made + 1]
      BY <2>3 DEF CreateOpen
    <3>2. \A o \in Object : o # None
      BY NoneFacts
    <3> QED BY <2>1, <3>1, <3>2 DEF Rebinding
  <2>4. ASSUME NEW p \in Process, FailCreation(p) PROVE Rebinding
    <3>1. calls[p] # None /\ calls[p] \in Call \cup {None}
      BY <1>1, <2>4 DEF FailCreation, InStep, SegmentInv, TypeOK
    <3>2. calls[p].name \in Name
      BY <3>1 DEF Call
    <3>3. /\ names' = [names EXCEPT ![calls[p].name] = None] \/ UNCHANGED names
          /\ UNCHANGED made
      BY <2>4 DEF FailCreation, NamesAfterFailure
    <3> QED BY <1>1, <2>2, <3>2, <3>3, UnboundForGood
  <2>5. ASSUME NEW p \in Process, NEW h \in Slot, Unlink(p, h) PROVE Rebinding
    <3>1. handles[p][h].name \in Name
      BY <1>1, <2>5 DEF Unlink, Live, SegmentInv, Names, OwnersForm, Owns
    <3>2. names' = [names EXCEPT ![handles[p][h].name] = None] /\ UNCHANGED made
      BY <2>5 DEF Unlink
    <3> QED BY <1>1, <3>1, <3>2, UnboundForGood
  <2>6. ASSUME NEW n \in Name, RemoveOrphan(n) PROVE Rebinding
    BY <1>1, <2>6, UnboundForGood DEF RemoveOrphan
  <2>7. ASSUME NEW p \in Process,
               Resize(p) \/ Stat(p) \/ FailAttachment(p) \/ Map(p) \/ Die(p)
        PROVE  UNCHANGED names
    BY <2>7 DEF Resize, Stat, FailAttachment, Map, Die
  <2>8. ASSUME NEW p \in Process, NEW h \in Slot,
               (\E n \in Name : AttachOpen(p, n, h)) \/ Construct(p, h) \/ Close(p, h)
                 \/ Destroy(p, h)
        PROVE  UNCHANGED names
    BY <2>8 DEF AttachOpen, Construct, Close, Destroy
  <2>9. ASSUME NEW p \in Process, NEW h \in Slot, NEW g \in Slot,
               MoveConstruct(p, h, g) \/ MoveAssign(p, h, g)
        PROVE  UNCHANGED names
    BY <2>9 DEF MoveConstruct, MoveAssign
  <2>10. ASSUME NEW p \in Process, Step(p) PROVE Rebinding
    BY <2>10, <2>2, <2>3, <2>4, <2>5, <2>7, <2>8, <2>9 DEF Step
  <2> QED BY <1>1, <2>6, <2>10 DEF Next
<1> QED BY <1>1, SegmentInvariance, PTL DEF Spec, RemovedForGood
=============================================================================
