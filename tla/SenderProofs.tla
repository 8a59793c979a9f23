---------------------------- MODULE SenderProofs ----------------------------
(***************************************************************************)
(* Proofs about Sender for every set of events, destinations and sessions, *)
(* every ring capacity and every packet sequence bound.                    *)
(***************************************************************************)
EXTENDS Sender, TLAPS

AllSent == UNION {wire[d] : d \in Destination}

\* The stop flag that ends a session stays set until the sender is replaced.
SessionOver == stop /\ pc \in {"check", "returned"}

\* An event is on loan exactly while it is being encoded; the packet being
\* sent carries the event released last.
LoopInv ==
  /\ taken <= Len(sent) /\ Len(sent) <= MaxPosition
  /\ held <=> pc \in {"encode", "release"}
  /\ held => taken < Len(sent)
  /\ pc = "release" => buffer = Encoded
  /\ pc = "send" => /\ buffer \in Packet
                    /\ buffer.session = session /\ buffer.seq = packetSequence
                    /\ buffer.pos = taken /\ taken > 0
                    /\ buffer.event = sent[taken]

\* What has been sent lies behind the loop: in the ingress stream, and within
\* the current session in packet sequence, up to the packet being sent.
WireInv ==
  /\ session \in used
  /\ \A p \in AllSent :
       /\ p.session \in used
       /\ p.pos <= taken
       /\ p.session = session => p.seq <= packetSequence
       /\ p.session = session /\ p.seq = packetSequence =>
            SessionOver \/ (pc = "send" /\ p = buffer)
       /\ pc = "send" /\ p.pos = taken => p = buffer

\* The inductive invariant behind the properties of Sender.
SenderInv ==
  /\ TypeOK
  /\ LoopInv
  /\ WireInv
  /\ OneSequencePerEvent
  /\ Accounting
  /\ ReturnsClean

-----------------------------------------------------------------------------
\* The counters are numbers, and Bump() adds one to the counters it names.
LEMMA BumpFacts ==
  ASSUME TypeOK, NEW C
  PROVE  /\ Bump(C) \in [Counter -> Nat]
         /\ \A c \in Counter : stats[c] \in Nat
         /\ \A c \in C \cap Counter : Bump(C)[c] = stats[c] + 1
         /\ \A c \in Counter \ C : Bump(C)[c] = stats[c]
<1>1. stats \in [Counter -> Nat]
  BY DEF TypeOK
<1> QED BY <1>1 DEF Bump

\* The counters are numbers.
LEMMA CounterTypes ==
  ASSUME TypeOK
  PROVE  /\ stats["events_in"] \in Nat /\ stats["events_out"] \in Nat
         /\ stats["events_dropped"] \in Nat /\ stats["packets_sent"] \in Nat
         /\ stats["send_errors"] \in Nat /\ stats["encode_errors"] \in Nat
         /\ stats["ingress_errors"] \in Nat
BY DEF TypeOK, Counter

\* What counting does to each counter.
LEMMA BumpCounters ==
  ASSUME TypeOK, NEW C, stats' = Bump(C)
  PROVE  /\ stats'["events_in"] = stats["events_in"] + (IF "events_in" \in C THEN 1 ELSE 0)
         /\ stats'["events_out"] = stats["events_out"] + (IF "events_out" \in C THEN 1 ELSE 0)
         /\ stats'["events_dropped"]
              = stats["events_dropped"] + (IF "events_dropped" \in C THEN 1 ELSE 0)
         /\ stats'["packets_sent"]
              = stats["packets_sent"] + (IF "packets_sent" \in C THEN 1 ELSE 0)
         /\ stats'["send_errors"]
              = stats["send_errors"] + (IF "send_errors" \in C THEN 1 ELSE 0)
         /\ stats'["encode_errors"]
              = stats["encode_errors"] + (IF "encode_errors" \in C THEN 1 ELSE 0)
         /\ stats'["ingress_errors"]
              = stats["ingress_errors"] + (IF "ingress_errors" \in C THEN 1 ELSE 0)
BY BumpFacts DEF Counter

\* There is at least one destination.
LEMMA DestinationsFacts ==
  /\ Len(Destinations) \in Nat /\ Len(Destinations) >= 1
  /\ \A i \in 1..Len(Destinations) : Destinations[i] \in Destination
BY DestinationsAssumption

\* The fields of a datagram are of the types a packet gives them.
LEMMA SentFacts ==
  ASSUME TypeOK, NEW p \in AllSent
  PROVE  /\ p \in Packet
         /\ p.session \in Session /\ p.seq \in Nat /\ p.pos \in Nat
         /\ p.seq >= 1 /\ p.pos >= 1 /\ p.pos <= MaxPosition
<1>1. p \in Packet
  BY DEF AllSent, TypeOK
<1> QED BY <1>1, MaxSequenceAssumption, MaxPositionAssumption DEF Packet

\* The bounds of sequence, cursors and fan-out index.
LEMMA NumberFacts ==
  ASSUME TypeOK
  PROVE  /\ packetSequence \in Nat /\ packetSequence >= 1
         /\ packetSequence <= MaxSequence /\ MaxSequence \in Nat
         /\ taken \in Nat /\ Len(sent) \in Nat
         /\ next \in Nat /\ next >= 1 /\ next <= Len(Destinations) + 1
<1>1. sent \in Seq(Event)
  BY DEF TypeOK
<1>2. taken \in Nat /\ packetSequence \in 1..MaxSequence
      /\ next \in 1..Len(Destinations) + 1
  BY DEF TypeOK
<1> QED BY <1>1, <1>2, MaxSequenceAssumption, DestinationsFacts

\* The terms of Accounting, by name.
InFlight == IF pc \in {"encode", "release", "send"} THEN 1 ELSE 0
Attempted == IF pc = "send" THEN next - 1 ELSE 0
EncodedCount == stats["events_in"] - InFlight - stats["encode_errors"]
Settled == stats["events_out"] + stats["events_dropped"] + InFlight
Attempts == stats["packets_sent"] + stats["send_errors"]

\* The books in terms of settled events and attempted sends.
LEMMA AccountingForm ==
  /\ Accounting <=> /\ stats["events_in"] = Settled
                    /\ Attempts = EncodedCount * Len(Destinations) + Attempted
  /\ Accounting' <=> /\ stats'["events_in"] = Settled'
                     /\ Attempts' = EncodedCount' * Len(Destinations) + Attempted'
BY DEF Accounting, InFlight, Attempted, EncodedCount, Settled, Attempts

\* A step that settles no event and attempts no send keeps the books.
LEMMA AccountingKept ==
  ASSUME Accounting,
         stats'["events_in"] - stats["events_in"] = Settled' - Settled,
         stats["events_in"] \in Int, stats'["events_in"] \in Int,
         Settled \in Int, Settled' \in Int,
         UNCHANGED <<EncodedCount, Attempts, Attempted>>
  PROVE  Accounting'
BY AccountingForm

\* OneSequencePerEvent read over the set of all datagrams.
LEMMA OneSequenceForm ==
  OneSequencePerEvent <=>
    \A p, q \in AllSent :
      /\ p.pos = q.pos => p = q
      /\ p.session = q.session => (p.seq < q.seq <=> p.pos < q.pos)
      /\ p.event = sent[p.pos]
BY DEF OneSequencePerEvent, AllSent

\* OneSequencePerEvent in the next state, quantified.
LEMMA OneSequenceFormPrime ==
  OneSequencePerEvent' <=>
    \A p, q \in AllSent' :
      /\ p.pos = q.pos => p = q
      /\ p.session = q.session => (p.seq < q.seq <=> p.pos < q.pos)
      /\ p.event = sent'[p.pos]
BY DEF OneSequencePerEvent, AllSent

\* Steps that send nothing and keep the packet identity: what was sent stays
\* behind the loop.
LEMMA WireKept ==
  ASSUME SenderInv,
         UNCHANGED <<wire, session, used, packetSequence>>,
         taken' \in {taken, taken + 1},
         pc = "send" => UNCHANGED <<pc, buffer, taken>>,
         pc # "send" /\ pc' = "send" => pc = "release" /\ taken' = taken + 1,
         SessionOver => SessionOver',
         \A i \in 1..taken : sent'[i] = sent[i]
  PROVE  WireInv' /\ OneSequencePerEvent'
<1>1. TypeOK /\ WireInv /\ OneSequencePerEvent
  BY DEF SenderInv
<1>2. AllSent' = AllSent
  BY DEF AllSent
<1>3. /\ taken \in Nat /\ taken' \in Nat /\ taken <= taken'
  BY <1>1, NumberFacts
<1>4. ASSUME NEW p \in AllSent
      PROVE  /\ p.session \in used
             /\ p.pos <= taken'
             /\ p.session = session => p.seq <= packetSequence
             /\ p.session = session /\ p.seq = packetSequence =>
                  SessionOver' \/ (pc' = "send" /\ p = buffer')
             /\ pc' = "send" /\ p.pos = taken' => p = buffer'
             /\ sent'[p.pos] = sent[p.pos]
  <2>1. /\ p.pos \in Nat /\ p.pos >= 1 /\ p.seq \in Nat
    BY <1>1, SentFacts
  <2>2. /\ p.session \in used
        /\ p.pos <= taken
        /\ p.session = session => p.seq <= packetSequence
        /\ p.session = session /\ p.seq = packetSequence =>
             SessionOver \/ (pc = "send" /\ p = buffer)
        /\ pc = "send" /\ p.pos = taken => p = buffer
    BY <1>1 DEF WireInv
  <2> HIDE DEF SessionOver
  <2>3. p.pos \in 1..taken
    BY <2>1, <2>2, <1>3
  <2>4. CASE pc = "send"
    BY <2>1, <2>2, <2>3, <2>4, <1>3
  <2>5. CASE pc # "send"
    BY <2>1, <2>2, <2>3, <2>5, <1>3
  <2> QED BY <2>4, <2>5
<1>5. WireInv'
  BY <1>1, <1>2, <1>4 DEF WireInv
<1>6. OneSequencePerEvent'
  BY <1>1, <1>2, <1>4, OneSequenceForm, OneSequenceFormPrime
<1> QED BY <1>5, <1>6

-----------------------------------------------------------------------------
LEMMA InitSenderInv == Init => SenderInv
<1> SUFFICES ASSUME Init PROVE SenderInv
  OBVIOUS
<1> USE DEF Init, Ingress!Init
<1>1. AllSent = {}
  BY DEF AllSent
<1>2. TypeOK
  <2>1. stats \in [Counter -> Nat] /\ wire \in [Destination -> SUBSET Packet]
    BY DEF NoStats
  <2>2. packetSequence \in 1..MaxSequence /\ next \in 1..Len(Destinations) + 1
    BY MaxSequenceAssumption, DestinationsFacts
  <2>3. sent \in Seq(Event) /\ taken \in Nat /\ used \subseteq Session
    OBVIOUS
  <2> QED BY <2>1, <2>2, <2>3 DEF TypeOK
<1>3. LoopInv /\ WireInv /\ ReturnsClean
  BY <1>1, MaxPositionAssumption DEF LoopInv, WireInv, ReturnsClean
<1>4. OneSequencePerEvent
  BY <1>1, OneSequenceForm
<1>5. Accounting
  BY DestinationsFacts DEF Accounting, NoStats, Counter
<1> QED BY <1>2, <1>3, <1>4, <1>5 DEF SenderInv

\* run() is called, looks at the stop flag or is asked to stop.
LEMMA ControlStep ==
  ASSUME SenderInv, CallRun \/ CheckStop \/ RequestStop
  PROVE  SenderInv'
<1> USE DEF queue, loop, identity, fanOut
<1>1. TypeOK /\ LoopInv /\ Accounting /\ ReturnsClean
  BY DEF SenderInv
<1>2. /\ UNCHANGED <<sent, taken, held, closed, session, used, packetSequence, buffer,
                     next, sentToAny, stats, wire>>
      /\ \/ pc = "returned" /\ pc' = "check" /\ stop' = stop
         \/ pc = "check" /\ pc' = "returned" /\ stop /\ stop' = stop
         \/ pc = "check" /\ pc' = "acquire" /\ ~stop /\ stop' = stop
         \/ pc' = pc /\ stop' = TRUE
  <2>1. CASE CallRun
    BY <2>1 DEF CallRun
  <2>2. CASE CheckStop
    BY <2>2 DEF CheckStop
  <2>3. CASE RequestStop
    BY <2>3 DEF RequestStop
  <2> QED BY <2>1, <2>2, <2>3
<1>3. TypeOK'
  <2>1. stop' \in BOOLEAN
    BY <1>1, <1>2, Zenon DEF TypeOK
  <2> QED BY <1>1, <1>2, <2>1 DEF TypeOK
<1>4. LoopInv'
  BY <1>1, <1>2 DEF LoopInv, Encoded
<1>5. Accounting'
  <2>1. UNCHANGED <<InFlight, Attempted>>
    BY <1>2 DEF InFlight, Attempted
  <2>2. UNCHANGED <<EncodedCount, Attempts, Settled>>
    BY <1>2, <2>1 DEF EncodedCount, Attempts, Settled
  <2> QED BY <1>1, <1>2, <2>1, <2>2, AccountingForm
<1>6. ReturnsClean'
  BY <1>1, <1>2 DEF ReturnsClean, LoopInv
<1>7. WireInv' /\ OneSequencePerEvent'
  <2>1. SessionOver => SessionOver'
    BY <1>2 DEF SessionOver
  <2>2. /\ pc = "send" => pc' = pc
        /\ ~(pc # "send" /\ pc' = "send")
    BY <1>2
  <2> QED BY <1>2, <2>1, <2>2, WireKept
<1> QED BY <1>3, <1>4, <1>5, <1>6, <1>7 DEF SenderInv

\* try_acquire() lends an event.
LEMMA AcquireEventStep ==
  ASSUME SenderInv, AcquireEvent
  PROVE  SenderInv'
<1> USE DEF queue, identity, fanOut
<1>1. TypeOK /\ LoopInv /\ Accounting
  BY DEF SenderInv
<1>2. /\ pc = "acquire" /\ pc' = "encode" /\ taken < Len(sent) /\ held'
      /\ stats' = Bump({"events_in"}) /\ held' \in BOOLEAN
      /\ UNCHANGED <<sent, taken, closed, identity, packetSequence, buffer, fanOut,
                     stop, wire>>
  BY DEF AcquireEvent, Ingress!Lend
<1>3. TypeOK'
  BY <1>1, <1>2, BumpFacts DEF TypeOK
<1>4. LoopInv' /\ ReturnsClean'
  BY <1>1, <1>2 DEF LoopInv, ReturnsClean
<1>5. Accounting'
  <2>1. /\ stats'["events_in"] = stats["events_in"] + 1
        /\ stats'["encode_errors"] = stats["encode_errors"]
        /\ stats'["events_out"] = stats["events_out"]
        /\ stats'["events_dropped"] = stats["events_dropped"]
        /\ stats'["packets_sent"] = stats["packets_sent"]
        /\ stats'["send_errors"] = stats["send_errors"]
    BY <1>1, <1>2, BumpCounters, CounterTypes
  <2>2. InFlight = 0 /\ InFlight' = 1 /\ Attempted = 0 /\ Attempted' = 0
    BY <1>2 DEF InFlight, Attempted
  <2> QED BY <1>1, <2>1, <2>2, CounterTypes, AccountingKept
          DEF EncodedCount, Settled, Attempts
<1>6. WireInv' /\ OneSequencePerEvent'
  BY <1>2, WireKept DEF SessionOver
<1> QED BY <1>3, <1>4, <1>5, <1>6 DEF SenderInv

\* try_acquire() returns Empty, Closed or an error.
LEMMA AcquireNothingStep ==
  ASSUME SenderInv, AcquireEmpty \/ AcquireClosed \/ AcquireInvalid
  PROVE  SenderInv'
<1> USE DEF queue, identity, fanOut
<1>1. TypeOK /\ LoopInv /\ Accounting
  BY DEF SenderInv
<1>2. /\ pc = "acquire" /\ pc' \in {"check", "returned"}
      /\ UNCHANGED <<sent, taken, held, closed, identity, packetSequence, buffer, fanOut,
                     stop, wire>>
      /\ \/ UNCHANGED stats /\ pc' = "check"
         \/ UNCHANGED stats /\ closed /\ taken = Len(sent)
         \/ stats' = Bump({"ingress_errors"})
  BY DEF AcquireEmpty, AcquireClosed, AcquireInvalid, Ingress!ReportEmpty,
         Ingress!ReportClosed
<1>3. TypeOK'
  BY <1>1, <1>2, BumpFacts DEF TypeOK
<1>4. LoopInv'
  BY <1>1, <1>2 DEF LoopInv
<1>5. ReturnsClean'
  <2>1. stats' = Bump({"ingress_errors"}) => stats'["ingress_errors"] # 0
    BY <1>1, BumpFacts DEF Counter
  <2> QED BY <1>1, <1>2, <2>1 DEF LoopInv, ReturnsClean
<1>6. Accounting'
  <2>1. /\ stats'["events_in"] = stats["events_in"]
        /\ stats'["encode_errors"] = stats["encode_errors"]
        /\ stats'["events_out"] = stats["events_out"]
        /\ stats'["events_dropped"] = stats["events_dropped"]
        /\ stats'["packets_sent"] = stats["packets_sent"]
        /\ stats'["send_errors"] = stats["send_errors"]
    <3>1. CASE UNCHANGED stats
      BY <3>1
    <3>2. CASE stats' = Bump({"ingress_errors"})
      BY <1>1, <3>2, BumpCounters, CounterTypes
    <3> QED BY <1>2, <3>1, <3>2
  <2>2. InFlight = 0 /\ InFlight' = 0 /\ Attempted = 0 /\ Attempted' = 0
    BY <1>2 DEF InFlight, Attempted
  <2> QED BY <1>1, <2>1, <2>2, CounterTypes, AccountingKept
          DEF EncodedCount, Settled, Attempts
<1>7. WireInv' /\ OneSequencePerEvent'
  BY <1>2, WireKept DEF SessionOver
<1> QED BY <1>3, <1>4, <1>5, <1>6, <1>7 DEF SenderInv

\* encode_data() takes the next sequence, or fails and takes none.
LEMMA EncodeStep ==
  ASSUME SenderInv, Encode
  PROVE  SenderInv'
<1> USE DEF queue, identity, fanOut
<1>1. TypeOK /\ LoopInv /\ Accounting
  BY DEF SenderInv
<1>2. /\ pc = "encode" /\ pc' = "release" /\ buffer' = Encoded /\ taken < Len(sent)
      /\ UNCHANGED <<sent, taken, held, closed, identity, packetSequence, fanOut, stats,
                     stop, wire>>
  BY <1>1 DEF Encode, LoopInv
<1>3. buffer' \in Packet \cup {NoPacket}
  <2>1. sent \in Seq(Event) /\ taken \in Nat /\ session \in Session
        /\ packetSequence \in 1..MaxSequence
    BY <1>1 DEF TypeOK
  <2>2. taken + 1 \in 1..Len(sent) /\ taken + 1 \in 1..MaxPosition
    BY <1>1, <1>2, <2>1, MaxPositionAssumption DEF LoopInv
  <2>3. sent[taken + 1] \in Event
    BY <2>1, <2>2
  <2> QED BY <1>2, <2>1, <2>2, <2>3 DEF Encoded, Packet
<1>4. TypeOK'
  BY <1>1, <1>2, <1>3 DEF TypeOK
<1>5. LoopInv' /\ ReturnsClean'
  BY <1>1, <1>2 DEF LoopInv, ReturnsClean, Encoded
<1>6. Accounting'
  BY <1>1, <1>2 DEF Accounting
<1>7. WireInv' /\ OneSequencePerEvent'
  BY <1>2, WireKept DEF SessionOver
<1> QED BY <1>4, <1>5, <1>6, <1>7 DEF SenderInv

\* release() gives the event back, encoded or not.
LEMMA ReleaseStep ==
  ASSUME SenderInv, Release
  PROVE  SenderInv'
<1> USE DEF queue, identity, fanOut
<1>1. TypeOK /\ LoopInv /\ Accounting
  BY DEF SenderInv
<1>2. /\ pc = "release" /\ held' = FALSE /\ taken' = taken + 1 /\ taken < Len(sent)
      /\ buffer = Encoded
      /\ UNCHANGED <<sent, closed, identity, packetSequence, buffer, stop, wire>>
      /\ \/ /\ pc' = "check" /\ UNCHANGED fanOut
            /\ stats' = Bump({"encode_errors", "events_dropped"})
         \/ /\ pc' = "send" /\ buffer # NoPacket /\ next' = 1 /\ sentToAny' = FALSE
            /\ UNCHANGED stats
  BY <1>1 DEF Release, Ingress!GiveBack, LoopInv
<1>3. taken \in Nat /\ Len(sent) \in Nat
  BY <1>1, NumberFacts
<1>4. TypeOK'
  <2>1. taken' \in Nat
    BY <1>2, <1>3
  <2>5. held' \in BOOLEAN
    BY <1>2, Zenon
  <2>4. next' \in 1..Len(Destinations) + 1
    BY <1>1, <1>2, NumberFacts, DestinationsFacts
  <2>2. sentToAny' \in BOOLEAN
    BY <1>1, <1>2, Zenon DEF TypeOK
  <2>3. stats' \in [Counter -> Nat]
    BY <1>1, <1>2, BumpFacts DEF TypeOK
  <2> QED BY <1>1, <1>2, <2>1, <2>2, <2>3, <2>4, <2>5 DEF TypeOK
<1>5. LoopInv'
  <2>1. taken' <= Len(sent) /\ taken' > 0 /\ Len(sent) <= MaxPosition
    BY <1>1, <1>2, <1>3 DEF LoopInv
  <2>2. pc' = "send" => /\ buffer \in Packet
                        /\ buffer.session = session /\ buffer.seq = packetSequence
                        /\ buffer.pos = taken' /\ buffer.event = sent[taken']
    BY <1>1, <1>2 DEF Encoded, TypeOK
  <2> QED BY <1>2, <2>1, <2>2 DEF LoopInv
<1>6. ReturnsClean'
  BY <1>2 DEF ReturnsClean
<1>7. Accounting'
  <2>1. InFlight = 1 /\ InFlight' = (IF pc' = "send" THEN 1 ELSE 0)
        /\ Attempted = 0 /\ Attempted' = 0
    BY <1>2 DEF InFlight, Attempted
  <2>2. CASE UNCHANGED stats /\ pc' = "send"
    BY <1>1, <2>1, <2>2, CounterTypes, AccountingKept DEF EncodedCount, Settled, Attempts
  <2>3. CASE stats' = Bump({"encode_errors", "events_dropped"}) /\ pc' = "check"
    <3>1. /\ stats'["events_in"] = stats["events_in"]
          /\ stats'["encode_errors"] = stats["encode_errors"] + 1
          /\ stats'["events_out"] = stats["events_out"]
          /\ stats'["events_dropped"] = stats["events_dropped"] + 1
          /\ stats'["packets_sent"] = stats["packets_sent"]
          /\ stats'["send_errors"] = stats["send_errors"]
      BY <1>1, <2>3, BumpCounters, CounterTypes
    <3> QED BY <1>1, <2>1, <2>3, <3>1, CounterTypes, AccountingKept
            DEF EncodedCount, Settled, Attempts
  <2> QED BY <1>2, <2>2, <2>3
<1>8. WireInv' /\ OneSequencePerEvent'
  BY <1>2, WireKept DEF SessionOver
<1> QED BY <1>4, <1>5, <1>6, <1>7, <1>8 DEF SenderInv

\* One destination after the other is sent the same packet.
LEMMA SendToStep ==
  ASSUME SenderInv, SendTo
  PROVE  SenderInv'
<1> USE DEF queue, identity
<1>1. TypeOK /\ LoopInv /\ WireInv /\ OneSequencePerEvent /\ Accounting
  BY DEF SenderInv
<1> DEFINE d == Destinations[next]
<1>2. PICK ok \in BOOLEAN :
        /\ pc = "send" /\ next <= Len(Destinations)
        /\ wire' = IF ok THEN [wire EXCEPT ![d] = @ \cup {buffer}] ELSE wire
        /\ stats' = Bump({IF ok THEN "packets_sent" ELSE "send_errors"})
        /\ sentToAny' = (sentToAny \/ ok)
        /\ next' = next + 1
        /\ UNCHANGED <<sent, taken, held, closed, pc, session, used, packetSequence,
                       buffer, stop>>
  BY DEF SendTo, send_to, AfterSend
<1>3. d \in Destination
  BY <1>1, <1>2, NumberFacts, DestinationsFacts
<1>4. /\ buffer \in Packet
      /\ buffer.session = session /\ buffer.seq = packetSequence
      /\ buffer.pos = taken /\ buffer.event = sent[taken]
  BY <1>1, <1>2 DEF LoopInv
<1> HIDE DEF d
<1>5. TypeOK'
  <2>1. wire \in [Destination -> SUBSET Packet]
    BY <1>1 DEF TypeOK
  <2>2. wire' \in [Destination -> SUBSET Packet]
    BY <1>2, <1>3, <1>4, <2>1
  <2>3. next' \in 1..Len(Destinations) + 1
    BY <1>1, <1>2, NumberFacts, DestinationsFacts
  <2>4. sentToAny' \in BOOLEAN
    BY <1>2, Zenon
  <2>5. stats' \in [Counter -> Nat]
    BY <1>1, <1>2, BumpFacts
  <2> QED BY <1>1, <1>2, <2>2, <2>3, <2>4, <2>5 DEF TypeOK
<1>6. LoopInv' /\ ReturnsClean'
  BY <1>1, <1>2 DEF LoopInv, ReturnsClean
<1>7. AllSent' \subseteq AllSent \cup {buffer}
  <2>1. wire \in [Destination -> SUBSET Packet]
    BY <1>1 DEF TypeOK
  <2>2. \A c \in Destination : wire'[c] \subseteq wire[c] \cup {buffer}
    BY <1>2, <1>3, <2>1
  <2> QED BY <2>2 DEF AllSent
<1>8. ASSUME NEW p \in AllSent'
      PROVE  /\ p.session \in used
             /\ p.pos <= taken
             /\ p.session = session => p.seq <= packetSequence
             /\ p.session = session /\ p.seq = packetSequence => p = buffer
             /\ p.pos = taken => p = buffer
             /\ p.pos \in Nat /\ p.seq \in Nat
             /\ p.event = sent[p.pos]
  <2>1. CASE p = buffer
    BY <1>1, <1>4, <2>1, NumberFacts DEF WireInv
  <2>2. CASE p \in AllSent
    <3>1. p.pos \in Nat /\ p.seq \in Nat
      BY <1>1, <2>2, SentFacts
    <3>2. p.event = sent[p.pos]
      BY <1>1, <2>2, OneSequenceForm
    <3> QED BY <1>1, <1>2, <2>2, <3>1, <3>2 DEF WireInv, SessionOver
  <2> QED BY <1>7, <2>1, <2>2
<1>9. WireInv'
  BY <1>1, <1>2, <1>8 DEF WireInv
<1>10. OneSequencePerEvent'
  <2>1. ASSUME NEW p \in AllSent', NEW q \in AllSent'
        PROVE  /\ p.pos = q.pos => p = q
               /\ p.session = q.session => (p.seq < q.seq <=> p.pos < q.pos)
               /\ p.event = sent'[p.pos]
    <3>0. taken \in Nat /\ packetSequence \in Nat
      BY <1>1, NumberFacts
    <3>1. CASE p = buffer /\ q = buffer
      BY <3>1, <3>0, <1>8, <1>4, <1>2
    <3>2. CASE p = buffer /\ q # buffer
      BY <3>2, <3>0, <1>8, <1>4, <1>2
    <3>3. CASE p # buffer /\ q = buffer
      BY <3>3, <3>0, <1>8, <1>4, <1>2
    <3>4. CASE p # buffer /\ q # buffer
      <4>1. p \in AllSent /\ q \in AllSent
        BY <3>4, <1>7
      <4> QED BY <4>1, <1>1, <1>2, OneSequenceForm
    <3> QED BY <3>1, <3>2, <3>3, <3>4
  <2> QED BY <2>1, OneSequenceFormPrime
<1>11. Accounting'
  <2>1. /\ stats'["events_in"] = stats["events_in"]
        /\ stats'["encode_errors"] = stats["encode_errors"]
        /\ stats'["events_out"] = stats["events_out"]
        /\ stats'["events_dropped"] = stats["events_dropped"]
        /\ stats'["packets_sent"] + stats'["send_errors"]
             = stats["packets_sent"] + stats["send_errors"] + 1
    <3>1. CASE ok
      <4>1. stats' = Bump({"packets_sent"})
        BY <1>2, <3>1
      <4> QED BY <1>1, <4>1, BumpCounters, CounterTypes
    <3>2. CASE ~ok
      <4>1. stats' = Bump({"send_errors"})
        BY <1>2, <3>2
      <4> QED BY <1>1, <4>1, BumpCounters, CounterTypes
    <3> QED BY <3>1, <3>2
  <2>2. InFlight' = InFlight /\ Attempted' = Attempted + 1 /\ Attempted \in Int
    BY <1>1, <1>2, NumberFacts DEF InFlight, Attempted
  <2>3. UNCHANGED <<EncodedCount, Settled>> /\ Attempts' = Attempts + 1
    BY <2>1, <2>2 DEF EncodedCount, Settled, Attempts
  <2>4. EncodedCount \in Int
    BY <1>1, <1>2, CounterTypes DEF EncodedCount, InFlight
  <2>5. EncodedCount * Len(Destinations) \in Int
    BY <2>4, DestinationsFacts
  <2> QED BY <1>1, <2>1, <2>2, <2>3, <2>5, AccountingForm
<1> QED BY <1>5, <1>6, <1>9, <1>10, <1>11 DEF SenderInv

\* All destinations were tried: the packet sequence advances, or the session ends.
LEMMA FinishEventStep ==
  ASSUME SenderInv, FinishEvent
  PROVE  SenderInv'
<1> USE DEF queue, identity, fanOut
<1>1. TypeOK /\ LoopInv /\ WireInv /\ OneSequencePerEvent /\ Accounting
  BY DEF SenderInv
<1>2. /\ pc = "send" /\ next > Len(Destinations)
      /\ stats' = Bump({IF sentToAny THEN "events_out" ELSE "events_dropped"})
      /\ UNCHANGED <<sent, taken, held, closed, session, used, buffer, next, sentToAny,
                     wire>>
      /\ IF packetSequence = MaxSequence THEN EndSession ELSE NextSequence
  BY DEF FinishEvent
<1>3. /\ packetSequence \in Nat /\ packetSequence >= 1 /\ packetSequence <= MaxSequence
      /\ MaxSequence \in Nat
  BY <1>1, NumberFacts
<1>4. \/ stop' = TRUE /\ pc' = "returned" /\ packetSequence' = packetSequence
      \/ /\ stop' = stop /\ pc' = "check" /\ packetSequence' = packetSequence + 1
         /\ packetSequence < MaxSequence
  <2>1. CASE packetSequence = MaxSequence
    BY <1>2, <2>1 DEF EndSession
  <2>2. CASE packetSequence # MaxSequence
    <3>1. (packetSequence + 1) % (MaxSequence + 1) = packetSequence + 1
      BY <1>3, <2>2
    <3> QED BY <1>2, <1>3, <2>2, <3>1 DEF NextSequence
  <2> QED BY <2>1, <2>2
<1>5. TypeOK'
  <2>1. packetSequence' \in 1..MaxSequence
    BY <1>3, <1>4
  <2>2. stop' \in BOOLEAN
    BY <1>1, <1>4, Zenon DEF TypeOK
  <2>3. stats' \in [Counter -> Nat]
    BY <1>1, <1>2, BumpFacts
  <2>4. pc' \in {"check", "returned"}
    BY <1>4
  <2> QED BY <1>1, <1>2, <2>1, <2>2, <2>3, <2>4 DEF TypeOK
<1>6. LoopInv' /\ ReturnsClean'
  BY <1>1, <1>2, <1>4 DEF LoopInv, ReturnsClean
<1>7. AllSent' = AllSent
  BY <1>2 DEF AllSent
<1>8. WireInv'
  <2>1. ASSUME NEW p \in AllSent
        PROVE  /\ p.session \in used
               /\ p.pos <= taken
               /\ p.session = session => p.seq <= packetSequence'
               /\ p.session = session /\ p.seq = packetSequence' => SessionOver'
    <3>1. p.seq \in Nat
      BY <1>1, SentFacts
    <3> QED BY <1>1, <1>3, <1>4, <3>1 DEF WireInv, SessionOver
  <2>2. pc' # "send"
    BY <1>4
  <2> QED BY <1>1, <1>2, <1>7, <2>1, <2>2 DEF WireInv
<1>9. OneSequencePerEvent'
  BY <1>1, <1>2, <1>7, OneSequenceForm, OneSequenceFormPrime
<1>10. Accounting'
  <2> DEFINE n == Len(Destinations)
  <2>1. /\ stats'["events_in"] = stats["events_in"]
        /\ stats'["encode_errors"] = stats["encode_errors"]
        /\ stats'["events_out"] + stats'["events_dropped"]
             = stats["events_out"] + stats["events_dropped"] + 1
        /\ stats'["packets_sent"] = stats["packets_sent"]
        /\ stats'["send_errors"] = stats["send_errors"]
    <3>1. CASE sentToAny
      <4>1. stats' = Bump({"events_out"})
        BY <1>2, <3>1
      <4> QED BY <1>1, <4>1, BumpCounters, CounterTypes
    <3>2. CASE ~sentToAny
      <4>1. stats' = Bump({"events_dropped"})
        BY <1>2, <3>2
      <4> QED BY <1>1, <4>1, BumpCounters, CounterTypes
    <3> QED BY <3>1, <3>2
  <2>2. n \in Nat /\ next = n + 1
    BY <1>1, <1>2, NumberFacts, DestinationsFacts
  <2>3. InFlight = 1 /\ InFlight' = 0 /\ Attempted = n /\ Attempted' = 0
    BY <1>2, <1>4, <2>2 DEF InFlight, Attempted
  <2>4. /\ EncodedCount' = EncodedCount + 1 /\ EncodedCount \in Int
        /\ Settled' = Settled /\ Attempts' = Attempts
    BY <1>1, <2>1, <2>3, CounterTypes DEF EncodedCount, Settled, Attempts
  <2> HIDE DEF n
  <2>5. (EncodedCount + 1) * n = EncodedCount * n + n
    BY <2>2, <2>4
  <2>6. EncodedCount * n \in Int
    BY <2>2, <2>4
  <2>7. Attempts = EncodedCount * n + n /\ stats["events_in"] = Settled
    BY <1>1, <2>3, AccountingForm DEF n
  <2> QED BY <2>1, <2>2, <2>3, <2>4, <2>5, <2>6, <2>7, AccountingForm DEF n
<1> QED BY <1>5, <1>6, <1>8, <1>9, <1>10 DEF SenderInv

\* A successor takes over the ring under a session nobody has used.
LEMMA RestartStep ==
  ASSUME SenderInv, Restart
  PROVE  SenderInv'
<1>1. TypeOK /\ LoopInv /\ WireInv /\ OneSequencePerEvent
  BY DEF SenderInv
<1>2. /\ session' \in Session \ used /\ used' = used \cup {session'}
      /\ held' = FALSE /\ pc' = "check" /\ stop' = FALSE /\ packetSequence' = 1
      /\ buffer' = NoPacket /\ next' = 1 /\ sentToAny' = FALSE /\ stats' = NoStats
      /\ UNCHANGED <<sent, taken, closed, wire>>
  BY DEF Restart, Ingress!Abandon
<1>3. TypeOK'
  <2>1. stats' \in [Counter -> Nat]
    BY <1>2 DEF NoStats
  <2>2. packetSequence' \in 1..MaxSequence /\ next' \in 1..Len(Destinations) + 1
    BY <1>2, MaxSequenceAssumption, DestinationsFacts
  <2>3. held' \in BOOLEAN /\ stop' \in BOOLEAN /\ sentToAny' \in BOOLEAN
    BY <1>2, Zenon
  <2>4. session' \in Session /\ used' \subseteq Session
    BY <1>1, <1>2 DEF TypeOK
  <2> QED BY <1>1, <1>2, <2>1, <2>2, <2>3, <2>4 DEF TypeOK
<1>4. LoopInv' /\ ReturnsClean'
  BY <1>1, <1>2 DEF LoopInv, ReturnsClean
<1>5. AllSent' = AllSent
  BY <1>2 DEF AllSent
<1>6. WireInv'
  BY <1>1, <1>2, <1>5 DEF WireInv
<1>7. OneSequencePerEvent'
  BY <1>1, <1>2, <1>5, OneSequenceForm, OneSequenceFormPrime
<1>8. Accounting'
  BY <1>2, DestinationsFacts DEF Accounting, NoStats, Counter
<1> QED BY <1>3, <1>4, <1>6, <1>7, <1>8 DEF SenderInv

\* The books do not depend on what the producer does.
LEMMA QuietBooks ==
  ASSUME Accounting, UNCHANGED <<pc, next, stats>>
  PROVE  Accounting'
<1>1. UNCHANGED <<InFlight, Attempted>>
  BY DEF InFlight, Attempted
<1>2. UNCHANGED <<EncodedCount, Attempts, Settled>>
  BY <1>1 DEF EncodedCount, Attempts, Settled
<1> QED BY <1>1, <1>2, AccountingForm

\* A longer sequence keeps its elements.
LEMMA AppendFacts ==
  ASSUME NEW T, NEW s \in Seq(T), NEW x \in T
  PROVE  /\ Append(s, x) \in Seq(T)
         /\ Len(Append(s, x)) = Len(s) + 1
         /\ Len(s) \in Nat
         /\ \A i \in 1..Len(s) : Append(s, x)[i] = s[i]
  OBVIOUS

\* The producer publishes to, or closes, the ingress ring.
LEMMA ProduceStep ==
  ASSUME SenderInv, Produce \/ UNCHANGED vars
  PROVE  SenderInv'
<1> USE DEF loop, identity, fanOut, queue, vars
<1>1. TypeOK /\ LoopInv /\ Accounting /\ ReturnsClean
  BY DEF SenderInv
<1>2. /\ UNCHANGED <<taken, held, pc, stop, session, used, packetSequence, buffer, next,
                     sentToAny, stats, wire>>
      /\ \/ UNCHANGED <<sent, closed>>
         \/ closed' = TRUE /\ UNCHANGED sent
         \/ /\ ~closed /\ Len(sent) < MaxPosition /\ UNCHANGED closed
            /\ \E e \in Event : sent' = Append(sent, e)
  <2>1. CASE Produce
    BY <2>1 DEF Produce, Ingress!Publish, Ingress!Close
  <2>2. CASE UNCHANGED vars
    BY <2>2
  <2> QED BY <2>1, <2>2
<1>3. taken \in Nat /\ Len(sent) \in Nat /\ sent \in Seq(Event)
  BY <1>1, NumberFacts DEF TypeOK
<1>4. /\ sent' \in Seq(Event)
      /\ Len(sent') \in Nat /\ Len(sent) <= Len(sent') /\ Len(sent') <= MaxPosition
      /\ \A i \in 1..Len(sent) : sent'[i] = sent[i]
      /\ closed => sent' = sent
  <2>1. Len(sent) <= MaxPosition
    BY <1>1 DEF LoopInv
  <2>2. CASE UNCHANGED sent
    BY <1>3, <2>1, <2>2
  <2>3. CASE /\ ~closed /\ Len(sent) < MaxPosition
             /\ \E e \in Event : sent' = Append(sent, e)
    <3>1. PICK e \in Event : sent' = Append(sent, e)
      BY <2>3
    <3> QED BY <1>3, <2>3, <3>1, AppendFacts, MaxPositionAssumption
  <2> QED BY <1>2, <2>2, <2>3
<1>5. closed => closed'
  BY <1>2
<1>6. TypeOK'
  <2>1. closed' \in BOOLEAN
    BY <1>1, <1>2, Zenon DEF TypeOK
  <2> QED BY <1>1, <1>2, <1>4, <2>1 DEF TypeOK
<1>7. LoopInv'
  <2>1. /\ taken <= Len(sent) /\ (held => taken < Len(sent))
        /\ held <=> pc \in {"encode", "release"}
        /\ pc = "release" => buffer = Encoded
        /\ pc = "send" => /\ buffer \in Packet
                          /\ buffer.session = session /\ buffer.seq = packetSequence
                          /\ buffer.pos = taken /\ taken > 0
                          /\ buffer.event = sent[taken]
    BY <1>1 DEF LoopInv
  <2>2. taken <= Len(sent') /\ (held => taken < Len(sent'))
    BY <1>3, <1>4, <2>1
  <2>3. held => Encoded' = Encoded
    <3>1. held => taken + 1 \in 1..Len(sent)
      BY <1>3, <2>1
    <3> QED BY <1>2, <1>4, <3>1 DEF Encoded
  <2>4. taken > 0 => sent'[taken] = sent[taken]
    BY <1>3, <1>4, <2>1
  <2> HIDE DEF Encoded
  <2> QED BY <1>2, <1>4, <2>1, <2>2, <2>3, <2>4 DEF LoopInv
<1>8. Accounting'
  BY <1>1, <1>2, QuietBooks
<1>9. ReturnsClean'
  BY <1>1, <1>2, <1>4, <1>5 DEF ReturnsClean
<1>10. WireInv' /\ OneSequencePerEvent'
  <2>1. \A i \in 1..taken : sent'[i] = sent[i]
    BY <1>1, <1>3, <1>4 DEF LoopInv
  <2> QED BY <1>2, <2>1, WireKept DEF SessionOver
<1> QED BY <1>6, <1>7, <1>8, <1>9, <1>10 DEF SenderInv

-----------------------------------------------------------------------------
\* A datagram handed to the network is never taken back.
LEMMA WireGrows ==
  ASSUME TypeOK, Next, NEW d \in Destination
  PROVE  wire[d] \subseteq wire'[d]
<1> USE DEF vars, queue, loop, identity, fanOut
<1>1. CASE SendTo
  <2>1. PICK ok \in BOOLEAN : send_to(Destinations[next], ok)
    BY <1>1 DEF SendTo
  <2>2. wire \in [Destination -> SUBSET Packet]
    BY DEF TypeOK
  <2> QED BY <2>1, <2>2 DEF send_to
<1>2. CASE FinishEvent \/ Release \/ Encode \/ Restart
  BY <1>2 DEF FinishEvent, Release, Encode, Restart
<1>3. CASE CheckStop \/ AcquireEvent \/ AcquireEmpty \/ AcquireClosed \/ AcquireInvalid
  BY <1>3 DEF CheckStop, AcquireEvent, AcquireEmpty, AcquireClosed, AcquireInvalid
<1>4. CASE CallRun \/ RequestStop \/ Produce
  BY <1>4 DEF CallRun, RequestStop, Produce
<1> QED BY <1>1, <1>2, <1>3, <1>4 DEF Next, Run

\* How a step moves the ingress stream: an event is published, or the one
\* on loan is released, or neither.
LEMMA StreamMoves ==
  ASSUME LoopInv, Next
  PROVE  \/ UNCHANGED <<sent, taken>>
         \/ \E e \in Event : sent' = Append(sent, e) /\ UNCHANGED taken
         \/ taken < Len(sent) /\ taken' = taken + 1 /\ UNCHANGED sent
<1> USE DEF vars, queue, loop, identity, fanOut
<1>1. CASE Produce
  BY <1>1 DEF Produce, Ingress!Publish, Ingress!Close
<1>2. CASE Release
  BY <1>2 DEF Release, Ingress!GiveBack, LoopInv
<1>3. CASE AcquireEvent \/ AcquireEmpty \/ AcquireClosed \/ AcquireInvalid \/ Restart
  BY <1>3 DEF AcquireEvent, AcquireEmpty, AcquireClosed, AcquireInvalid, Restart,
              Ingress!Lend, Ingress!ReportEmpty, Ingress!ReportClosed, Ingress!Abandon
<1>4. CASE CheckStop \/ CallRun \/ RequestStop \/ Encode \/ SendTo \/ FinishEvent
  BY <1>4 DEF CheckStop, CallRun, RequestStop, Encode, SendTo, FinishEvent
<1> QED BY <1>1, <1>2, <1>3, <1>4 DEF Next, Run

\* Every step of the sender and of its world preserves the invariant.
THEOREM SenderStep == SenderInv /\ [Next]_vars => SenderInv'
<1> SUFFICES ASSUME SenderInv, [Next]_vars PROVE SenderInv'
  OBVIOUS
<1>1. CASE CallRun \/ CheckStop \/ RequestStop BY <1>1, ControlStep
<1>2. CASE AcquireEvent BY <1>2, AcquireEventStep
<1>3. CASE AcquireEmpty \/ AcquireClosed \/ AcquireInvalid BY <1>3, AcquireNothingStep
<1>4. CASE Encode BY <1>4, EncodeStep
<1>5. CASE Release BY <1>5, ReleaseStep
<1>6. CASE SendTo BY <1>6, SendToStep
<1>7. CASE FinishEvent BY <1>7, FinishEventStep
<1>8. CASE Restart BY <1>8, RestartStep
<1>9. CASE Produce \/ UNCHANGED vars BY <1>9, ProduceStep
<1> QED BY <1>1, <1>2, <1>3, <1>4, <1>5, <1>6, <1>7, <1>8, <1>9 DEF Next, Run

\* The inductive invariant holds for any number of events, destinations,
\* failed sends, stop requests and sender restarts.
THEOREM SenderInvariance == Spec => []SenderInv
<1> QED BY InitSenderInv, SenderStep, PTL DEF Spec

\* The queue, the packet identity, the counters and the datagrams keep their
\* types; in particular packet_sequence_ never wraps to zero.
THEOREM SenderTypes == Spec => []TypeOK
<1>1. SenderInv => TypeOK
  BY DEF SenderInv
<1> QED BY <1>1, SenderInvariance, PTL

\* events_in, events_out, events_dropped and the send counters of run() add up
\* at every step, for any number of destinations.
THEOREM SenderBooksBalance == Spec => []Accounting
<1>1. SenderInv => Accounting
  BY DEF SenderInv
<1> QED BY <1>1, SenderInvariance, PTL

\* An event goes out under one session and packet sequence, in ingress order
\* within a session, whatever fails and however often the sender restarts.
THEOREM SequencesIdentifyEvents == Spec => []OneSequencePerEvent
<1>1. SenderInv => OneSequencePerEvent
  BY DEF SenderInv
<1> QED BY <1>1, SenderInvariance, PTL

\* run() returns with no event on loan, and on its own only from closed and
\* drained ingress.
THEOREM RunReturnsClean == Spec => []ReturnsClean
<1>1. SenderInv => ReturnsClean
  BY DEF SenderInv
<1> QED BY <1>1, SenderInvariance, PTL
-----------------------------------------------------------------------------
\* No datagram on the wire is ever mistaken for one of a later sender: a
\* sender that replaces another takes a session under which nothing was
\* sent, and within a session packet_sequence_ goes up one by one.
SessionsAreFresh ==
  [][/\ \A d \in Destination : wire[d] \subseteq wire'[d]
     /\ session' = session => packetSequence' \in {packetSequence, packetSequence + 1}
     /\ session' # session => \A p \in AllSent' : p.session # session']_vars

\* What a step does to the identity of the packets to come.
LEMMA IdentityMoves ==
  ASSUME SenderInv, Next
  PROVE  /\ session' = session => packetSequence' \in {packetSequence, packetSequence + 1}
         /\ session' # session => \A p \in AllSent' : p.session # session'
<1> USE DEF vars, queue, loop, identity, fanOut
<1>1. CASE FinishEvent
  <2>1. packetSequence \in 1..MaxSequence /\ MaxSequence \in Nat
    BY MaxSequenceAssumption DEF SenderInv, TypeOK
  <2>2. CASE packetSequence = MaxSequence
    BY <1>1, <2>2 DEF FinishEvent, EndSession
  <2>3. CASE packetSequence # MaxSequence
    <3>1. packetSequence' = (packetSequence + 1) % (MaxSequence + 1) /\ UNCHANGED session
      BY <1>1, <2>3 DEF FinishEvent, NextSequence
    <3>2. packetSequence + 1 \in 0..MaxSequence
      BY <2>1, <2>3
    <3>3. \A x \in 0..MaxSequence : x % (MaxSequence + 1) = x
      BY <2>1
    <3> QED BY <3>1, <3>2, <3>3
  <2> QED BY <2>2, <2>3
<1>2. CASE Restart
  <2>1. session' \notin used /\ UNCHANGED wire /\ session \in used
    BY <1>2 DEF Restart, SenderInv, WireInv
  <2>2. \A p \in AllSent : p.session \in used
    BY DEF SenderInv, WireInv
  <2>3. AllSent' = AllSent
    BY <2>1 DEF AllSent
  <2> QED BY <2>1, <2>2, <2>3
<1>3. CASE CheckStop \/ AcquireEvent \/ AcquireEmpty \/ AcquireClosed \/ AcquireInvalid
  BY <1>3 DEF CheckStop, AcquireEvent, AcquireEmpty, AcquireClosed, AcquireInvalid
<1>4. CASE Encode \/ Release \/ SendTo \/ CallRun \/ RequestStop \/ Produce
  BY <1>4 DEF Encode, Release, SendTo, CallRun, RequestStop, Produce
<1> QED BY <1>1, <1>2, <1>3, <1>4 DEF Next, Run

\* However often senders die, and wherever, their packets stay distinguishable.
THEOREM SendersNeverConfused == Spec => SessionsAreFresh
<1>1. ASSUME SenderInv, [Next]_vars
      PROVE  [/\ \A d \in Destination : wire[d] \subseteq wire'[d]
              /\ session' = session => packetSequence' \in {packetSequence, packetSequence + 1}
              /\ session' # session => \A p \in AllSent' : p.session # session']_vars
  <2>1. CASE Next
    <3>1. TypeOK
      BY <1>1 DEF SenderInv
    <3> QED BY <1>1, <2>1, <3>1, WireGrows, IdentityMoves
  <2>2. CASE UNCHANGED vars
    BY <2>2
  <2> QED BY <1>1, <2>1, <2>2
<1> QED BY <1>1, SenderInvariance, PTL DEF Spec, SessionsAreFresh
=============================================================================
