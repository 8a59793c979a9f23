--------------------------- MODULE ReceiverProofs ---------------------------
(***************************************************************************)
(* Proofs about Receiver for every set of sessions and events, every       *)
(* packet sequence bound and every sequence of datagrams.                  *)
(***************************************************************************)
EXTENDS Receiver, TLAPS

\* The packet between acceptance and publication is the detector's last; an
\* untouched detector is at zero.
DetectorInv ==
  /\ detector.session = NoSession => detector.last = 0
  /\ rPc = "publish" =>
       /\ packet \in Packet
       /\ packet.seq = detector.last
       /\ packet.session = detector.session

\* The inductive invariant behind the properties above.
ReceiverInv ==
  /\ TypeOK
  /\ DetectorInv
  /\ EverySequenceAccounted
  /\ EveryDatagramAccounted
  /\ DeliveredInOrder
  /\ ReturnLeavesClosed

\* The counters are numbers, and Bump() adds one to the counters it names.
LEMMA BumpFacts ==
  ASSUME ReceiverInv, NEW C
  PROVE  /\ Bump(C) \in [Counter -> Nat]
         /\ \A c \in Counter : rStats[c] \in Nat
         /\ \A c \in C \cap Counter : Bump(C)[c] = rStats[c] + 1
         /\ \A c \in Counter \ C : Bump(C)[c] = rStats[c]
<1>1. rStats \in [Counter -> Nat]
  BY DEF ReceiverInv, TypeOK
<1> QED BY <1>1 DEF Bump

\* A receiver before its first run().
LEMMA InitReceiverInv == Init => ReceiverInv
<1> SUFFICES ASSUME Init PROVE ReceiverInv
  OBVIOUS
<1> USE DEF Init, Egress!Init, NewDetector
<1>1. TypeOK
  <2>1. detector \in Detector
    BY MaxSequenceAssumption DEF Detector
  <2>2. rStats \in [Counter -> Nat] /\ eSent \in Seq(Event) /\ delivered \in Seq(Packet)
    OBVIOUS
  <2> QED BY <2>1, <2>2 DEF TypeOK
<1>2. DetectorInv /\ ReturnLeavesClosed
  BY DEF DetectorInv, ReturnLeavesClosed
<1>3. EverySequenceAccounted
  BY DEF EverySequenceAccounted, Counter
<1>4. EveryDatagramAccounted
  BY DEF EveryDatagramAccounted, Counter
<1>5. DeliveredInOrder
  BY DEF DeliveredInOrder, Counter
<1> QED BY <1>1, <1>2, <1>3, <1>4, <1>5 DEF ReceiverInv

\* Steps that leave the detector, the counters and the deliveries alone.
LEMMA QuietStep ==
  ASSUME ReceiverInv,
         UNCHANGED <<detector, rStats, delivered, eSent>>,
         eTaken' \in Nat, eHeld' \in BOOLEAN, eClosed' \in BOOLEAN,
         eClosed => eClosed',
         rStop' \in BOOLEAN,
         \/ UNCHANGED <<rPc, packet>>
         \/ /\ rPc # "publish" /\ UNCHANGED packet
            /\ rPc' \in {"check", "receive", "close"}
         \/ /\ rPc # "publish" /\ UNCHANGED packet
            /\ rPc' \in {"returned", "destroyed"} /\ eClosed'
  PROVE  ReceiverInv'
<1> USE DEF ReceiverInv
<1>1. TypeOK'
  BY DEF TypeOK
<1>2. DetectorInv' /\ ReturnLeavesClosed'
  BY DEF DetectorInv, ReturnLeavesClosed
<1>3. EverySequenceAccounted' /\ EveryDatagramAccounted'
  BY DEF EverySequenceAccounted, EveryDatagramAccounted
<1>4. DeliveredInOrder'
  BY DEF DeliveredInOrder
<1> QED BY <1>1, <1>2, <1>3, <1>4

\* Actions that handle no datagram.
LEMMA QuietActions ==
  ASSUME ReceiverInv,
         \/ CallRun \/ CheckStop \/ ReceiveNothing \/ CloseEgress
         \/ RequestStop \/ Destroy \/ Consume \/ UNCHANGED vars
  PROVE  ReceiverInv'
<1> USE DEF eQueue
<1>1. TypeOK
  BY DEF ReceiverInv
<1>2. CASE CallRun \/ CheckStop \/ ReceiveNothing
  BY <1>1, <1>2, QuietStep DEF CallRun, CheckStop, AfterCheck, LeaveLoop,
    ReceiveNothing, TypeOK
<1>3. CASE CloseEgress \/ Destroy
  BY <1>1, <1>3, QuietStep DEF CloseEgress, Destroy, Egress!Close, TypeOK
<1>4. CASE RequestStop \/ UNCHANGED vars
  BY <1>1, <1>4, QuietStep DEF RequestStop, vars, TypeOK
<1>5. CASE Consume
  <2>1. /\ eTaken' \in {eTaken, eTaken + 1} /\ eHeld' \in {eHeld, TRUE, FALSE}
        /\ UNCHANGED <<eSent, eClosed, rPc, rStop, detector, packet, rStats, delivered>>
    BY <1>5 DEF Consume, Egress!Lend, Egress!GiveBack, Egress!ReportClosed
  <2>2. eTaken' \in Nat
    <3>1. eTaken \in Nat
      BY <1>1 DEF TypeOK
    <3> QED BY <2>1, <3>1
  <2>3. eHeld' \in BOOLEAN /\ eClosed' \in BOOLEAN /\ rStop' \in BOOLEAN
    BY <1>1, <2>1, Zenon DEF TypeOK
  <2> QED BY <2>1, <2>2, <2>3, QuietStep
<1> QED BY <1>2, <1>3, <1>4, <1>5

LEMMA ReceiveMalformedStep ==
  ASSUME ReceiverInv, ReceiveMalformed
  PROVE  ReceiverInv'
<1> USE DEF ReceiverInv, ReceiveMalformed, LoopAgain, eQueue
<1>1. TypeOK'
  BY BumpFacts DEF TypeOK
<1>2. DetectorInv' /\ ReturnLeavesClosed'
  BY DEF DetectorInv, ReturnLeavesClosed
<1>3. EverySequenceAccounted'
  BY BumpFacts DEF EverySequenceAccounted, Counter
<1>4. EveryDatagramAccounted'
  BY BumpFacts DEF EveryDatagramAccounted, Counter
<1>5. DeliveredInOrder'
  BY BumpFacts DEF DeliveredInOrder, Counter
<1> QED BY <1>1, <1>2, <1>3, <1>4, <1>5

LEMMA ReceiveErrorStep ==
  ASSUME ReceiverInv, ReceiveError
  PROVE  ReceiverInv'
<1> USE DEF ReceiverInv, ReceiveError, LeaveLoop, eQueue
<1>1. TypeOK'
  BY BumpFacts DEF TypeOK
<1>2. DetectorInv' /\ ReturnLeavesClosed'
  BY DEF DetectorInv, ReturnLeavesClosed
<1>3. EverySequenceAccounted'
  BY BumpFacts DEF EverySequenceAccounted, Counter
<1>4. EveryDatagramAccounted'
  BY BumpFacts DEF EveryDatagramAccounted, Counter
<1>5. DeliveredInOrder'
  BY BumpFacts DEF DeliveredInOrder, Counter
<1> QED BY <1>1, <1>2, <1>3, <1>4, <1>5

LEMMA DropPacketStep ==
  ASSUME ReceiverInv, NEW p \in Packet, DropPacket(p)
  PROVE  ReceiverInv'
<1> USE DEF ReceiverInv, eQueue
<1>1. PICK c \in {"duplicate_or_old_packets", "wrong_session_packets"} :
        rStats' = Bump({"packets_received", "events_dropped", c})
  BY DEF DropPacket
<1>2. rPc = "receive" /\ rPc' = "check"
      /\ UNCHANGED <<eQueue, rStop, detector, packet, delivered>>
  BY DEF DropPacket, LoopAgain
<1>3. TypeOK'
  BY <1>1, <1>2, BumpFacts DEF TypeOK
<1>4. DetectorInv' /\ ReturnLeavesClosed'
  BY <1>2 DEF DetectorInv, ReturnLeavesClosed
<1>5. EverySequenceAccounted'
  BY <1>1, <1>2, BumpFacts DEF EverySequenceAccounted, Counter
<1>6. EveryDatagramAccounted'
  BY <1>1, <1>2, BumpFacts DEF EveryDatagramAccounted, Counter
<1>7. DeliveredInOrder'
  BY <1>1, <1>2, BumpFacts DEF DeliveredInOrder, Counter
<1> QED BY <1>3, <1>4, <1>5, <1>6, <1>7

\* An accepted packet is ahead of the detector, so its gap does not wrap.
LEMMA AcceptedIsAhead ==
  ASSUME ReceiverInv, NEW p \in Packet,
         Status(detector, p.session, p.seq) = "Accepted"
  PROVE  /\ p.seq \in Nat /\ detector.last \in Nat
         /\ detector.last < p.seq
         /\ Gap(detector, p.seq) = p.seq - detector.last - 1
         /\ Gap(detector, p.seq) \in Nat
         /\ detector.session \in {NoSession, p.session}
<1>1. p.session \in Session /\ p.seq \in 1..MaxSequence
  BY DEF Packet
<1>2. detector.session \in Session \cup {NoSession} /\ detector.last \in 0..MaxSequence
  BY DEF ReceiverInv, TypeOK, Detector
<1>3. p.seq \in Nat /\ p.seq >= 1 /\ detector.last \in Nat
  BY <1>1, <1>2, MaxSequenceAssumption
<1>4. detector.session = NoSession => detector.last = 0
  BY DEF ReceiverInv, DetectorInv
<1>5. detector.session \in {NoSession, p.session} /\ detector.last < p.seq
  <2>1. CASE detector.session = NoSession
    BY <2>1, <1>3, <1>4
  <2>2. CASE detector.session # NoSession
    BY <2>2, <1>3 DEF Status
  <2> QED BY <2>1, <2>2
<1>6. Gap(detector, p.seq) = p.seq - detector.last - 1
  BY <1>3, <1>5, MaxSequenceAssumption DEF Gap, Sub64
<1> QED BY <1>3, <1>5, <1>6

LEMMA AcceptPacketStep ==
  ASSUME ReceiverInv, NEW p \in Packet, AcceptPacket(p)
  PROVE  ReceiverInv'
<1> USE DEF ReceiverInv, eQueue
<1> DEFINE gap == Gap(detector, p.seq)
           C == {"packets_received", "events_in"} \cup
                  (IF gap > 0 THEN {"gaps_detected"} ELSE {})
<1>1. /\ rPc = "receive" /\ rPc' = "publish" /\ packet' = p
      /\ Status(detector, p.session, p.seq) = "Accepted"
      /\ detector' = [session |-> p.session, last |-> p.seq]
      /\ rStats' = [Bump(C) EXCEPT !["packets_missed"] = @ + gap]
      /\ UNCHANGED <<eQueue, rStop, delivered>>
  BY DEF AcceptPacket, Advance
<1>2. /\ p.seq \in Nat /\ detector.last \in Nat /\ detector.last < p.seq
      /\ gap = p.seq - detector.last - 1 /\ gap \in Nat
      /\ detector.session \in {NoSession, p.session}
  BY <1>1, AcceptedIsAhead
<1>3. p.session \in Session /\ p.seq \in 1..MaxSequence
  BY DEF Packet
<1> HIDE DEF gap
<1>4. /\ rStats' \in [Counter -> Nat]
      /\ rStats'["packets_missed"] = rStats["packets_missed"] + gap
      /\ rStats'["gaps_detected"] = rStats["gaps_detected"] + (IF gap > 0 THEN 1 ELSE 0)
      /\ rStats'["packets_received"] = rStats["packets_received"] + 1
      /\ rStats'["events_in"] = rStats["events_in"] + 1
      /\ \A c \in Counter \ {"packets_missed", "gaps_detected", "packets_received",
                             "events_in"} : rStats'[c] = rStats[c]
  <2>1. /\ Bump(C) \in [Counter -> Nat]
        /\ \A c \in Counter : rStats[c] \in Nat
        /\ \A c \in C \cap Counter : Bump(C)[c] = rStats[c] + 1
        /\ \A c \in Counter \ C : Bump(C)[c] = rStats[c]
    BY BumpFacts
  <2>2. CASE gap > 0
    <3>1. C = {"packets_received", "events_in", "gaps_detected"}
      BY <2>2
    <3> HIDE DEF C
    <3> QED BY <1>1, <1>2, <2>1, <2>2, <3>1 DEF Counter
  <2>3. CASE ~(gap > 0)
    <3>1. C = {"packets_received", "events_in"}
      BY <2>3
    <3> HIDE DEF C
    <3> QED BY <1>1, <1>2, <2>1, <2>3, <3>1 DEF Counter
  <2> QED BY <2>2, <2>3
<1>5. \A c \in Counter : rStats[c] \in Nat
  BY DEF TypeOK
<1>6. TypeOK'
  <2>1. detector' \in Detector
    BY <1>1, <1>3, MaxSequenceAssumption DEF Detector
  <2> QED BY <1>1, <1>4, <2>1 DEF TypeOK
<1>7. DetectorInv' /\ ReturnLeavesClosed'
  BY <1>1, <1>3, SessionAssumption DEF DetectorInv, ReturnLeavesClosed
<1>8. EverySequenceAccounted'
  BY <1>1, <1>2, <1>4, <1>5 DEF EverySequenceAccounted, Counter
<1>9. EveryDatagramAccounted'
  <2>1. /\ UNCHANGED <<rStats["malformed_packets"], rStats["duplicate_or_old_packets"],
                        rStats["wrong_session_packets"], rStats["egress_full"]>>
        /\ UNCHANGED <<rStats["egress_errors"], rStats["events_dropped"],
                        rStats["events_out"]>>
    BY <1>4 DEF Counter
  <2>2. /\ rStats["packets_received"] \in Nat /\ rStats["events_in"] \in Nat
        /\ rStats["malformed_packets"] \in Nat /\ rStats["events_out"] \in Nat
        /\ rStats["duplicate_or_old_packets"] \in Nat
        /\ rStats["wrong_session_packets"] \in Nat
        /\ rStats["egress_full"] \in Nat /\ rStats["egress_errors"] \in Nat
    BY <1>5 DEF Counter
  <2> QED BY <1>1, <1>4, <2>1, <2>2 DEF EveryDatagramAccounted
<1>10. DeliveredInOrder'
  <2>1. rStats'["events_out"] = rStats["events_out"]
    BY <1>4 DEF Counter
  <2> SUFFICES ASSUME NEW i \in 1..Len(delivered)
               PROVE  /\ delivered[i].session = p.session
                      /\ delivered[i].seq < p.seq
                      /\ delivered[i].seq <= p.seq
    BY <1>1, <2>1 DEF DeliveredInOrder
  <2>2. /\ delivered[i].session = detector.session
        /\ delivered[i].seq <= detector.last
    BY DEF DeliveredInOrder
  <2>3. delivered[i].session \in Session /\ delivered[i].seq \in Nat
    <3>1. delivered[i] \in Packet
      BY DEF TypeOK
    <3> QED BY <3>1, MaxSequenceAssumption DEF Packet
  <2> QED BY <1>2, <2>2, <2>3, SessionAssumption
<1> QED BY <1>6, <1>7, <1>8, <1>9, <1>10

LEMMA PublishRefusedStep ==
  ASSUME ReceiverInv, PublishRefused
  PROVE  ReceiverInv'
<1> USE DEF ReceiverInv, eQueue
<1>1. PICK c \in {"egress_full", "egress_errors"} :
        rStats' = Bump({"events_dropped", c})
  BY DEF PublishRefused, RefusedCounters
<1>2. /\ rPc = "publish" /\ rPc' \in {"check", "close"} /\ packet' = NoPacket
      /\ UNCHANGED <<eQueue, rStop, detector, delivered>>
  BY DEF PublishRefused, LeaveLoop, LoopAgain
<1>3. TypeOK'
  BY <1>1, <1>2, BumpFacts DEF TypeOK
<1>4. DetectorInv' /\ ReturnLeavesClosed'
  BY <1>2 DEF DetectorInv, ReturnLeavesClosed
<1>5. EverySequenceAccounted'
  BY <1>1, <1>2, BumpFacts DEF EverySequenceAccounted, Counter
<1>6. EveryDatagramAccounted'
  BY <1>1, <1>2, BumpFacts DEF EveryDatagramAccounted, Counter
<1>7. DeliveredInOrder'
  BY <1>1, <1>2, BumpFacts DEF DeliveredInOrder, Counter
<1> QED BY <1>3, <1>4, <1>5, <1>6, <1>7

LEMMA AppendFacts ==
  ASSUME NEW T, NEW s \in Seq(T), NEW x \in T
  PROVE  /\ Append(s, x) \in Seq(T)
         /\ Len(Append(s, x)) = Len(s) + 1
         /\ Len(s) \in Nat
         /\ \A i \in 1..Len(s) : Append(s, x)[i] = s[i]
         /\ Append(s, x)[Len(s) + 1] = x
  OBVIOUS

LEMMA PublishOkStep ==
  ASSUME ReceiverInv, PublishOk
  PROVE  ReceiverInv'
<1> USE DEF ReceiverInv
<1> DEFINE n == Len(delivered)
<1>1. /\ rPc = "publish" /\ rPc' = "check" /\ packet' = NoPacket
      /\ rStats' = Bump({"events_out"})
      /\ delivered' = Append(delivered, packet)
      /\ eSent' = Append(eSent, packet.event)
      /\ UNCHANGED <<eTaken, eHeld, eClosed, rStop, detector>>
  BY DEF PublishOk, LoopAgain, Egress!Publish
<1>2. /\ packet \in Packet /\ packet.event \in Event
      /\ packet.seq = detector.last /\ packet.session = detector.session
  BY <1>1 DEF DetectorInv, Packet
<1>3. /\ delivered \in Seq(Packet) /\ eSent \in Seq(Event)
      /\ Len(eSent) = n /\ rStats["events_out"] = n
  BY DEF TypeOK, DeliveredInOrder
<1>4. /\ delivered' \in Seq(Packet) /\ Len(delivered') = n + 1 /\ n \in Nat
      /\ \A i \in 1..n : delivered'[i] = delivered[i]
      /\ delivered'[n + 1] = packet
  BY <1>1, <1>2, <1>3, AppendFacts
<1>5. /\ eSent' \in Seq(Event) /\ Len(eSent') = n + 1
      /\ \A i \in 1..n : eSent'[i] = eSent[i]
      /\ eSent'[n + 1] = packet.event
  BY <1>1, <1>2, <1>3, AppendFacts
<1>11. /\ \A c \in Counter : rStats[c] \in Nat
      /\ rStats'["events_out"] = rStats["events_out"] + 1
      /\ \A c \in Counter \ {"events_out"} : rStats'[c] = rStats[c]
  <2> DEFINE C == {"events_out"}
  <2>1. "events_out" \in C \cap Counter
    BY DEF Counter
  <2>2. /\ \A c \in Counter : rStats[c] \in Nat
        /\ \A c \in C \cap Counter : Bump(C)[c] = rStats[c] + 1
        /\ \A c \in Counter \ C : Bump(C)[c] = rStats[c]
    BY BumpFacts
  <2> QED BY <1>1, <2>1, <2>2
<1>6. TypeOK'
  BY <1>1, <1>4, <1>5, BumpFacts DEF TypeOK
<1>7. DetectorInv' /\ ReturnLeavesClosed'
  BY <1>1 DEF DetectorInv, ReturnLeavesClosed
<1>8. EverySequenceAccounted'
  BY <1>1, BumpFacts DEF EverySequenceAccounted, Counter
<1>9. EveryDatagramAccounted'
  <2>1. /\ UNCHANGED <<rStats["malformed_packets"], rStats["duplicate_or_old_packets"],
                        rStats["wrong_session_packets"], rStats["egress_full"]>>
        /\ UNCHANGED <<rStats["egress_errors"], rStats["events_dropped"],
                        rStats["packets_received"], rStats["events_in"]>>
    BY <1>11 DEF Counter
  <2>2. /\ rStats["egress_full"] \in Nat /\ rStats["egress_errors"] \in Nat
        /\ rStats["events_out"] \in Nat
    BY <1>11 DEF Counter
  <2> QED BY <1>1, <1>11, <2>1, <2>2 DEF EveryDatagramAccounted
<1>10. DeliveredInOrder'
  <2>1. rStats'["events_out"] = n + 1
    BY <1>3, <1>11
  <2> HIDE DEF n
  <2>2. ASSUME NEW i \in 1..n + 1
        PROVE  /\ eSent'[i] = delivered'[i].event
               /\ delivered'[i].session = detector.session
               /\ delivered'[i].seq <= detector.last
               /\ \A j \in 1..i - 1 : delivered'[j].seq < delivered'[i].seq
    <3>1. CASE i \in 1..n
      <4>1. \A j \in 1..i - 1 : j \in 1..n
        BY <3>1, <1>4
      <4>2. /\ eSent[i] = delivered[i].event
            /\ delivered[i].session = detector.session
            /\ delivered[i].seq <= detector.last
            /\ \A j \in 1..i - 1 : delivered[j].seq < delivered[i].seq
        BY <3>1 DEF DeliveredInOrder, n
      <4> QED BY <3>1, <4>1, <4>2, <1>4, <1>5
    <3>2. CASE i = n + 1
      <4>1. detector.last \in Int
        BY MaxSequenceAssumption DEF TypeOK, Detector
      <4>2. 1..i - 1 = 1..n
        BY <3>2, <1>4
      <4>3. \A j \in 1..n : delivered[j].seq < packet.seq
        BY <1>1 DEF DeliveredInOrder, n
      <4> QED BY <3>2, <4>1, <4>2, <4>3, <1>2, <1>4, <1>5
    <3> QED BY <3>1, <3>2, <1>4
  <2> QED BY <2>1, <2>2, <1>1, <1>4, <1>5 DEF DeliveredInOrder
<1> QED BY <1>6, <1>7, <1>8, <1>9, <1>10

-----------------------------------------------------------------------------
\* What a step that takes no datagram may do with the packets it has.
LEMMA LocalMoves ==
  ASSUME Local
  PROVE  /\ UNCHANGED detector
         /\ rPc' = "publish" => rPc = "publish" /\ UNCHANGED packet
         /\ \/ UNCHANGED <<delivered, eSent>>
            \/ /\ rPc = "publish" /\ delivered' = Append(delivered, packet)
               /\ eSent' = Append(eSent, packet.event)
<1> USE DEF LeaveLoop, LoopAgain, AfterCheck, eQueue
<1>1. CASE PublishOk
  BY <1>1 DEF PublishOk, Egress!Publish
<1>2. CASE PublishRefused
  BY <1>2 DEF PublishRefused
<1>3. CASE Consume
  BY <1>3 DEF Consume, Egress!Lend, Egress!GiveBack, Egress!ReportClosed
<1>4. CASE CallRun \/ CheckStop \/ ReceiveNothing \/ ReceiveError \/ ReceiveMalformed
           \/ CloseEgress \/ RequestStop \/ Destroy
  BY <1>4 DEF CallRun, CheckStop, ReceiveNothing, ReceiveError, ReceiveMalformed,
              CloseEgress, RequestStop, Destroy, Egress!Close
<1> QED BY <1>1, <1>2, <1>3, <1>4 DEF Local, RunStep

\* What a datagram may do: nothing to the packets there are, or it becomes
\* the detector's last and the packet to publish.
LEMMA ReceiveMoves ==
  ASSUME NEW p, Receive(p)
  PROVE  /\ UNCHANGED <<delivered, eSent>>
         /\ \/ UNCHANGED detector /\ rPc' = "check"
            \/ /\ detector' = [session |-> p.session, last |-> p.seq]
               /\ packet' = p
BY DEF Receive, DropPacket, LoopAgain, AcceptPacket, Advance, eQueue

\* Every step of the receiver and of its world preserves the invariant.
THEOREM ReceiverStep == ReceiverInv /\ [Next]_vars => ReceiverInv'
<1> SUFFICES ASSUME ReceiverInv, [Next]_vars PROVE ReceiverInv'
  OBVIOUS
<1>1. CASE \/ CallRun \/ CheckStop \/ ReceiveNothing \/ CloseEgress
           \/ RequestStop \/ Destroy \/ Consume \/ UNCHANGED vars
  BY <1>1, QuietActions
<1>2. CASE ReceiveMalformed BY <1>2, ReceiveMalformedStep
<1>3. CASE ReceiveError BY <1>3, ReceiveErrorStep
<1>4. CASE PublishOk BY <1>4, PublishOkStep
<1>5. CASE PublishRefused BY <1>5, PublishRefusedStep
<1>6. ASSUME NEW p \in Packet, DropPacket(p) PROVE ReceiverInv'
  BY <1>6, DropPacketStep
<1>7. ASSUME NEW p \in Packet, AcceptPacket(p) PROVE ReceiverInv'
  BY <1>7, AcceptPacketStep
<1> QED BY <1>1, <1>2, <1>3, <1>4, <1>5, <1>6, <1>7
        DEF Next, Local, RunStep, Receive

\* The inductive invariant holds whatever the network delivers.
THEOREM ReceiverInvariance == Spec => []ReceiverInv
<1> QED BY InitReceiverInv, ReceiverStep, PTL DEF Spec

\* Each packet sequence up to the highest accepted one is an accepted packet
\* or counted once as missed.
THEOREM SequencesAccounted == Spec => []EverySequenceAccounted
<1>1. ReceiverInv => EverySequenceAccounted
  BY DEF ReceiverInv
<1> QED BY <1>1, ReceiverInvariance, PTL

\* Each datagram and each decoded event is counted in one way only.
THEOREM DatagramsAccounted == Spec => []EveryDatagramAccounted
<1>1. ReceiverInv => EveryDatagramAccounted
  BY DEF ReceiverInv
<1> QED BY <1>1, ReceiverInvariance, PTL

\* One session, in sequence order, at most once each.
THEOREM DeliveryInOrder == Spec => []DeliveredInOrder
<1>1. ReceiverInv => DeliveredInOrder
  BY DEF ReceiverInv
<1> QED BY <1>1, ReceiverInvariance, PTL

\* Egress is closed however run() ended.
THEOREM EgressLeftClosed == Spec => []ReturnLeavesClosed
<1>1. ReceiverInv => ReturnLeavesClosed
  BY DEF ReceiverInv
<1> QED BY <1>1, ReceiverInvariance, PTL
-----------------------------------------------------------------------------
\* The gap detector never leaves its session and never goes back, what was
\* published stays published, and no counter of the receiver shrinks.
OnlyForward ==
  [][/\ detector.session # NoSession => detector'.session = detector.session
     /\ detector'.last >= detector.last
     /\ delivered' # delivered => \E p \in Packet : delivered' = Append(delivered, p)
     /\ \A c \in Counter : rStats'[c] >= rStats[c]]_vars

\* The counters of every step are those before it, or more.
LEMMA CountersGrow ==
  ASSUME ReceiverInv, Next
  PROVE  \A c \in Counter : rStats'[c] >= rStats[c]
<1>1. rStats \in [Counter -> Nat]
  BY DEF ReceiverInv, TypeOK
<1>2. ASSUME NEW C PROVE \A c \in Counter : Bump(C)[c] >= rStats[c] /\ Bump(C)[c] \in Nat
  BY <1>1 DEF Bump
<1>3. ASSUME UNCHANGED rStats PROVE \A c \in Counter : rStats'[c] >= rStats[c]
  BY <1>1, <1>3
<1>4. CASE CallRun \/ CheckStop \/ ReceiveNothing \/ CloseEgress
           \/ RequestStop \/ Destroy \/ Consume
  BY <1>3, <1>4 DEF CallRun, CheckStop, ReceiveNothing, CloseEgress, RequestStop, Destroy,
     Consume
<1>5. CASE ReceiveMalformed \/ ReceiveError
  BY <1>2, <1>5 DEF ReceiveMalformed, ReceiveError
<1>6. CASE PublishOk \/ PublishRefused
  BY <1>2, <1>6 DEF PublishOk, PublishRefused
<1>7. ASSUME NEW p \in Packet, DropPacket(p) PROVE \A c \in Counter : rStats'[c] >= rStats[c]
  BY <1>2, <1>7 DEF DropPacket
<1>8. ASSUME NEW p \in Packet, AcceptPacket(p) PROVE \A c \in Counter : rStats'[c] >= rStats[c]
  <2> DEFINE gap == Gap(detector, p.seq)
             C == {"packets_received", "events_in"} \cup
                    IF gap > 0 THEN {"gaps_detected"} ELSE {}
  <2>1. gap \in Nat
    BY <1>8, AcceptedIsAhead DEF AcceptPacket
  <2>2. rStats' = [Bump(C) EXCEPT !["packets_missed"] = @ + gap]
    BY <1>8 DEF AcceptPacket
  <2> HIDE DEF gap, C
  <2>3. DOMAIN Bump(C) = Counter
    BY DEF Bump
  <2>4. ASSUME NEW c \in Counter PROVE rStats'[c] >= rStats[c]
    <3>1. Bump(C)[c] >= rStats[c] /\ Bump(C)[c] \in Nat /\ rStats[c] \in Nat
      BY <1>1, <1>2
    <3>2. rStats'[c] = IF c = "packets_missed" THEN Bump(C)[c] + gap ELSE Bump(C)[c]
      BY <2>2, <2>3
    <3> QED BY <2>1, <3>1, <3>2
  <2> QED BY <2>4
<1> QED BY <1>4, <1>5, <1>6, <1>7, <1>8 DEF Next, Local, RunStep, Receive

\* Whatever arrives, in whatever order and from whatever session, the
\* receiver only moves forward.
THEOREM ReceiverOnlyForward == Spec => OnlyForward
<1>1. ASSUME ReceiverInv, [Next]_vars
      PROVE  [/\ detector.session # NoSession => detector'.session = detector.session
              /\ detector'.last >= detector.last
              /\ delivered' # delivered => \E p \in Packet : delivered' = Append(delivered, p)
              /\ \A c \in Counter : rStats'[c] >= rStats[c]]_vars
  <2>1. CASE UNCHANGED vars
    BY <2>1
  <2>2. detector.last \in Nat
    BY <1>1, MaxSequenceAssumption DEF ReceiverInv, TypeOK, Detector
  <2>3. CASE Local
    <3>1. /\ UNCHANGED detector
          /\ delivered' = delivered \/ (rPc = "publish" /\ delivered' = Append(delivered, packet))
      BY <2>3, LocalMoves
    <3>2. rPc = "publish" => packet \in Packet
      BY <1>1 DEF ReceiverInv, DetectorInv
    <3>3. Next
      BY <2>3 DEF Next
    <3> QED BY <1>1, <2>2, <3>1, <3>2, <3>3, CountersGrow
  <2>4. ASSUME NEW p \in Packet, Receive(p)
        PROVE  /\ detector.session # NoSession => detector'.session = detector.session
               /\ detector'.last >= detector.last
               /\ delivered' = delivered
    <3>1. CASE DropPacket(p)
      BY <2>2, <3>1 DEF DropPacket
    <3>2. CASE AcceptPacket(p)
      <4>1. detector.last < p.seq /\ p.seq \in Nat /\ detector.session \in {NoSession, p.session}
        BY <1>1, <3>2, AcceptedIsAhead DEF AcceptPacket
      <4> QED BY <2>2, <3>2, <4>1 DEF AcceptPacket, Advance
    <3> QED BY <2>4, <3>1, <3>2 DEF Receive
  <2>5. Next => \A c \in Counter : rStats'[c] >= rStats[c]
    BY <1>1, CountersGrow
  <2> QED BY <1>1, <2>1, <2>3, <2>4, <2>5 DEF Next
<1> QED BY <1>1, ReceiverInvariance, PTL DEF Spec, OnlyForward
=============================================================================
