---------------------------- MODULE EngineProofs ----------------------------
(***************************************************************************)
(* Proofs about the pipeline for every set of events, destinations and     *)
(* sessions and every behaviour of UDP: the invariants of the sender and   *)
(* of the receiver, joined by where the receiver's packets came from.      *)
(***************************************************************************)
EXTENDS Engine, TLAPS

SP == INSTANCE SenderProofs WITH TooLarge <- IngressTooLarge
RP == INSTANCE ReceiverProofs WITH TooLarge <- EgressTooLarge, Position <- 1..MaxPosition

\* Everything the receiver knows of the sender it learnt from a datagram that
\* is, and stays, among those sent to it.
Provenance ==
  /\ \A i \in 1..Len(delivered) : delivered[i] \in wire[Here]
  /\ rPc = "publish" => packet \in wire[Here]
  /\ detector.session # NoSession =>
       \E p \in wire[Here] : p.session = detector.session /\ p.seq = detector.last

\* The inductive invariant behind the properties of the pipeline.
EngineInv == SP!SenderInv /\ RP!ReceiverInv /\ Provenance

-----------------------------------------------------------------------------
(***************************************************************************)
(* The pipeline's sender and receiver are those the proofs of the two      *)
(* components are about.                                                   *)
(***************************************************************************)
LEMMA SameSenderInit == S!Init => SP!Init
BY DEF S!Init, SP!Init, S!Ingress!Init, SP!Ingress!Init, S!NoStats, SP!NoStats,
       S!Counter, SP!Counter

\* The receiver inside Engine and the one of its proofs are one specification.
LEMMA SameReceiverInit == R!Init => RP!Init
BY DEF R!Init, RP!Init, R!Egress!Init, RP!Egress!Init, R!NewDetector, RP!NewDetector,
       R!Counter, RP!Counter

\* Each action of the sender inside Engine is that action of SenderProofs.
LEMMA SameSenderNext == S!Next => SP!Next
<1> USE DEF S!queue, SP!queue, S!identity, SP!identity, S!fanOut, SP!fanOut, S!loop, SP!loop,
            S!Bump, SP!Bump, S!Counter, SP!Counter
<1>1. S!CallRun \/ S!CheckStop \/ S!RequestStop => SP!CallRun \/ SP!CheckStop \/ SP!RequestStop
  BY DEF S!CallRun, SP!CallRun, S!CheckStop, SP!CheckStop, S!RequestStop, SP!RequestStop
<1>2. S!AcquireEvent => SP!AcquireEvent
  BY DEF S!AcquireEvent, SP!AcquireEvent, S!Ingress!Lend, SP!Ingress!Lend
<1>3. S!AcquireEmpty => SP!AcquireEmpty
  BY DEF S!AcquireEmpty, SP!AcquireEmpty, S!Ingress!ReportEmpty, SP!Ingress!ReportEmpty
<1>4. S!AcquireClosed => SP!AcquireClosed
  BY DEF S!AcquireClosed, SP!AcquireClosed, S!Ingress!ReportClosed, SP!Ingress!ReportClosed
<1>5. S!AcquireInvalid => SP!AcquireInvalid
  BY DEF S!AcquireInvalid, SP!AcquireInvalid
<1>6. S!Encode => SP!Encode
  BY DEF S!Encode, SP!Encode, S!Encoded, SP!Encoded
<1>7. S!Release => SP!Release
  BY DEF S!Release, SP!Release, S!Ingress!GiveBack, SP!Ingress!GiveBack
<1>8. S!SendTo => SP!SendTo
  BY DEF S!SendTo, SP!SendTo, S!send_to, SP!send_to, S!AfterSend, SP!AfterSend
<1>9. S!FinishEvent => SP!FinishEvent
  BY DEF S!FinishEvent, SP!FinishEvent, S!EndSession, SP!EndSession, S!NextSequence,
         SP!NextSequence
<1>10. S!Restart => SP!Restart
  BY DEF S!Restart, SP!Restart, S!Ingress!Abandon, SP!Ingress!Abandon, S!NoStats, SP!NoStats
<1>11. S!Produce => SP!Produce
  BY DEF S!Produce, SP!Produce, S!Ingress!Publish, SP!Ingress!Publish, S!Ingress!Close,
         SP!Ingress!Close
<1> QED BY <1>1, <1>2, <1>3, <1>4, <1>5, <1>6, <1>7, <1>8, <1>9, <1>10, <1>11
        DEF S!Next, SP!Next, S!Run, SP!Run

\* Each action of the receiver's thread, likewise.
LEMMA SameReceiverLocal == R!Local => RP!Local
<1> USE DEF R!eQueue, RP!eQueue, R!Bump, RP!Bump, R!Counter, RP!Counter,
            R!MoreInput, RP!MoreInput, R!LeaveLoop, RP!LeaveLoop,
            R!LoopAgain, RP!LoopAgain
<1>1. R!CallRun \/ R!CheckStop => RP!CallRun \/ RP!CheckStop
  BY DEF R!CallRun, RP!CallRun, R!CheckStop, RP!CheckStop, R!AfterCheck, RP!AfterCheck
<1>2. R!RequestStop \/ R!ReceiveNothing => RP!RequestStop \/ RP!ReceiveNothing
  BY DEF R!RequestStop, RP!RequestStop, R!ReceiveNothing, RP!ReceiveNothing
<1>3. R!ReceiveError \/ R!ReceiveMalformed => RP!ReceiveError \/ RP!ReceiveMalformed
  BY DEF R!ReceiveError, RP!ReceiveError, R!ReceiveMalformed, RP!ReceiveMalformed
<1>4. R!PublishOk => RP!PublishOk
  BY DEF R!PublishOk, RP!PublishOk, R!Egress!Publish, RP!Egress!Publish
<1>5. R!PublishRefused => RP!PublishRefused
  BY DEF R!PublishRefused, RP!PublishRefused, R!PublishFails, RP!PublishFails,
         R!RefusedCounters, RP!RefusedCounters
<1>6. R!CloseEgress \/ R!Destroy => RP!CloseEgress \/ RP!Destroy
  BY DEF R!CloseEgress, RP!CloseEgress, R!Destroy, RP!Destroy, R!Egress!Close,
         RP!Egress!Close
<1>7. R!Consume => RP!Consume
  BY DEF R!Consume, RP!Consume, R!Egress!Lend, RP!Egress!Lend, R!Egress!GiveBack,
         RP!Egress!GiveBack, R!Egress!ReportClosed, RP!Egress!ReportClosed
<1> QED BY <1>1, <1>2, <1>3, <1>4, <1>5, <1>6, <1>7
        DEF R!Local, RP!Local, R!RunStep, RP!RunStep

\* The receive() of a packet, likewise.
LEMMA SameReceive ==
  ASSUME NEW p, R!Receive(p)
  PROVE  RP!Receive(p)
<1> USE DEF R!eQueue, RP!eQueue, R!Bump, RP!Bump, R!Counter, RP!Counter,
            R!MoreInput, RP!MoreInput, R!Status, RP!Status
<1>1. CASE R!DropPacket(p)
  BY <1>1 DEF R!DropPacket, RP!DropPacket, RP!Receive, R!LoopAgain, RP!LoopAgain
<1>2. CASE R!AcceptPacket(p)
  BY <1>2 DEF R!AcceptPacket, RP!AcceptPacket, R!Gap, RP!Gap, R!Sub64, RP!Sub64,
              R!Advance, RP!Advance, RP!Receive
<1> QED BY <1>1, <1>2 DEF R!Receive

-----------------------------------------------------------------------------
\* A datagram on the wire is a packet to both sides.
LEMMA WireTypes ==
  ASSUME SP!SenderInv
  PROVE  /\ SP!TypeOK /\ wire[Here] \subseteq SP!Packet /\ wire[Here] \subseteq RP!Packet
         /\ wire[Here] \subseteq SP!AllSent
<1>1. SP!TypeOK
  BY DEF SP!SenderInv
<1>2. wire \in [Destination -> SUBSET SP!Packet]
  BY <1>1 DEF SP!TypeOK
<1>3. SP!Packet = RP!Packet
  BY DEF SP!Packet, RP!Packet
<1> QED BY <1>1, <1>2, <1>3, HereAssumption DEF SP!AllSent

\* A step of the receiver leaves the sender's invariant as it is.
LEMMA SenderVars == UNCHANGED senderVars => SP!SenderInv' = SP!SenderInv /\ UNCHANGED SP!vars
<1> SUFFICES ASSUME UNCHANGED senderVars
             PROVE  SP!SenderInv' = SP!SenderInv /\ UNCHANGED SP!vars
  OBVIOUS
<1>1. UNCHANGED SP!vars
  BY DEF senderVars, SP!vars, SP!queue, SP!loop, SP!identity, SP!fanOut
<1> QED BY <1>1 DEF senderVars, SP!SenderInv, SP!TypeOK, SP!LoopInv, SP!WireInv,
            SP!OneSequencePerEvent, SP!Accounting, SP!ReturnsClean, SP!AllSent,
            SP!SessionOver, SP!Encoded

\* Before the first event nothing was sent, so nothing was received.
LEMMA InitEngineInv == Init => EngineInv
<1> SUFFICES ASSUME Init PROVE EngineInv
  OBVIOUS
<1>1. SP!SenderInv
  BY SameSenderInit, SP!InitSenderInv, SenderAssumption DEF Init
<1>2. RP!ReceiverInv
  BY SameReceiverInit, RP!InitReceiverInv, SenderAssumption, ReceiverAssumption DEF Init
<1>3. Provenance
  BY DEF Init, R!Init, R!NewDetector, Provenance
<1> QED BY <1>1, <1>2, <1>3 DEF EngineInv

\* What the sender sends later does not unsend what the receiver has seen.
LEMMA SenderSideStep ==
  ASSUME EngineInv, SenderSide
  PROVE  EngineInv'
<1>1. SP!SenderInv'
  BY SameSenderNext, SP!SenderStep, SenderAssumption DEF EngineInv, SenderSide
<1>2. RP!ReceiverInv'
  <2>1. UNCHANGED RP!vars
    BY DEF SenderSide, receiverVars, RP!vars, RP!eQueue
  <2> QED BY <2>1, RP!ReceiverStep, SenderAssumption, ReceiverAssumption DEF EngineInv
<1>3. wire[Here] \subseteq wire'[Here]
  BY WireTypes, SameSenderNext, SP!WireGrows, SenderAssumption, HereAssumption
     DEF EngineInv, SenderSide
<1>4. Provenance'
  BY <1>3 DEF EngineInv, SenderSide, receiverVars, Provenance
<1> QED BY <1>1, <1>2, <1>4 DEF EngineInv

\* A step of the receiver alone: what it holds it already had.
LEMMA ReceiverSideStep ==
  ASSUME EngineInv, ReceiverSide
  PROVE  EngineInv'
<1>0. RP!Local /\ UNCHANGED senderVars /\ UNCHANGED wire
  BY SameReceiverLocal DEF ReceiverSide, senderVars
<1>1. SP!SenderInv'
  BY <1>0, SenderVars, SP!SenderStep, SenderAssumption DEF EngineInv
<1>2. RP!ReceiverInv'
  BY <1>0, RP!ReceiverStep, SenderAssumption, ReceiverAssumption DEF EngineInv, RP!Next
<1>3. /\ UNCHANGED detector
      /\ rPc' = "publish" => rPc = "publish" /\ UNCHANGED packet
      /\ \/ UNCHANGED <<delivered, eSent>>
         \/ /\ rPc = "publish" /\ delivered' = Append(delivered, packet)
            /\ eSent' = Append(eSent, packet.event)
  BY <1>0, RP!LocalMoves, SenderAssumption, ReceiverAssumption
<1>4. \A i \in 1..Len(delivered') : delivered'[i] \in wire[Here]
  <2>1. CASE UNCHANGED delivered
    BY <2>1 DEF EngineInv, Provenance
  <2>2. CASE rPc = "publish" /\ delivered' = Append(delivered, packet)
    <3>1. delivered \in Seq(RP!Packet) /\ packet \in wire[Here]
      BY <2>2 DEF EngineInv, RP!ReceiverInv, RP!TypeOK, Provenance
    <3>2. \A i \in 1..Len(delivered) : delivered[i] \in wire[Here]
      BY DEF EngineInv, Provenance
    <3> QED BY <2>2, <3>1, <3>2
  <2> QED BY <1>3, <2>1, <2>2
<1>5. Provenance'
  BY <1>0, <1>3, <1>4 DEF EngineInv, Provenance
<1> QED BY <1>1, <1>2, <1>5 DEF EngineInv

\* A datagram is delivered: the first time, again, late or out of order.
LEMMA DeliverStep ==
  ASSUME EngineInv, Deliver
  PROVE  EngineInv'
<1>1. PICK p \in wire[Here] : RP!Receive(p)
  BY SameReceive DEF Deliver
<1>2. UNCHANGED senderVars /\ UNCHANGED wire
  BY DEF Deliver, senderVars
<1>3. p \in RP!Packet /\ p.session \in Session
  <2>1. p \in RP!Packet
    BY WireTypes DEF EngineInv
  <2> QED BY <2>1 DEF RP!Packet
<1>4. SP!SenderInv'
  BY <1>2, SenderVars, SP!SenderStep, SenderAssumption DEF EngineInv
<1>5. RP!ReceiverInv'
  BY <1>1, <1>3, RP!ReceiverStep, SenderAssumption, ReceiverAssumption
     DEF EngineInv, RP!Next
<1>6. /\ UNCHANGED <<delivered, eSent>>
      /\ \/ UNCHANGED detector /\ rPc' = "check"
         \/ /\ detector' = [session |-> p.session, last |-> p.seq]
            /\ packet' = p
  BY <1>1, RP!ReceiveMoves, SenderAssumption, ReceiverAssumption
<1>7. Provenance'
  BY <1>1, <1>2, <1>6 DEF EngineInv, Provenance
<1> QED BY <1>4, <1>5, <1>7 DEF EngineInv

\* The two invariants and the provenance of packets hold in every pipeline.
THEOREM EngineInvariance == Spec => []EngineInv
<1>1. EngineInv /\ [Next]_vars => EngineInv'
  <2> SUFFICES ASSUME EngineInv, [Next]_vars PROVE EngineInv'
    OBVIOUS
  <2>1. CASE SenderSide BY <2>1, SenderSideStep
  <2>2. CASE ReceiverSide BY <2>2, ReceiverSideStep
  <2>3. CASE Deliver BY <2>3, DeliverStep
  <2>4. CASE UNCHANGED vars
    <3>1. UNCHANGED SP!vars /\ UNCHANGED RP!vars
      BY <2>4, SenderVars DEF vars, receiverVars, RP!vars, RP!eQueue
    <3>2. SP!SenderInv' /\ RP!ReceiverInv'
      BY <3>1, SP!SenderStep, RP!ReceiverStep, SenderAssumption, ReceiverAssumption
         DEF EngineInv
    <3>3. Provenance'
      BY <2>4 DEF vars, senderVars, receiverVars, EngineInv, Provenance
    <3> QED BY <3>2, <3>3 DEF EngineInv
  <2> QED BY <2>1, <2>2, <2>3, <2>4 DEF Next
<1> QED BY <1>1, InitEngineInv, PTL DEF Spec

\* Delivered packets are packets of one session whose sequences grow, so their
\* events are the sender's and their places in its stream grow with them.
LEMMA InvEndToEnd == EngineInv => EndToEndInOrder
<1> SUFFICES ASSUME EngineInv, NEW i \in 1..Len(eSent)
             PROVE  /\ delivered[i].pos <= taken
                    /\ eSent[i] = sent[delivered[i].pos]
                    /\ \A j \in 1..i - 1 : delivered[j].pos < delivered[i].pos
  BY DEF EndToEndInOrder
<1>1. SP!SenderInv /\ RP!ReceiverInv /\ Provenance
  BY DEF EngineInv
<1>2. /\ Len(eSent) = Len(delivered)
      /\ \A k \in 1..Len(delivered) :
           /\ eSent[k] = delivered[k].event
           /\ delivered[k].session = detector.session
           /\ \A j \in 1..k - 1 : delivered[j].seq < delivered[k].seq
  BY <1>1 DEF RP!ReceiverInv, RP!DeliveredInOrder
<1>3. Len(delivered) \in Nat
  BY <1>1 DEF RP!ReceiverInv, RP!TypeOK
<1>4. \A k \in 1..Len(delivered) : delivered[k] \in SP!AllSent
  BY <1>1, WireTypes DEF Provenance
<1>5. \A p, q \in SP!AllSent :
        /\ p.pos <= taken
        /\ p.session = q.session => (p.seq < q.seq <=> p.pos < q.pos)
        /\ p.event = sent[p.pos]
  BY <1>1, SP!OneSequenceForm, SenderAssumption DEF SP!SenderInv, SP!WireInv
<1>6. ASSUME NEW j \in 1..i - 1
      PROVE  delivered[j].pos < delivered[i].pos
  <2>1. j \in 1..Len(delivered) /\ i \in 1..Len(delivered)
    BY <1>2, <1>3
  <2>2. delivered[j].seq < delivered[i].seq /\ delivered[j].session = delivered[i].session
    BY <1>2, <2>1
  <2> QED BY <1>4, <1>5, <2>1, <2>2
<1> QED BY <1>2, <1>4, <1>5, <1>6

\* The ingress stream reaches the consumer in order, at most once and
\* unchanged, for every loss, repetition and reordering of datagrams and any
\* number of sender restarts.
THEOREM PipelineInOrder == Spec => []EndToEndInOrder
<1> QED BY InvEndToEnd, EngineInvariance, PTL

\* The detector's last sequence is one the sender used.
LEMMA InvMissed == EngineInv => MissedWereSent
<1> SUFFICES ASSUME EngineInv, detector.session = session
             PROVE  /\ detector.last <= packetSequence
                    /\ pc \in {"acquire", "encode", "release"} =>
                         detector.last < packetSequence
  BY DEF MissedWereSent
<1>1. SP!SenderInv /\ SP!TypeOK /\ SP!WireInv /\ Provenance
  BY DEF EngineInv, SP!SenderInv
<1>2. session \in Session
  BY <1>1 DEF SP!TypeOK
<1>3. PICK p \in wire[Here] : p.session = session /\ p.seq = detector.last
  BY <1>1, <1>2, ReceiverAssumption DEF Provenance
<1>4. p \in SP!AllSent
  BY <1>1, <1>3, WireTypes
<1>5. /\ p.seq <= packetSequence
      /\ p.seq = packetSequence => pc \in {"check", "returned", "send"}
  BY <1>1, <1>3, <1>4 DEF SP!WireInv, SP!SessionOver
<1>6. p.seq \in Nat /\ packetSequence \in Nat
  BY <1>1, <1>4, SP!SentFacts, SP!NumberFacts, SenderAssumption
<1> QED BY <1>3, <1>5, <1>6

\* packets_missed never counts a sequence the current sender has not used.
THEOREM PipelineMissedWereSent == Spec => []MissedWereSent
<1> QED BY InvMissed, EngineInvariance, PTL

-----------------------------------------------------------------------------
(***************************************************************************)
(* The pipeline implements LossyStream.                                    *)
(***************************************************************************)
\* A step of the sender puts an event in, takes one or does neither.
LEMMA SenderSideStream ==
  ASSUME EngineInv, SenderSide
  PROVE  Stream!Next \/ UNCHANGED Stream!vars
<1>1. /\ UNCHANGED <<eSent, delivered>>
      /\ \/ UNCHANGED <<sent, taken>>
         \/ \E e \in Event : sent' = Append(sent, e) /\ UNCHANGED taken
         \/ taken < Len(sent) /\ taken' = taken + 1 /\ UNCHANGED sent
  BY SameSenderNext, SP!StreamMoves, SenderAssumption
     DEF EngineInv, SP!SenderInv, SenderSide, receiverVars
<1>2. UNCHANGED Furthest
  BY <1>1 DEF Furthest
<1> QED BY <1>1, <1>2 DEF Stream!Next, Stream!Put, Stream!Take, Stream!vars

\* A step of the receiver emits the event of the packet it publishes, which
\* lies behind all that were emitted before, or changes nothing.
LEMMA ReceiverSideStream ==
  ASSUME EngineInv, EngineInv', EndToEndInOrder', ReceiverSide
  PROVE  Stream!Next \/ UNCHANGED Stream!vars
<1>1. /\ UNCHANGED <<sent, taken>>
      /\ \/ UNCHANGED <<delivered, eSent>>
         \/ /\ rPc = "publish" /\ delivered' = Append(delivered, packet)
            /\ eSent' = Append(eSent, packet.event)
  BY SameReceiverLocal, RP!LocalMoves, SenderAssumption, ReceiverAssumption
     DEF ReceiverSide, senderVars
<1>2. CASE UNCHANGED <<delivered, eSent>>
  BY <1>1, <1>2 DEF Furthest, Stream!vars
<1>3. CASE /\ rPc = "publish" /\ delivered' = Append(delivered, packet)
           /\ eSent' = Append(eSent, packet.event)
  <2> DEFINE n == Len(delivered)
  <2>1. /\ delivered \in Seq(RP!Packet) /\ packet \in RP!Packet
        /\ eSent \in Seq(Event) /\ Len(eSent) = n
    BY <1>3 DEF EngineInv, RP!ReceiverInv, RP!TypeOK, RP!DetectorInv, RP!DeliveredInOrder
  <2>2. /\ n \in Nat /\ n + 1 \in 1..Len(eSent') /\ delivered'[n + 1] = packet
        /\ Len(delivered') = n + 1 /\ delivered' # <<>>
        /\ eSent'[n + 1] = packet.event
        /\ \A j \in 1..n : delivered'[j] = delivered[j]
    BY <1>3, <2>1
  <2>3. /\ packet.pos <= taken /\ packet.event = sent[packet.pos]
        /\ \A j \in 1..(n + 1) - 1 : delivered'[j].pos < packet.pos
    <3>1. /\ delivered'[n + 1].pos <= taken' /\ eSent'[n + 1] = sent'[delivered'[n + 1].pos]
          /\ \A j \in 1..(n + 1) - 1 : delivered'[j].pos < delivered'[n + 1].pos
      BY <2>2 DEF EndToEndInOrder
    <3> QED BY <1>1, <2>2, <3>1
  <2>4. packet.pos \in Nat \ {0} /\ taken \in Nat /\ Furthest' = packet.pos
    <3>1. packet.pos \in 1..MaxPosition /\ MaxPosition \in Nat
      BY <2>1, SenderAssumption DEF RP!Packet
    <3>2. taken \in Nat
      BY DEF EngineInv, SP!SenderInv, SP!TypeOK
    <3> QED BY <3>1, <3>2, <2>2 DEF Furthest
  <2>5. Furthest \in Nat /\ Furthest < packet.pos
    <3>1. CASE delivered = <<>>
      BY <3>1, <2>4 DEF Furthest
    <3>2. CASE delivered # <<>>
      <4>1. n \in 1..(n + 1) - 1 /\ delivered[n] \in RP!Packet
        BY <3>2, <2>1
      <4>2. delivered[n].pos \in 1..MaxPosition
        BY <4>1 DEF RP!Packet
      <4> QED BY <3>2, <4>1, <4>2, <2>2, <2>3, SenderAssumption DEF Furthest
    <3> QED BY <3>1, <3>2
  <2>6. Furthest' \in Furthest + 1..taken
    BY <2>3, <2>4, <2>5
  <2>7. eSent' = Append(eSent, sent[Furthest'])
    BY <1>3, <2>3, <2>4
  <2> QED BY <1>1, <2>6, <2>7 DEF Stream!Next, Stream!Emit
<1> QED BY <1>1, <1>2, <1>3

\* A datagram that arrives changes nothing that the users see.
LEMMA DeliverStream ==
  ASSUME Deliver
  PROVE  UNCHANGED Stream!vars
<1>1. PICK p \in wire[Here] : RP!Receive(p)
  BY SameReceive DEF Deliver
<1>2. UNCHANGED <<delivered, eSent>>
  BY <1>1, RP!ReceiveMoves, SenderAssumption, ReceiverAssumption
<1> QED BY <1>2 DEF Deliver, senderVars, Furthest, Stream!vars

\* For every behaviour of UDP, any number of sender restarts and every
\* interleaving, the pipeline is a stream that loses events and does nothing
\* else to them.
THEOREM PipelineImplementsStream == Spec => ImplementsStream
<1>1. Init => Stream!Init
  BY DEF Init, S!Init, S!Ingress!Init, R!Init, R!Egress!Init, Furthest, Stream!Init
<1>2. ASSUME EngineInv, EngineInv', EndToEndInOrder', [Next]_vars
      PROVE  [Stream!Next]_Stream!vars
  <2>1. CASE SenderSide BY <1>2, <2>1, SenderSideStream
  <2>2. CASE ReceiverSide BY <1>2, <2>2, ReceiverSideStream
  <2>3. CASE Deliver BY <2>3, DeliverStream
  <2>4. CASE UNCHANGED vars
    BY <2>4 DEF vars, senderVars, receiverVars, Furthest, Stream!vars
  <2> QED BY <1>2, <2>1, <2>2, <2>3, <2>4 DEF Next
<1> QED BY <1>1, <1>2, EngineInvariance, PipelineInOrder, PTL
        DEF Spec, ImplementsStream, Stream!Spec
=============================================================================
