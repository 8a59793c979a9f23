------------------------------- MODULE Engine -------------------------------
(***************************************************************************)
(* The pipeline: an external producer, the sender, UDP, one of the         *)
(* receivers and the consumer of its egress ring.  The receiver is given   *)
(* any datagram ever sent to it, again and again, in any order, or never:  *)
(* UDP loses, repeats and reorders.  Receivers share nothing with one      *)
(* another, so one of them stands for each.                                *)
(***************************************************************************)
EXTENDS Integers, Sequences

CONSTANTS
  Event, SlotCount, MaxPosition,   \* both rings
  IngressTooLarge, EgressTooLarge, \* events a slot of each cannot hold
  Unencodable, Destination, Destinations, Session, MaxSequence, MaxInvalid,
  NoPacket, NoSession, MaxDatagrams,
  Here                             \* the destination this receiver listens on

ASSUME HereAssumption == Here \in Destination

\* What the two sides assume of their constants.
ASSUME SenderAssumption ==
  /\ Destinations \in Seq(Destination) /\ Destinations # <<>>
  /\ MaxSequence \in Nat \ {0}
  /\ MaxPosition \in Nat

ASSUME ReceiverAssumption == NoSession \notin Session

VARIABLES
  sent, taken, held, closed, verdict,
  pc, stop, session, used, packetSequence, buffer, next, sentToAny, stats, wire,
  eSent, eTaken, eHeld, eClosed, eVerdict,
  rPc, rStop, detector, packet, rStats, delivered

S == INSTANCE Sender WITH TooLarge <- IngressTooLarge
R == INSTANCE Receiver WITH TooLarge <- EgressTooLarge, Position <- 1..MaxPosition

senderVars == <<sent, taken, held, closed, verdict, pc, stop, session, used,
                packetSequence, buffer, next, sentToAny, stats, wire>>
receiverVars == <<eSent, eTaken, eHeld, eClosed, eVerdict, rPc, rStop, detector,
                  packet, rStats, delivered>>
vars == <<senderVars, receiverVars>>

Init == S!Init /\ R!Init

SenderSide == S!Next /\ UNCHANGED receiverVars

ReceiverSide == R!Local /\ UNCHANGED senderVars

\* A datagram of the network reaches the receiver and stays in the network.
Deliver ==
  /\ \E p \in wire[Here] : R!Receive(p)
  /\ UNCHANGED senderVars

Next == SenderSide \/ ReceiverSide \/ Deliver

Spec == Init /\ [][Next]_vars

-----------------------------------------------------------------------------
\* From end to end: whatever UDP does and however often the sender restarts,
\* the egress ring carries events of the ingress ring unchanged, in ingress
\* order and each at most once.
EndToEndInOrder ==
  \A i \in 1..Len(eSent) :
    /\ delivered[i].pos <= taken
    /\ eSent[i] = sent[delivered[i].pos]
    /\ \A j \in 1..i - 1 : delivered[j].pos < delivered[i].pos

\* The packets the receiver counts as accepted or missed are packet
\* sequences that the sender of its session has really used: the sequence
\* being sent at most, and an unused one never.
MissedWereSent ==
  detector.session = session =>
    /\ detector.last <= packetSequence
    /\ pc \in {"acquire", "encode", "release"} => detector.last < packetSequence

-----------------------------------------------------------------------------
\* The place in the ingress stream of the event published last to egress.
Furthest == IF delivered = <<>> THEN 0 ELSE delivered[Len(delivered)].pos

Stream == INSTANCE LossyStream WITH input <- sent, output <- eSent, last <- Furthest

\* The pipeline is a stream that loses events and does nothing else to them:
\* every step of sender, network, receiver and consumer, crashes included,
\* puts an event in, takes one, emits a later one than before or changes
\* nothing that its users see.
ImplementsStream == Stream!Spec
=============================================================================
