------------------------------ MODULE Receiver ------------------------------
(***************************************************************************)
(* lle::Receiver (src/receiver/receiver.cpp): the loop that takes          *)
(* datagrams from a UDP socket, decodes them, drops the ones that are not  *)
(* new and publishes the others to the egress ring, which it owns and      *)
(* closes.  The egress ring is the abstract queue that SpscRing            *)
(* implements; which datagram arrives next is up to the network.           *)
(***************************************************************************)
EXTENDS GapDetector, Sequences

CONSTANTS
  Event,         \* events carried by packets
  TooLarge,      \* those the egress slots cannot hold
  SlotCount,     \* capacity of the egress ring
  MaxPosition,   \* events one egress ring carries in its lifetime
  Position,      \* places in the stream of sent events
  MaxDatagrams,  \* bound on the datagrams and errors a receiver is given
  NoPacket       \* an empty packet buffer

VARIABLES
  eSent, eTaken, eHeld, eClosed, eVerdict,   \* the egress queue
  rPc,        \* where run() is; "idle" before its first call
  rStop,      \* stop_requested_
  detector,   \* gap_detector_
  packet,     \* the decoded packet about to be published, or NoPacket
  rStats,     \* the counters of EngineStats the receiver changes
  delivered   \* history: the packets published to egress, in order

Egress == INSTANCE EventQueue WITH
            sent <- eSent, taken <- eTaken, held <- eHeld, closed <- eClosed,
            verdict <- eVerdict

eQueue == <<eSent, eTaken, eHeld, eClosed, eVerdict>>
vars == <<eQueue, rPc, rStop, detector, packet, rStats, delivered>>

\* A DATA packet that decode_data() accepts; pos, the place of its event in
\* the sender's stream, is not on the wire.
Packet == [session : Session, seq : 1..MaxSequence, event : Event, pos : Position]

Counter == {"packets_received", "malformed_packets", "duplicate_or_old_packets",
            "wrong_session_packets", "events_in", "events_out", "events_dropped",
            "gaps_detected", "packets_missed", "egress_full", "egress_errors",
            "receive_errors"}

\* The counters after one more of each in C.
Bump(C) == [c \in Counter |-> IF c \in C THEN rStats[c] + 1 ELSE rStats[c]]

\* Bounds what the socket returns in one behaviour.
MoreInput == rStats["packets_received"] + rStats["receive_errors"] < MaxDatagrams

Init ==
  /\ Egress!Init
  /\ rPc = "idle" /\ rStop = FALSE
  /\ detector = NewDetector
  /\ packet = NoPacket
  /\ rStats = [c \in Counter |-> 0]
  /\ delivered = <<>>

-----------------------------------------------------------------------------
(***************************************************************************)
(* Receiver::run().                                                        *)
(***************************************************************************)

\* The owner calls run(); nothing stops it from calling it a second time.
CallRun ==
  /\ rPc \in {"idle", "returned"}
  /\ rPc' = "check"
  /\ UNCHANGED <<eQueue, rStop, detector, packet, rStats, delivered>>

\* Fault: an early return instead of a break.
ReturnAtOnce == "returned"

\* A break leads to what follows the loop.
LeaveLoop == "close"

AfterCheck == IF rStop THEN LeaveLoop ELSE "receive"

CheckStop ==
  /\ rPc = "check"
  /\ rPc' = AfterCheck
  /\ UNCHANGED <<eQueue, rStop, detector, packet, rStats, delivered>>

\* The poll timed out, or a system call was interrupted.
ReceiveNothing ==
  /\ rPc = "receive"
  /\ rPc' = "check"
  /\ UNCHANGED <<eQueue, rStop, detector, packet, rStats, delivered>>

\* Fault: the flag is only looked at when nothing arrived.
LoopAgainUnchecked == "receive"

\* Done with a datagram, the loop begins again, at its test of the flag.
LoopAgain == "check"

\* A datagram larger than the buffer, or one that does not decode.
ReceiveMalformed ==
  /\ rPc = "receive"
  /\ MoreInput
  /\ rPc' = LoopAgain
  /\ rStats' = Bump({"packets_received", "malformed_packets"})
  /\ UNCHANGED <<eQueue, rStop, detector, packet, delivered>>

ReceiveError ==
  /\ rPc = "receive"
  /\ MoreInput
  /\ rPc' = LeaveLoop
  /\ rStats' = Bump({"receive_errors"})
  /\ UNCHANGED <<eQueue, rStop, detector, packet, delivered>>

\* A packet of another session, or one that is not ahead of the last.
DropPacket(p) ==
  LET status == Status(detector, p.session, p.seq)
  IN  /\ rPc = "receive"
      /\ MoreInput
      /\ status # "Accepted"
      /\ rPc' = LoopAgain
      /\ rStats' = Bump({"packets_received", "events_dropped",
                         IF status = "DuplicateOrOld" THEN "duplicate_or_old_packets"
                                                      ELSE "wrong_session_packets"})
      /\ UNCHANGED <<eQueue, rStop, detector, packet, delivered>>

\* The detector advances before the event is published.
AcceptPacket(p) ==
  LET gap == Gap(detector, p.seq)
  IN  /\ rPc = "receive"
      /\ MoreInput
      /\ Status(detector, p.session, p.seq) = "Accepted"
      /\ detector' = Advance(detector, p.session, p.seq)
      /\ rStats' = [Bump({"packets_received", "events_in"} \cup
                         IF gap > 0 THEN {"gaps_detected"} ELSE {})
                      EXCEPT !["packets_missed"] = @ + gap]
      /\ packet' = p
      /\ rPc' = "publish"
      /\ UNCHANGED <<eQueue, rStop, delivered>>

PublishOk ==
  /\ rPc = "publish"
  /\ Egress!Publish(packet.event)
  /\ delivered' = Append(delivered, packet)
  /\ rStats' = Bump({"events_out"})
  /\ packet' = NoPacket
  /\ rPc' = LoopAgain
  /\ UNCHANGED <<rStop, detector>>

\* try_publish() checks closure, then the payload size, then the last
\* position, then the free space.  The read position it looks at may be
\* stale: any ring that was once full may be found full again.
PublishFails ==
  IF eClosed THEN "Closed"
  ELSE IF packet.event \in TooLarge THEN "PayloadTooLarge"
  ELSE IF Len(eSent) = MaxPosition THEN "Closed"
  ELSE IF Len(eSent) >= SlotCount THEN "Full"
  ELSE "None"

\* Fault: a full ring does not count as a drop.
RefusedCountersFull == {IF PublishFails = "Full" THEN "egress_full" ELSE "egress_errors"}

RefusedCounters ==
  {"events_dropped", IF PublishFails = "Full" THEN "egress_full" ELSE "egress_errors"}

PublishRefused ==
  /\ rPc = "publish"
  /\ PublishFails # "None"
  /\ rStats' = Bump(RefusedCounters)
  /\ packet' = NoPacket
  /\ rPc' = IF PublishFails = "Closed" THEN LeaveLoop ELSE LoopAgain
  /\ UNCHANGED <<eQueue, rStop, detector, delivered>>

\* The last act of run().
CloseEgress ==
  /\ rPc = "close"
  /\ Egress!Close
  /\ rPc' = "returned"
  /\ UNCHANGED <<rStop, detector, packet, rStats, delivered>>

-----------------------------------------------------------------------------
RequestStop ==
  /\ ~rStop
  /\ rStop' = TRUE
  /\ UNCHANGED <<eQueue, rPc, detector, packet, rStats, delivered>>

\* ~Receiver(), possibly without a run(): egress ends up closed.  The handle
\* and the counters are gone, so nothing more happens on this side.
Destroy ==
  /\ rPc \in {"idle", "returned"}
  /\ rPc' = "destroyed"
  /\ Egress!Close
  /\ UNCHANGED <<rStop, detector, packet, rStats, delivered>>

\* The consumer of the egress ring.
Consume ==
  /\ Egress!Lend \/ Egress!GiveBack \/ Egress!ReportClosed
  /\ UNCHANGED <<rPc, rStop, detector, packet, rStats, delivered>>

\* The steps of run() that do not depend on the network.
RunStep ==
  \/ CheckStop
  \/ ReceiveNothing
  \/ ReceiveError
  \/ PublishOk
  \/ PublishRefused
  \/ CloseEgress

Receive(p) == DropPacket(p) \/ AcceptPacket(p)

Local ==
  \/ CallRun
  \/ RunStep
  \/ ReceiveMalformed
  \/ RequestStop
  \/ Destroy
  \/ Consume

Next == Local \/ \E p \in Packet : Receive(p)

Spec == Init /\ [][Next]_vars

-----------------------------------------------------------------------------
\* The types of the queue, of run() and of its counters; the detector stays
\* within the packet sequences that exist.
TypeOK ==
  /\ eSent \in Seq(Event) /\ eTaken \in Nat /\ eHeld \in BOOLEAN
  /\ eClosed \in BOOLEAN
  /\ rPc \in {"idle", "check", "receive", "publish", "close", "returned", "destroyed"}
  /\ rStop \in BOOLEAN
  /\ detector \in Detector
  /\ packet \in Packet \cup {NoPacket}
  /\ rStats \in [Counter -> Nat]
  /\ delivered \in Seq(Packet)

\* Whatever arrives, lost, repeated or late: up to the highest accepted
\* packet sequence every number is either an accepted packet or counted
\* once as missed.
EverySequenceAccounted ==
  /\ rStats["events_in"] + rStats["packets_missed"] = detector.last
  /\ rStats["gaps_detected"] <= rStats["packets_missed"]
  /\ rStats["gaps_detected"] = 0 => rStats["packets_missed"] = 0

\* Every datagram and every decoded event is counted in one way only.
EveryDatagramAccounted ==
  LET rejected == rStats["duplicate_or_old_packets"] + rStats["wrong_session_packets"]
      refused == rStats["egress_full"] + rStats["egress_errors"]
  IN  /\ rStats["packets_received"]
           = rStats["malformed_packets"] + rejected + rStats["events_in"]
      /\ rStats["events_dropped"] = rejected + refused
      /\ rStats["events_in"] = rStats["events_out"] + refused
                                 + (IF rPc = "publish" THEN 1 ELSE 0)

\* The egress ring gets packets of one session only, in the order of their
\* sequence and each at most once, a repeat after a failed publication
\* included.
DeliveredInOrder ==
  /\ rStats["events_out"] = Len(delivered)
  /\ Len(eSent) = Len(delivered)
  /\ \A i \in 1..Len(delivered) :
       /\ eSent[i] = delivered[i].event
       /\ delivered[i].session = detector.session
       /\ delivered[i].seq <= detector.last
       /\ \A j \in 1..i - 1 : delivered[j].seq < delivered[i].seq
  /\ rPc = "publish" =>
       \A i \in 1..Len(delivered) : delivered[i].seq < packet.seq

\* However the loop ended, a receiver whose run() returned, or that is gone,
\* left its egress ring closed: the consumer does not wait for events that
\* never come.
ReturnLeavesClosed == rPc \in {"returned", "destroyed"} => eClosed

-----------------------------------------------------------------------------
(***************************************************************************)
(* Liveness.  Datagrams go on arriving for ever: the counters, which run() *)
(* never reads, start over at the bound.  The thread in run() keeps        *)
(* running; it may get a datagram every time, so a receive timeout is not  *)
(* counted on.  The consumer keeps acquiring and releasing.                *)
(***************************************************************************)
CountersStartOver ==
  /\ rPc = "receive"
  /\ ~MoreInput
  /\ rStats' = [c \in Counter |-> 0]
  /\ UNCHANGED <<eQueue, rPc, rStop, detector, packet, delivered>>

InRun == RunStep \/ ReceiveMalformed \/ \E p \in Packet : Receive(p)

Fairness == WF_vars(InRun) /\ WF_vars(Consume)

FairSpec == Init /\ [][Next \/ CountersStartOver]_vars /\ Fairness

\* A stop request makes run() return, although datagrams keep arriving.
StopReturns ==
  rStop ~> rPc \in {"idle", "returned", "destroyed"}

\* A receiver that is asked to stop, or that fails, releases its consumer:
\* all that was published is drained, then the consumer is told that there
\* is no more.
ConsumerReleased ==
  (rPc # "idle" /\ (rStop \/ rStats["receive_errors"] > 0))
    ~> (eTaken = Len(eSent) /\ eVerdict = "Closed")
=============================================================================
