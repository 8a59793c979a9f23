------------------------------- MODULE Sender -------------------------------
(***************************************************************************)
(* lle::Sender (src/sender/sender.cpp): the loop that takes events from    *)
(* the ingress ring, encodes each one as an LLEP DATA packet and sends the *)
(* packet to every destination.  The ingress ring is the abstract queue    *)
(* that SpscRing implements; the UDP network is the set of datagrams ever  *)
(* handed to it, one set per destination, from which receivers may take    *)
(* any member, any number of times and in any order, or never.             *)
(*                                                                         *)
(* A sender may die between any two steps; its successor attaches to the   *)
(* same ingress ring under a new random session.                           *)
(***************************************************************************)
EXTENDS Integers, Sequences

CONSTANTS
  Event,         \* events an external producer publishes
  TooLarge,      \* those the ingress slots cannot hold
  SlotCount,     \* capacity of the ingress ring
  MaxPosition,   \* events one ingress ring carries in its lifetime
  Unencodable,   \* events encode_data() refuses (sequence zero, too large)
  Destination,   \* receivers
  Destinations,  \* destinations_, in configuration order
  Session,       \* nonzero session identifiers
  MaxSequence,   \* numeric_limits<uint64_t>::max(), the last packet sequence
  MaxInvalid,    \* bound on the corrupt slots one sender meets
  NoPacket       \* an empty packet buffer

ASSUME DestinationsAssumption ==
  Destinations \in Seq(Destination) /\ Destinations # <<>>

ASSUME MaxSequenceAssumption == MaxSequence \in Nat \ {0}

ASSUME MaxPositionAssumption == MaxPosition \in Nat

VARIABLES
  sent, taken, held, closed, verdict,   \* the ingress queue
  pc,              \* where run() is
  stop,            \* stop_requested_
  session,         \* session_id_
  used,            \* sessions of this and of earlier senders
  packetSequence,  \* packet_sequence_
  buffer,          \* the encoded packet, or NoPacket
  next,            \* index of the destination to send to
  sentToAny,       \* sent_to_any
  stats,           \* the counters of EngineStats the sender changes
  wire             \* datagrams ever sent to each destination

Ingress == INSTANCE EventQueue

queue == <<sent, taken, held, closed, verdict>>
identity == <<session, used>>
fanOut == <<next, sentToAny>>
loop == <<pc, identity, packetSequence, buffer, fanOut, stats>>
vars == <<queue, loop, stop, wire>>

\* A DATA packet; pos, the place of its event in the ingress stream, is not
\* on the wire and only lets properties tell equal events apart.
Packet == [session : Session, seq : 1..MaxSequence, event : Event,
           pos : 1..MaxPosition]

Counter == {"events_in", "events_out", "events_dropped", "packets_sent",
            "send_errors", "encode_errors", "ingress_errors"}

NoStats == [c \in Counter |-> 0]

\* The counters after one more of each in C.
Bump(C) == [c \in Counter |-> IF c \in C THEN stats[c] + 1 ELSE stats[c]]

Init ==
  /\ Ingress!Init
  /\ pc = "check" /\ stop = FALSE
  /\ session \in Session /\ used = {session}
  /\ packetSequence = 1
  /\ buffer = NoPacket /\ next = 1 /\ sentToAny = FALSE
  /\ stats = NoStats
  /\ wire = [d \in Destination |-> {}]

-----------------------------------------------------------------------------
(***************************************************************************)
(* Sender::run().                                                          *)
(***************************************************************************)

\* The owner calls run() again after it returned.
CallRun ==
  /\ pc = "returned"
  /\ pc' = "check"
  /\ UNCHANGED <<queue, identity, packetSequence, buffer, fanOut, stats, stop, wire>>

CheckStop ==
  /\ pc = "check"
  /\ pc' = IF stop THEN "returned" ELSE "acquire"
  /\ UNCHANGED <<queue, identity, packetSequence, buffer, fanOut, stats, stop, wire>>

AcquireEvent ==
  /\ pc = "acquire"
  /\ Ingress!Lend
  /\ pc' = "encode"
  /\ stats' = Bump({"events_in"})
  /\ UNCHANGED <<identity, packetSequence, buffer, fanOut, stop, wire>>

\* Spin or sleep, then look at the stop flag again.
AcquireEmpty ==
  /\ pc = "acquire"
  /\ Ingress!ReportEmpty
  /\ pc' = "check"
  /\ UNCHANGED <<identity, packetSequence, buffer, fanOut, stats, stop, wire>>

AcquireClosed ==
  /\ pc = "acquire"
  /\ Ingress!ReportClosed
  /\ pc' = "returned"
  /\ UNCHANGED <<identity, packetSequence, buffer, fanOut, stats, stop, wire>>

\* A slot the producer's process has corrupted.
AcquireInvalid ==
  /\ pc = "acquire"
  /\ stats["ingress_errors"] < MaxInvalid
  /\ stats' = Bump({"ingress_errors"})
  /\ pc' = "returned"
  /\ UNCHANGED <<queue, identity, packetSequence, buffer, fanOut, stop, wire>>

\* encode_data() copies metadata and payload out of the acquired slot.
Encoded ==
  IF sent[taken + 1] \in Unencodable THEN NoPacket
  ELSE [session |-> session, seq |-> packetSequence, event |-> sent[taken + 1],
        pos |-> taken + 1]

\* Fault: the stop flag is looked at with an event on loan.
EncodeUnlessStopped ==
  /\ pc = "encode"
  /\ buffer' = Encoded
  /\ pc' = IF stop THEN "returned" ELSE "release"
  /\ UNCHANGED <<queue, identity, packetSequence, fanOut, stats, stop, wire>>

Encode ==
  /\ pc = "encode"
  /\ buffer' = Encoded
  /\ pc' = "release"
  /\ UNCHANGED <<queue, identity, packetSequence, fanOut, stats, stop, wire>>

\* The slot goes back before anything is sent; an event that could not be
\* encoded is consumed all the same and uses no packet sequence.
Release ==
  /\ pc = "release"
  /\ Ingress!GiveBack
  /\ \/ /\ buffer = NoPacket
        /\ stats' = Bump({"encode_errors", "events_dropped"})
        /\ pc' = "check"
        /\ UNCHANGED fanOut
     \/ /\ buffer # NoPacket
        /\ pc' = "send"
        /\ next' = 1 /\ sentToAny' = FALSE
        /\ UNCHANGED stats
  /\ UNCHANGED <<identity, packetSequence, buffer, stop, wire>>

\* UdpSender::send_to(): the datagram is handed to the network, or is not.
send_to(destination, ok) ==
  wire' = IF ok THEN [wire EXCEPT ![destination] = @ \cup {buffer}] ELSE wire

\* Fault: one failed destination ends the fan-out.
AfterSendUnlessError(ok) == IF ok THEN next + 1 ELSE Len(Destinations) + 1

\* One destination after the other; an error does not skip the others.
AfterSend(ok) == next + 1

SendTo ==
  /\ pc = "send"
  /\ next <= Len(Destinations)
  /\ \E ok \in BOOLEAN :
       /\ send_to(Destinations[next], ok)
       /\ stats' = Bump({IF ok THEN "packets_sent" ELSE "send_errors"})
       /\ sentToAny' = (sentToAny \/ ok)
       /\ next' = AfterSend(ok)
  /\ UNCHANGED <<queue, pc, identity, packetSequence, buffer, stop>>

NextSequence ==
  /\ packetSequence' = (packetSequence + 1) % (MaxSequence + 1)
  /\ pc' = "check"
  /\ UNCHANGED stop

\* Fault: a second run() would use the last sequence again.
EndSessionWithoutStop == pc' = "returned" /\ UNCHANGED <<stop, packetSequence>>

\* The session ends instead of wrapping its packet sequence; the stop flag
\* makes every later run() return at once.
EndSession == stop' = TRUE /\ pc' = "returned" /\ UNCHANGED packetSequence

FinishEvent ==
  /\ pc = "send"
  /\ next > Len(Destinations)
  /\ stats' = Bump({IF sentToAny THEN "events_out" ELSE "events_dropped"})
  /\ IF packetSequence = MaxSequence THEN EndSession ELSE NextSequence
  /\ UNCHANGED <<queue, identity, buffer, fanOut, wire>>

-----------------------------------------------------------------------------
(***************************************************************************)
(* The rest of the sender's world.                                         *)
(***************************************************************************)

\* Any thread, at any time.
RequestStop ==
  /\ ~stop
  /\ stop' = TRUE
  /\ UNCHANGED <<queue, loop, wire>>

\* The sender is gone, wherever it was, and a new one is initialised.
Restart ==
  /\ session' \in Session \ used
  /\ used' = used \cup {session'}
  /\ Ingress!Abandon
  /\ pc' = "check" /\ stop' = FALSE
  /\ packetSequence' = 1
  /\ buffer' = NoPacket /\ next' = 1 /\ sentToAny' = FALSE
  /\ stats' = NoStats
  /\ UNCHANGED wire

\* The external producer and its ring handle.
Produce ==
  /\ (\E e \in Event : Ingress!Publish(e)) \/ (~closed /\ Ingress!Close)
  /\ UNCHANGED <<loop, stop, wire>>

Run ==
  \/ CheckStop
  \/ AcquireEvent
  \/ AcquireEmpty
  \/ AcquireClosed
  \/ AcquireInvalid
  \/ Encode
  \/ Release
  \/ SendTo
  \/ FinishEvent

Next == Run \/ CallRun \/ RequestStop \/ Restart \/ Produce

Spec == Init /\ [][Next]_vars

-----------------------------------------------------------------------------
\* The types of the queue, of run(), of the packet identity and of the counters.
TypeOK ==
  /\ sent \in Seq(Event) /\ taken \in Nat /\ held \in BOOLEAN /\ closed \in BOOLEAN
  /\ pc \in {"check", "acquire", "encode", "release", "send", "returned"}
  /\ stop \in BOOLEAN
  /\ session \in Session /\ used \subseteq Session
  /\ packetSequence \in 1..MaxSequence
  /\ buffer \in Packet \cup {NoPacket}
  /\ next \in 1..Len(Destinations) + 1
  /\ sentToAny \in BOOLEAN
  /\ stats \in [Counter -> Nat]
  /\ wire \in [Destination -> SUBSET Packet]

\* Every acquired event ends up in exactly one of events_out and
\* events_dropped, and every encoded one in one send attempt, good or bad,
\* per destination, although sends fail one by one.
Accounting ==
  LET inFlight == IF pc \in {"encode", "release", "send"} THEN 1 ELSE 0
      attempted == IF pc = "send" THEN next - 1 ELSE 0
      encoded == stats["events_in"] - inFlight - stats["encode_errors"]
  IN  /\ stats["events_in"] = stats["events_out"] + stats["events_dropped"] + inFlight
      /\ stats["packets_sent"] + stats["send_errors"]
           = encoded * Len(Destinations) + attempted

\* Across destinations, failures and sender restarts an event goes out under
\* one session and packet sequence at most, a session and packet sequence
\* stand for one event, and within a session they follow ingress order.
OneSequencePerEvent ==
  LET P == UNION {wire[d] : d \in Destination}
  IN  \A p, q \in P :
        /\ p.pos = q.pos => p = q
        /\ p.session = q.session => (p.seq < q.seq <=> p.pos < q.pos)
        /\ p.event = sent[p.pos]

\* run() returns with no event on loan, a stop request notwithstanding, and
\* without a stop request or a corrupt slot only when ingress is closed and
\* drained.
ReturnsClean ==
  pc = "returned" =>
    /\ ~held
    /\ ~stop /\ stats["ingress_errors"] = 0 => closed /\ taken = Len(sent)

-----------------------------------------------------------------------------
(***************************************************************************)
(* Liveness: the thread that called run() keeps running, and an ingress    *)
(* ring that stays nonempty or closed is not reported Empty for ever.      *)
(***************************************************************************)
Fairness ==
  /\ WF_vars(Run)
  /\ SF_vars(AcquireEvent)
  /\ SF_vars(AcquireClosed)

FairSpec == Spec /\ Fairness

\* A stop request makes run() return, unless the sender dies first; closed
\* ingress is drained and makes it return, if senders stop dying.
RunReturns ==
  /\ stop ~> (pc = "returned" \/ ~stop)
  /\ <>[][~Restart]_vars => (closed ~> pc = "returned")
=============================================================================
