----------------------------- MODULE UdpReceiver -----------------------------
(***************************************************************************)
(* UdpReceiver::receive() (src/transport/udp_receiver.cpp) over the        *)
(* kernel's socket queue: poll(), then a recvmsg() that would block on an  *)
(* empty queue.  Datagrams are told apart by number and size.              *)
(***************************************************************************)
EXTENDS Naturals, Sequences

CONSTANTS
  BufferBytes,    \* buffer.size()
  DatagramBytes,  \* sizes of the datagrams that arrive
  QueueLength,    \* datagrams the kernel keeps for the socket
  MaxArrivals     \* bound on the datagrams that reach the socket

ASSUME UdpAssumption ==
  /\ BufferBytes \in Nat /\ DatagramBytes \subseteq Nat
  /\ QueueLength \in Nat /\ MaxArrivals \in Nat

VARIABLES
  queue,      \* datagrams in the socket's queue
  pc,         \* where receive() is
  timed,      \* timeout_ms >= 0
  outcome,    \* what it returned last: size of a datagram, code, errno
  arrivals,   \* history: datagrams that reached the socket
  taken       \* history: datagrams recvmsg() took from the queue

udpVars == <<queue, pc, timed, outcome, arrivals, taken>>

Ok(bytes) == [code |-> "Ok", errno |-> 0, bytes |-> bytes]
Failed(code, errno) == [code |-> code, errno |-> errno, bytes |-> 0]
EIO == "EIO"

UdpInit ==
  /\ queue = <<>> /\ pc = "idle" /\ timed = FALSE
  /\ outcome = Failed("None", 0)
  /\ arrivals = 0 /\ taken = <<>>

\* The kernel drops what a full queue cannot hold.
Arrive(bytes) ==
  /\ arrivals < MaxArrivals
  /\ arrivals' = arrivals + 1
  /\ queue' = IF Len(queue) < QueueLength
                THEN Append(queue, [id |-> arrivals + 1, bytes |-> bytes]) ELSE queue
  /\ UNCHANGED <<pc, timed, outcome, taken>>

Receive(hasTimeout) ==
  /\ pc = "idle"
  /\ timed' = hasTimeout
  /\ pc' = IF hasTimeout THEN "poll" ELSE "recvmsg"
  /\ UNCHANGED <<queue, outcome, arrivals, taken>>

Return(r) == pc' = "idle" /\ outcome' = r

\* Fault: any event counts as input.
PollOtherEventContinues ==
  /\ pc = "poll"
  /\ pc' = "recvmsg"
  /\ UNCHANGED <<queue, timed, outcome, arrivals, taken>>

\* poll() reports an event other than POLLIN, an error on the socket.
PollOtherEvent ==
  /\ pc = "poll"
  /\ Return(Failed("Poll", EIO))
  /\ UNCHANGED <<queue, timed, arrivals, taken>>

PollReady ==
  /\ pc = "poll"
  /\ queue # <<>>
  /\ pc' = "recvmsg"
  /\ UNCHANGED <<queue, timed, outcome, arrivals, taken>>

PollTimeout ==
  /\ pc = "poll"
  /\ queue = <<>>
  /\ Return(Failed("Timeout", 0))
  /\ UNCHANGED <<queue, timed, arrivals, taken>>

\* poll() or recvmsg() fails, interrupted by a signal or otherwise.
SystemCallFails(errno) ==
  /\ pc \in {"poll", "recvmsg"}
  /\ Return(Failed(IF pc = "poll" THEN "Poll" ELSE "Receive", errno))
  /\ UNCHANGED <<queue, timed, arrivals, taken>>

\* Fault: MSG_TRUNC is not looked at, and what fits the buffer is returned.
OutcomeUnchecked(d) == Ok(IF d.bytes > BufferBytes THEN BufferBytes ELSE d.bytes)

\* A datagram larger than the buffer is cut by the kernel and refused.
Outcome(d) ==
  IF d.bytes > BufferBytes THEN Failed("DatagramTooLarge", 0) ELSE Ok(d.bytes)

RecvMsg ==
  /\ pc = "recvmsg"
  /\ queue # <<>>
  /\ Return(Outcome(Head(queue)))
  /\ queue' = Tail(queue)
  /\ taken' = Append(taken, Head(queue))
  /\ UNCHANGED <<timed, arrivals>>

Call ==
  \/ PollOtherEvent
  \/ PollReady
  \/ PollTimeout
  \/ \E errno \in {"EINTR", "EBADF"} : SystemCallFails(errno)
  \/ RecvMsg

UdpNext ==
  \/ \E bytes \in DatagramBytes : Arrive(bytes)
  \/ \E hasTimeout \in BOOLEAN : Receive(hasTimeout)
  \/ Call

UdpSpec == UdpInit /\ [][UdpNext]_udpVars

\* The kernel finishes a system call that can finish; failures are not
\* counted on.
FairUdpSpec == UdpSpec /\ WF_udpVars(PollReady \/ PollTimeout \/ RecvMsg)

-----------------------------------------------------------------------------
\* A datagram is handed out as it arrived or refused, never cut short, and
\* the calls take the datagrams once each in the order of their arrival.
WholeAndInOrder ==
  /\ outcome.code = "Ok" => /\ taken # <<>>
                            /\ outcome.bytes = taken[Len(taken)].bytes
                            /\ outcome.bytes <= BufferBytes
  /\ LET all == taken \o queue
     IN  \A i \in 1..Len(all), j \in 1..Len(all) : i < j => all[i].id < all[j].id

\* A call with a timeout returns, whether or not anything arrives: what the
\* receiver's loop needs to notice a stop request.
TimedCallReturns == pc # "idle" /\ timed ~> pc = "idle"
=============================================================================
