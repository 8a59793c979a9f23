---------------------------- MODULE GapDetector ----------------------------
(***************************************************************************)
(* lle::GapDetector (src/reliability/gap_detector.cpp): which packet of a  *)
(* session is new, and how many packets it shows to be missing.  A         *)
(* detector is a record [session, last]; session is NoSession until the    *)
(* first packet selects one.                                               *)
(***************************************************************************)
EXTENDS Integers

CONSTANTS
  Session,      \* nonzero session identifiers
  NoSession,    \* zero, which the decoder never lets through
  MaxSequence   \* numeric_limits<uint64_t>::max()

ASSUME SessionAssumption == NoSession \notin Session

ASSUME MaxSequenceAssumption == MaxSequence \in Nat \ {0}

Detector == [session : Session \cup {NoSession}, last : 0..MaxSequence]

NewDetector == [session |-> NoSession, last |-> 0]

\* Faults: a repeat of the last packet, or another session, is accepted.
StatusAcceptsRepeat(detector, session, seq) ==
  CASE detector.session = NoSession                       -> "Accepted"
    [] detector.session \notin {NoSession, session}       -> "WrongSession"
    [] detector.session = session /\ seq < detector.last  -> "DuplicateOrOld"
    [] OTHER                                              -> "Accepted"

StatusIgnoresSession(detector, session, seq) ==
  IF detector.session # NoSession /\ seq <= detector.last
    THEN "DuplicateOrOld" ELSE "Accepted"

\* PacketStatus of check(session, seq).
Status(detector, session, seq) ==
  CASE detector.session = NoSession                       -> "Accepted"
    [] detector.session \notin {NoSession, session}       -> "WrongSession"
    [] detector.session = session /\ seq <= detector.last -> "DuplicateOrOld"
    [] OTHER                                              -> "Accepted"

\* Subtraction of std::uint64_t values.
Sub64(a, b) == IF a >= b THEN a - b ELSE a - b + MaxSequence + 1

\* Fault: the accepted packet is counted as missing too.
GapInclusive(detector, seq) == Sub64(seq, detector.last)

\* The size of the missing range in front of an accepted packet; the range
\* itself is last + 1 .. seq - 1.
Gap(detector, seq) == Sub64(Sub64(seq, detector.last), 1)

\* Fault: the next expected sequence is kept in place of the last one.
AdvanceToExpected(detector, session, seq) == [session |-> session, last |-> seq + 1]

\* The detector after it accepted a packet.
Advance(detector, session, seq) == [session |-> session, last |-> seq]
=============================================================================
