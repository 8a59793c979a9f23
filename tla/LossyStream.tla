----------------------------- MODULE LossyStream -----------------------------
(***************************************************************************)
(* What the pipeline promises to the two programs at its ends, without     *)
(* packets, sessions, counters, errors or restarts:  events enter a stream *)
(* and leave it unchanged and in order, each at most once, and none before *)
(* the pipeline has taken it.  Events may be lost; none is made up.        *)
(* Engine.tla is shown to implement it.                                    *)
(***************************************************************************)
EXTENDS Naturals, Sequences

CONSTANT Event

VARIABLES
  input,    \* the events put in, oldest first
  taken,    \* how many of them the pipeline has taken
  output,   \* the events that came out
  last      \* place in input of the one that came out last, or 0

vars == <<input, taken, output, last>>

Init == input = <<>> /\ taken = 0 /\ output = <<>> /\ last = 0

Put ==
  /\ \E e \in Event : input' = Append(input, e)
  /\ UNCHANGED <<taken, output, last>>

Take ==
  /\ taken < Len(input)
  /\ taken' = taken + 1
  /\ UNCHANGED <<input, output, last>>

\* An event comes out; those skipped are lost for good.
Emit ==
  /\ last' \in last + 1..taken
  /\ output' = Append(output, input[last'])
  /\ UNCHANGED <<input, taken>>

Next == Put \/ Take \/ Emit

Spec == Init /\ [][Next]_vars
=============================================================================
