---------------------------- MODULE EventQueue ----------------------------
(***************************************************************************)
(* What a shared-memory event ring promises to its two users, without      *)
(* slots, cursors, caches or memory ordering: a bounded FIFO queue with    *)
(* one event on loan at a time, which reports Closed only once it has been *)
(* closed and drained.  SpscRing.tla is shown to implement it.             *)
(***************************************************************************)
EXTENDS Naturals, Sequences

CONSTANTS
  Event,        \* what EventView objects stand for: opaque events
  TooLarge,     \* the events whose payload exceeds the slot capacity
  SlotCount,    \* capacity of the queue
  MaxPosition   \* events one queue can carry in its lifetime

VARIABLES
  sent,     \* every event ever published, oldest first
  taken,    \* how many of them the consumer has released
  held,     \* whether the consumer holds a view of event number taken + 1
  closed,   \* publication was closed
  verdict   \* what the last completed try_acquire() reported

vars == <<sent, taken, held, closed, verdict>>

Init ==
  /\ sent = <<>> /\ taken = 0 /\ held = FALSE /\ closed = FALSE
  /\ verdict = "None"

\* An event is accepted only into free space, only before closure.
Publish(e) ==
  /\ ~closed
  /\ e \in Event \ TooLarge
  /\ Len(sent) < MaxPosition
  /\ Len(sent) - taken < SlotCount
  /\ sent' = Append(sent, e)
  /\ UNCHANGED <<taken, held, closed, verdict>>

Close ==
  /\ closed' = TRUE
  /\ UNCHANGED <<sent, taken, held, verdict>>

\* The consumer calls try_acquire(): its previous answer is forgotten.
Ask ==
  /\ ~held
  /\ verdict' = "None"
  /\ UNCHANGED <<sent, taken, held, closed>>

\* The oldest event that is not released goes on loan.
Lend ==
  /\ ~held
  /\ taken < Len(sent)
  /\ held' = TRUE
  /\ verdict' = "Event"
  /\ UNCHANGED <<sent, taken, closed>>

\* Empty may be a stale answer; Closed never is.
ReportEmpty ==
  /\ ~held
  /\ verdict' = "Empty"
  /\ UNCHANGED <<sent, taken, held, closed>>

ReportClosed ==
  /\ ~held
  /\ closed /\ taken = Len(sent)
  /\ verdict' = "Closed"
  /\ UNCHANGED <<sent, taken, held, closed>>

RefuseSecondLoan ==
  /\ held
  /\ verdict' = "AlreadyAcquired"
  /\ UNCHANGED <<sent, taken, held, closed>>

GiveBack ==
  /\ held
  /\ held' = FALSE
  /\ taken' = taken + 1
  /\ verdict' = "None"
  /\ UNCHANGED <<sent, closed>>

\* The consumer handle is destroyed: a loan ends without a release.
Abandon ==
  /\ held' = FALSE
  /\ verdict' = "None"
  /\ UNCHANGED <<sent, taken, closed>>

Next ==
  \/ \E e \in Event : Publish(e)
  \/ Close
  \/ Ask
  \/ Lend
  \/ ReportEmpty
  \/ ReportClosed
  \/ RefuseSecondLoan
  \/ GiveBack
  \/ Abandon

Spec == Init /\ [][Next]_vars
=============================================================================
