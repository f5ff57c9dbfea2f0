---------------------------- MODULE BoundedFifo ----------------------------
(***************************************************************************)
(* What a single-producer single-consumer queue promises its two threads:  *)
(* a first-in first-out queue of at most Bound items, in which every       *)
(* operation takes effect at one instant.  An enqueue that answers FALSE   *)
(* found the queue full at that instant, and a dequeue that answers FALSE  *)
(* (written NoItem) found it empty.                                        *)
(***************************************************************************)
EXTENDS Integers, Sequences

CONSTANTS
  Item,    \* the values that travel through the queue
  NoItem,  \* the answer of a dequeue that found nothing
  Bound    \* the largest number of items the queue holds

VARIABLES
  queue,   \* the items accepted and not yet delivered, oldest first
  put,     \* the answer of the last enqueue
  got      \* the answer of the last dequeue

vars == <<queue, put, got>>

Init ==
  /\ queue = <<>>
  /\ put = TRUE
  /\ got = NoItem

Put(v) ==
  /\ Len(queue) < Bound
  /\ queue' = Append(queue, v)
  /\ put' = TRUE
  /\ UNCHANGED got

PutFull ==
  /\ Len(queue) = Bound
  /\ put' = FALSE
  /\ UNCHANGED <<queue, got>>

Get ==
  /\ queue # <<>>
  /\ got' = Head(queue)
  /\ queue' = Tail(queue)
  /\ UNCHANGED put

GetEmpty ==
  /\ queue = <<>>
  /\ got' = NoItem
  /\ UNCHANGED <<queue, put>>

Next ==
  \/ \E v \in Item : Put(v)
  \/ PutFull
  \/ Get
  \/ GetEmpty

Spec == Init /\ [][Next]_vars

\* The consumer keeps polling: what was accepted is delivered in the end.
FairSpec == Spec /\ WF_vars(Get)
=============================================================================
