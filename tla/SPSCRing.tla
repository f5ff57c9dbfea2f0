------------------------------ MODULE SPSCRing ------------------------------
(***************************************************************************)
(* SPSCRingBuffer<T> of src/Maps/SPSCRingBuffer.hpp: the lock-free ring    *)
(* that carries OrderPods between the gateway thread, the worker threads   *)
(* and the broadcast thread of the OSE handler.                            *)
(*                                                                         *)
(* One producer thread calls enqueue (push is the same code), one consumer *)
(* thread calls dequeue (try_dequeue and try_pop are the same code).  The  *)
(* two threads share producerIndex and consumerIndex, two atomics, and the *)
(* slots, which are not: an OrderPod is hundreds of bytes and its copy is  *)
(* not atomic, so a slot that is being written holds Torn.  Each call is   *)
(* split where the other thread can be scheduled: at the load of the other *)
(* thread's index, during the copy, and at the store that publishes it.    *)
(***************************************************************************)
EXTENDS Integers, Sequences

CONSTANTS
  Item,      \* the values of T that are sent
  NoItem,    \* what the caller of a dequeue that answered false has
  Torn,      \* the content of a slot that is being written
  Capacity   \* capacity_, the number of slots

ASSUME CapacityAssumption == Capacity \in Nat \ {0}
ASSUME ItemAssumption == NoItem \notin Item /\ Torn \notin Item

VARIABLES
  producerIndex,  \* producerIndex_: the slot the producer writes next
  consumerIndex,  \* consumerIndex_: the slot the consumer reads next
  data,           \* _data
  ppc,            \* where the producer is in enqueue
  offered,        \* the argument of the enqueue in progress
  cpc,            \* where the consumer is in dequeue
  item,           \* the copy the dequeue in progress has made
  put,            \* the result of the last enqueue
  got             \* the item of the last dequeue, NoItem if it returned false

prodVars == <<producerIndex, data, ppc, offered, put>>
consVars == <<consumerIndex, cpc, item, got>>
vars == <<producerIndex, consumerIndex, data, ppc, offered, cpc, item, put, got>>

Slots == 0 .. Capacity - 1

\* Mutant of Advance: an index that does not wrap around.
MutAdvance(index) == IF index < Capacity THEN index + 1 ELSE 0

\* (index + 1) & (capacity_ - 1), capacity_ being a power of two.
Advance(index) == (index + 1) % Capacity

Init ==
  /\ producerIndex = 0
  /\ consumerIndex = 0
  /\ data = [slot \in Slots |-> Torn]
  /\ ppc = "idle"
  /\ offered = NoItem
  /\ cpc = "idle"
  /\ item = NoItem
  /\ put = TRUE
  /\ got = NoItem

-----------------------------------------------------------------------------
(* enqueue *)

\* Mutant of EnqueueBegin: only an empty ring is told from a full one.
MutEnqueueBegin(v) ==
  /\ ppc = "idle"
  /\ ppc' = "copy"
  /\ offered' = v
  /\ data' = [data EXCEPT ![producerIndex] = Torn]
  /\ UNCHANGED <<producerIndex, put>>
  /\ UNCHANGED consVars

\* The load of consumerIndex_ finds a free slot: the copy begins.
EnqueueBegin(v) ==
  /\ ppc = "idle"
  /\ Advance(producerIndex) # consumerIndex
  /\ ppc' = "copy"
  /\ offered' = v
  /\ data' = [data EXCEPT ![producerIndex] = Torn]
  /\ UNCHANGED <<producerIndex, put>>
  /\ UNCHANGED consVars

EnqueueCopied ==
  /\ ppc = "copy"
  /\ ppc' = "publish"
  /\ data' = [data EXCEPT ![producerIndex] = offered]
  /\ UNCHANGED <<producerIndex, offered, put>>
  /\ UNCHANGED consVars

\* producerIndex_.store(next, release); return true
EnqueuePublish ==
  /\ ppc = "publish"
  /\ ppc' = "idle"
  /\ producerIndex' = Advance(producerIndex)
  /\ put' = TRUE
  /\ UNCHANGED <<data, offered>>
  /\ UNCHANGED consVars

\* The load of consumerIndex_ finds no free slot: return false.
EnqueueFull ==
  /\ ppc = "idle"
  /\ Advance(producerIndex) = consumerIndex
  /\ put' = FALSE
  /\ UNCHANGED <<producerIndex, data, ppc, offered>>
  /\ UNCHANGED consVars

-----------------------------------------------------------------------------
(* dequeue *)

\* Mutant of DequeueBegin: the newest item is not seen until the next one.
MutDequeueBegin ==
  /\ cpc = "idle"
  /\ consumerIndex # producerIndex
  /\ Advance(consumerIndex) # producerIndex
  /\ cpc' = "copy"
  /\ UNCHANGED <<consumerIndex, item, got>>
  /\ UNCHANGED prodVars

\* The load of producerIndex_ finds an item.
DequeueBegin ==
  /\ cpc = "idle"
  /\ consumerIndex # producerIndex
  /\ cpc' = "copy"
  /\ UNCHANGED <<consumerIndex, item, got>>
  /\ UNCHANGED prodVars

DequeueCopied ==
  /\ cpc = "copy"
  /\ cpc' = "publish"
  /\ item' = data[consumerIndex]
  /\ UNCHANGED <<consumerIndex, got>>
  /\ UNCHANGED prodVars

\* consumerIndex_.store(next, release); return true
DequeuePublish ==
  /\ cpc = "publish"
  /\ cpc' = "idle"
  /\ consumerIndex' = Advance(consumerIndex)
  /\ got' = item
  /\ UNCHANGED item
  /\ UNCHANGED prodVars

\* Mutant of DequeueEmpty: a full ring is taken for an empty one.
MutDequeueEmpty ==
  /\ cpc = "idle"
  /\ consumerIndex = producerIndex \/ Advance(producerIndex) = consumerIndex
  /\ got' = NoItem
  /\ UNCHANGED <<consumerIndex, cpc, item>>
  /\ UNCHANGED prodVars

\* The load of producerIndex_ finds nothing: return false.
DequeueEmpty ==
  /\ cpc = "idle"
  /\ consumerIndex = producerIndex
  /\ got' = NoItem
  /\ UNCHANGED <<consumerIndex, cpc, item>>
  /\ UNCHANGED prodVars

-----------------------------------------------------------------------------
Producer ==
  \/ \E v \in Item : EnqueueBegin(v)
  \/ EnqueueCopied
  \/ EnqueuePublish
  \/ EnqueueFull

Consumer ==
  \/ DequeueBegin
  \/ DequeueCopied
  \/ DequeuePublish
  \/ DequeueEmpty

Next == Producer \/ Consumer

Spec == Init /\ [][Next]_vars

\* A consumer thread polls its queue in a loop; nothing makes a producer send.
FairSpec == Spec /\ WF_vars(Consumer)

-----------------------------------------------------------------------------
(* Properties *)

TypeOK ==
  /\ producerIndex \in Slots
  /\ consumerIndex \in Slots
  /\ data \in [Slots -> Item \cup {Torn}]
  /\ ppc \in {"idle", "copy", "publish"}
  /\ offered \in Item \cup {NoItem}
  /\ cpc \in {"idle", "copy", "publish"}
  /\ item \in Item \cup {NoItem, Torn}
  /\ put \in BOOLEAN
  /\ got \in Item \cup {NoItem, Torn}

\* size(): the number of published slots.
Size ==
  IF producerIndex >= consumerIndex
  THEN producerIndex - consumerIndex
  ELSE producerIndex + Capacity - consumerIndex

\* The slot of the k-th oldest published item, counting from 0.
SlotOf(k) ==
  IF consumerIndex + k < Capacity
  THEN consumerIndex + k
  ELSE consumerIndex + k - Capacity

\* The published slots all hold whole items, a dequeue that is past its test
\* still owns the slot it tested, and an enqueue that is past its test still
\* has a slot that is not published: the two threads never touch one slot,
\* whatever happened between a test and the store that follows it.
SlotsAreOwned ==
  /\ \A k \in 0 .. Size - 1 : data[SlotOf(k)] \in Item
  /\ cpc # "idle" => Size > 0
  /\ cpc = "publish" => item = data[consumerIndex]
  /\ ppc # "idle" => Size < Capacity - 1 /\ offered \in Item
  /\ ppc = "publish" => data[producerIndex] = offered

\* The abstract queue the two threads see.
Contents == [k \in 1 .. Size |-> data[SlotOf(k - 1)]]

Fifo == INSTANCE BoundedFifo WITH queue <- Contents, Bound <- Capacity - 1

\* The ring is a FIFO queue of Capacity - 1 items: nothing is lost, repeated,
\* reordered or torn, a refused enqueue found the ring full, and an empty
\* answer found it empty, for every interleaving of the two calls.
ImplementsFifo == Fifo!Spec

\* While its consumer polls, the ring delivers everything it accepted.
DeliversAll == Fifo!FairSpec
=============================================================================
