--------------------------- MODULE SPSCRingProofs ---------------------------
(***************************************************************************)
(* SPSCRing, proved for every capacity and every set of items: its types,  *)
(* the ownership of the slots, and that it implements BoundedFifo.         *)
(***************************************************************************)
EXTENDS SPSCRing, SequenceTheorems, TLAPS

\* The inductive invariant.
IInv == TypeOK /\ SlotsAreOwned

-----------------------------------------------------------------------------
(* Facts about the indices. *)

LEMMA AdvanceType ==
  ASSUME NEW i \in Slots
  PROVE  /\ Advance(i) \in Slots
         /\ Advance(i) = IF i = Capacity - 1 THEN 0 ELSE i + 1
<1>1. CASE i = Capacity - 1
  BY <1>1, CapacityAssumption DEF Advance, Slots
<1>2. CASE i # Capacity - 1
  <2>1. i + 1 \in 0 .. Capacity - 1
    BY <1>2, CapacityAssumption DEF Slots
  <2>2. (i + 1) % Capacity = i + 1
    BY <2>1, CapacityAssumption
  <2>3. QED BY <1>2, <2>1, <2>2, CapacityAssumption DEF Advance, Slots
<1>3. QED BY <1>1, <1>2

LEMMA SizeType ==
  ASSUME TypeOK
  PROVE  Size \in 0 .. Capacity - 1
BY CapacityAssumption DEF TypeOK, Slots, Size

LEMMA SlotOfType ==
  ASSUME TypeOK, NEW k \in 0 .. Size - 1
  PROVE  /\ SlotOf(k) \in Slots
         /\ SlotOf(k) # producerIndex
BY CapacityAssumption, SizeType DEF TypeOK, Slots, Size, SlotOf

\* A free slot remains exactly when fewer than Capacity - 1 items are published.
LEMMA FullTest ==
  ASSUME TypeOK
  PROVE  (Advance(producerIndex) = consumerIndex) <=> (Size = Capacity - 1)
<1>1. producerIndex \in Slots /\ consumerIndex \in Slots
  BY DEF TypeOK
<1>2. Advance(producerIndex) = IF producerIndex = Capacity - 1 THEN 0 ELSE producerIndex + 1
  BY <1>1, AdvanceType
<1>3. QED BY <1>1, <1>2, CapacityAssumption DEF Slots, Size

LEMMA EmptyTest ==
  ASSUME TypeOK
  PROVE  (consumerIndex = producerIndex) <=> (Size = 0)
BY CapacityAssumption DEF TypeOK, Slots, Size

\* Publishing an item adds one slot at the end of the published ones.
LEMMA PublishGrows ==
  ASSUME TypeOK, Size < Capacity - 1,
         producerIndex' = Advance(producerIndex), consumerIndex' = consumerIndex
  PROVE  /\ Size' = Size + 1
         /\ SlotOf(Size) = producerIndex
         /\ \A k \in 0 .. Size : SlotOf(k)' = SlotOf(k)
<1>1. producerIndex \in Slots /\ consumerIndex \in Slots
  BY DEF TypeOK
<1>2. producerIndex' = IF producerIndex = Capacity - 1 THEN 0 ELSE producerIndex + 1
  BY <1>1, AdvanceType
<1>3. QED BY <1>1, <1>2, CapacityAssumption DEF Slots, Size, SlotOf

\* Taking an item drops the first of the published slots.
LEMMA TakeShrinks ==
  ASSUME TypeOK, Size > 0,
         consumerIndex' = Advance(consumerIndex), producerIndex' = producerIndex
  PROVE  /\ Size' = Size - 1
         /\ SlotOf(0) = consumerIndex
         /\ \A k \in 0 .. Size - 2 : SlotOf(k)' = SlotOf(k + 1)
<1>1. producerIndex \in Slots /\ consumerIndex \in Slots
  BY DEF TypeOK
<1>2. consumerIndex' = IF consumerIndex = Capacity - 1 THEN 0 ELSE consumerIndex + 1
  BY <1>1, AdvanceType
<1>3. QED BY <1>1, <1>2, CapacityAssumption DEF Slots, Size, SlotOf

-----------------------------------------------------------------------------
(* The inductive invariant. *)

LEMMA InitInv == Init => IInv
<1> SUFFICES ASSUME Init PROVE IInv
  OBVIOUS
<1>1. TypeOK
  BY CapacityAssumption DEF Init, TypeOK, Slots
<1>2. Size = 0
  BY DEF Init, Size
<1>3. SlotsAreOwned
  BY <1>2 DEF Init, SlotsAreOwned
<1>4. QED BY <1>1, <1>3 DEF IInv

LEMMA TypeStep == IInv /\ [Next]_vars => TypeOK'
<1> SUFFICES ASSUME IInv, [Next]_vars PROVE TypeOK'
  OBVIOUS
<1> USE DEF IInv, TypeOK
<1>1. ASSUME NEW v \in Item, EnqueueBegin(v) PROVE TypeOK'
  BY <1>1 DEF EnqueueBegin, consVars
<1>2. CASE EnqueueCopied
  \* Past its test, an enqueue holds an item.
  <2>1. offered \in Item
    BY <1>2 DEF EnqueueCopied, SlotsAreOwned
  <2>2. QED BY <1>2, <2>1 DEF EnqueueCopied, consVars
<1>3. CASE EnqueuePublish
  BY <1>3, AdvanceType DEF EnqueuePublish, consVars
<1>4. CASE EnqueueFull
  BY <1>4 DEF EnqueueFull, consVars
<1>5. CASE DequeueBegin
  BY <1>5 DEF DequeueBegin, prodVars
<1>6. CASE DequeueCopied
  BY <1>6 DEF DequeueCopied, prodVars
<1>7. CASE DequeuePublish
  BY <1>7, AdvanceType DEF DequeuePublish, prodVars
<1>8. CASE DequeueEmpty
  BY <1>8 DEF DequeueEmpty, prodVars
<1>9. CASE UNCHANGED vars
  BY <1>9 DEF vars
<1>10. QED
  BY <1>1, <1>2, <1>3, <1>4, <1>5, <1>6, <1>7, <1>8, <1>9 DEF Next, Producer, Consumer

\* Writing the slot at producerIndex disturbs no published slot.
LEMMA WriteIsPrivate ==
  ASSUME IInv, NEW x, data' = [data EXCEPT ![producerIndex] = x],
         producerIndex' = producerIndex, consumerIndex' = consumerIndex
  PROVE  /\ Size' = Size
         /\ \A k \in 0 .. Size - 1 : SlotOf(k)' = SlotOf(k) /\ data'[SlotOf(k)] = data[SlotOf(k)]
<1>1. TypeOK
  BY DEF IInv
<1>2. Size' = Size
  BY DEF Size
<1>3. ASSUME NEW k \in 0 .. Size - 1
      PROVE  SlotOf(k)' = SlotOf(k) /\ data'[SlotOf(k)] = data[SlotOf(k)]
  <2>1. SlotOf(k)' = SlotOf(k)
    BY DEF SlotOf
  <2>2. SlotOf(k) \in Slots /\ SlotOf(k) # producerIndex
    BY <1>1, SlotOfType
  <2>3. QED BY <2>1, <2>2, <1>1 DEF TypeOK
<1>4. QED BY <1>2, <1>3

\* A step that leaves the indices and the slots alone leaves the queue alone.
LEMMA QuietStep ==
  ASSUME data' = data, producerIndex' = producerIndex, consumerIndex' = consumerIndex
  PROVE  Size' = Size /\ \A k : SlotOf(k)' = SlotOf(k)
BY DEF Size, SlotOf

LEMMA OwnedStep == IInv /\ [Next]_vars => SlotsAreOwned'
<1> SUFFICES ASSUME IInv, [Next]_vars PROVE SlotsAreOwned'
  OBVIOUS
<1>t. TypeOK /\ SlotsAreOwned
  BY DEF IInv
<1>s. Size \in 0 .. Capacity - 1
  BY <1>t, SizeType
<1>c. consumerIndex = SlotOf(0)
  BY <1>t, CapacityAssumption DEF TypeOK, Slots, SlotOf
<1>1. ASSUME NEW v \in Item, EnqueueBegin(v) PROVE SlotsAreOwned'
  <2>1. Size < Capacity - 1
    BY <1>1, <1>t, <1>s, FullTest, CapacityAssumption DEF EnqueueBegin
  <2>2. /\ Size' = Size
        /\ \A k \in 0 .. Size - 1 : SlotOf(k)' = SlotOf(k) /\ data'[SlotOf(k)] = data[SlotOf(k)]
    BY <1>1, WriteIsPrivate DEF EnqueueBegin, consVars
  <2>3. QED
    BY <1>1, <1>t, <1>s, <1>c, <2>1, <2>2, CapacityAssumption DEF EnqueueBegin, consVars, SlotsAreOwned
<1>2. CASE EnqueueCopied
  <2>1. /\ Size' = Size
        /\ \A k \in 0 .. Size - 1 : SlotOf(k)' = SlotOf(k) /\ data'[SlotOf(k)] = data[SlotOf(k)]
    BY <1>2, WriteIsPrivate DEF EnqueueCopied, consVars
  <2>2. data'[producerIndex'] = offered'
    BY <1>2, <1>t DEF EnqueueCopied, TypeOK
  <2>3. QED
    BY <1>2, <1>t, <1>s, <1>c, <2>1, <2>2, CapacityAssumption DEF EnqueueCopied, consVars, SlotsAreOwned
<1>3. CASE EnqueuePublish
  <2>1. Size < Capacity - 1 /\ offered \in Item /\ data[producerIndex] = offered
    BY <1>3, <1>t DEF EnqueuePublish, SlotsAreOwned
  <2>2. /\ Size' = Size + 1
        /\ SlotOf(Size) = producerIndex
        /\ \A k \in 0 .. Size : SlotOf(k)' = SlotOf(k)
    BY <1>3, <1>t, <2>1, PublishGrows DEF EnqueuePublish, consVars
  <2>3. \A k \in 0 .. Size' - 1 : data'[SlotOf(k)'] \in Item
    <3>1. ASSUME NEW k \in 0 .. Size' - 1 PROVE data'[SlotOf(k)'] \in Item
      <4>1. k \in 0 .. Size /\ (k # Size => k \in 0 .. Size - 1)
        BY <2>2, <1>s, CapacityAssumption
      <4>2. data'[SlotOf(k)'] = data[SlotOf(k)]
        BY <1>3, <2>2, <4>1 DEF EnqueuePublish
      <4>3. CASE k = Size
        BY <4>2, <4>3, <2>1, <2>2
      <4>4. CASE k # Size
        BY <4>1, <4>2, <4>4, <1>t DEF SlotsAreOwned
      <4>5. QED BY <4>3, <4>4
    <3>2. QED BY <3>1
  <2>4. (cpc # "idle" => Size > 0)' /\ (cpc = "publish" => item = data[consumerIndex])'
    BY <1>3, <1>t, <1>s, <2>2, CapacityAssumption DEF EnqueuePublish, consVars, SlotsAreOwned
  <2>5. (ppc = "idle")'
    BY <1>3 DEF EnqueuePublish
  <2>6. QED BY <2>3, <2>4, <2>5 DEF SlotsAreOwned
<1>4. CASE EnqueueFull
  <2>1. Size' = Size /\ \A k : SlotOf(k)' = SlotOf(k)
    BY <1>4, QuietStep DEF EnqueueFull, consVars
  <2>2. QED BY <1>4, <1>t, <2>1 DEF EnqueueFull, consVars, SlotsAreOwned
<1>5. CASE DequeueBegin
  <2>1. Size' = Size /\ \A k : SlotOf(k)' = SlotOf(k)
    BY <1>5, QuietStep DEF DequeueBegin, prodVars
  <2>2. Size > 0
    BY <1>5, <1>t, <1>s, EmptyTest, CapacityAssumption DEF DequeueBegin
  <2>3. QED BY <1>5, <1>t, <2>1, <2>2 DEF DequeueBegin, prodVars, SlotsAreOwned
<1>6. CASE DequeueCopied
  <2>1. Size' = Size /\ \A k : SlotOf(k)' = SlotOf(k)
    BY <1>6, QuietStep DEF DequeueCopied, prodVars
  <2>2. QED BY <1>6, <1>t, <2>1 DEF DequeueCopied, prodVars, SlotsAreOwned
<1>7. CASE DequeuePublish
  <2>1. Size > 0
    BY <1>7, <1>t DEF DequeuePublish, SlotsAreOwned
  <2>2. /\ Size' = Size - 1
        /\ \A k \in 0 .. Size - 2 : SlotOf(k)' = SlotOf(k + 1)
    BY <1>7, <1>t, <2>1, TakeShrinks DEF DequeuePublish, prodVars
  <2>3. \A k \in 0 .. Size' - 1 : data'[SlotOf(k)'] \in Item
    <3>1. ASSUME NEW k \in 0 .. Size' - 1 PROVE data'[SlotOf(k)'] \in Item
      <4>1. k \in 0 .. Size - 2 /\ k + 1 \in 0 .. Size - 1
        BY <2>2, <1>s, CapacityAssumption
      <4>2. data'[SlotOf(k)'] = data[SlotOf(k + 1)]
        BY <1>7, <2>2, <4>1 DEF DequeuePublish, prodVars
      <4>3. QED BY <4>1, <4>2, <1>t DEF SlotsAreOwned
    <3>2. QED BY <3>1
  <2>4. (ppc # "idle" => Size < Capacity - 1 /\ offered \in Item)'
        /\ (ppc = "publish" => data[producerIndex] = offered)'
    BY <1>7, <1>t, <1>s, <2>2, CapacityAssumption DEF DequeuePublish, prodVars, SlotsAreOwned
  <2>5. (cpc = "idle")'
    BY <1>7 DEF DequeuePublish
  <2>6. QED BY <2>3, <2>4, <2>5 DEF SlotsAreOwned
<1>8. CASE DequeueEmpty
  <2>1. Size' = Size /\ \A k : SlotOf(k)' = SlotOf(k)
    BY <1>8, QuietStep DEF DequeueEmpty, prodVars
  <2>2. QED BY <1>8, <1>t, <2>1 DEF DequeueEmpty, prodVars, SlotsAreOwned
<1>9. CASE UNCHANGED vars
  <2>1. Size' = Size /\ \A k : SlotOf(k)' = SlotOf(k)
    BY <1>9, QuietStep DEF vars
  <2>2. QED BY <1>9, <1>t, <2>1 DEF vars, SlotsAreOwned
<1>10. QED
  BY <1>1, <1>2, <1>3, <1>4, <1>5, <1>6, <1>7, <1>8, <1>9 DEF Next, Producer, Consumer

LEMMA Invariance == Spec => []IInv
<1>1. IInv /\ [Next]_vars => IInv'
  BY TypeStep, OwnedStep DEF IInv
<1>2. QED BY InitInv, <1>1, PTL DEF Spec

\* The ring keeps its indices within the buffer and its slots whole.
THEOREM TypeCorrect == Spec => []TypeOK
<1>1. IInv => TypeOK
  BY DEF IInv
<1>2. QED BY <1>1, Invariance, PTL

\* The two threads never use one slot at a time: at every capacity, every
\* published slot holds a whole item and a copy in progress, on either side,
\* is of a slot the other thread leaves alone.
THEOREM SlotOwnership == Spec => []SlotsAreOwned
<1>1. IInv => SlotsAreOwned
  BY DEF IInv
<1>2. QED BY <1>1, Invariance, PTL

-----------------------------------------------------------------------------
(* The refinement. *)

ContentsIs ==
  /\ Contents \in Seq(Item)
  /\ Len(Contents) = Size
  /\ \A k \in 1 .. Size : Contents[k] = data[SlotOf(k - 1)]

LEMMA ContentsType == IInv => ContentsIs
<1> SUFFICES ASSUME IInv PROVE ContentsIs
  OBVIOUS
<1>1. Size \in 0 .. Capacity - 1
  BY SizeType DEF IInv
<1>2. \A k \in 1 .. Size : data[SlotOf(k - 1)] \in Item
  BY <1>1, CapacityAssumption DEF IInv, SlotsAreOwned
<1>3. Contents \in [1 .. Size -> Item]
  BY <1>2 DEF Contents
<1>4. Size \in Nat
  BY <1>1, CapacityAssumption
<1>5. Contents \in Seq(Item)
  BY <1>3, <1>4, SeqDef
<1>6. QED BY <1>3, <1>4, <1>5, LenProperties DEF Contents, ContentsIs

LEMMA ContentsTypeNext == IInv' => ContentsIs'
BY ContentsType, PTL

\* A step that keeps the published slots keeps the queue.
LEMMA SameContents ==
  ASSUME IInv, IInv', Size' = Size,
         \A k \in 0 .. Size - 1 : SlotOf(k)' = SlotOf(k) /\ data'[SlotOf(k)] = data[SlotOf(k)]
  PROVE  Contents' = Contents
<1>1. Contents \in Seq(Item) /\ Len(Contents) = Size
      /\ \A k \in 1 .. Size : Contents[k] = data[SlotOf(k - 1)]
  BY ContentsType DEF ContentsIs
<1>2. Contents' \in Seq(Item) /\ Len(Contents') = Size'
      /\ \A k \in 1 .. Size' : Contents'[k] = data'[SlotOf(k - 1)']
  BY ContentsTypeNext DEF ContentsIs
<1>3. Size \in Nat
  BY SizeType, CapacityAssumption DEF IInv
<1>4. ASSUME NEW k \in 1 .. Size PROVE Contents'[k] = Contents[k]
  <2>1. k - 1 \in 0 .. Size - 1
    BY <1>3
  <2>2. QED BY <2>1, <1>1, <1>2
<1>5. QED BY <1>1, <1>2, <1>4, SeqEqual

LEMMA InitRefines == Init => Fifo!Init
<1> SUFFICES ASSUME Init PROVE Fifo!Init
  OBVIOUS
<1>1. Size = 0
  BY DEF Init, Size
<1>2. Len(Contents) = 0 /\ Contents \in Seq(Item)
  BY <1>1, InitInv, ContentsType DEF ContentsIs
<1>3. Contents = <<>>
  BY <1>2, EmptySeq
<1>4. QED BY <1>3 DEF Init, Fifo!Init

LEMMA PublishRefines ==
  ASSUME IInv, IInv', EnqueuePublish
  PROVE  Fifo!Put(offered) /\ offered \in Item
<1>1. Size < Capacity - 1 /\ offered \in Item /\ data[producerIndex] = offered
  BY DEF EnqueuePublish, IInv, SlotsAreOwned
<1>2. /\ Size' = Size + 1
      /\ SlotOf(Size) = producerIndex
      /\ \A k \in 0 .. Size : SlotOf(k)' = SlotOf(k)
  BY <1>1, PublishGrows DEF EnqueuePublish, consVars, IInv
<1>3. Contents \in Seq(Item) /\ Len(Contents) = Size
      /\ \A k \in 1 .. Size : Contents[k] = data[SlotOf(k - 1)]
  BY ContentsType DEF ContentsIs
<1>4. Contents' \in Seq(Item) /\ Len(Contents') = Size'
      /\ \A k \in 1 .. Size' : Contents'[k] = data'[SlotOf(k - 1)']
  BY ContentsTypeNext DEF ContentsIs
<1>5. Size \in Nat
  BY SizeType, CapacityAssumption DEF IInv
<1>6. /\ Append(Contents, offered) \in Seq(Item)
      /\ Len(Append(Contents, offered)) = Size + 1
      /\ \A k \in 1 .. Size : Append(Contents, offered)[k] = Contents[k]
      /\ Append(Contents, offered)[Size + 1] = offered
  BY <1>1, <1>3, AppendProperties
<1>7. ASSUME NEW k \in 1 .. Size + 1
      PROVE  Contents'[k] = Append(Contents, offered)[k]
  <2>1. k - 1 \in 0 .. Size /\ k \in 1 .. Size'
    BY <1>2, <1>5
  <2>2. Contents'[k] = data[SlotOf(k - 1)]
    BY <2>1, <1>2, <1>4 DEF EnqueuePublish
  <2>3. CASE k = Size + 1
    <3>1. k - 1 = Size
      BY <2>3, <1>5
    <3>2. QED BY <3>1, <2>2, <2>3, <1>1, <1>2, <1>6
  <2>4. CASE k # Size + 1
    <3>1. k \in 1 .. Size
      BY <2>4, <1>5
    <3>2. QED BY <3>1, <2>2, <1>3, <1>6
  <2>5. QED BY <2>3, <2>4
<1>8. Contents' = Append(Contents, offered)
  BY <1>2, <1>4, <1>6, <1>7, SeqEqual
<1>9. QED
  BY <1>1, <1>3, <1>8 DEF EnqueuePublish, consVars, Fifo!Put

LEMMA TakeRefines ==
  ASSUME IInv, IInv', DequeuePublish
  PROVE  Fifo!Get
<1>1. Size > 0 /\ item = data[consumerIndex]
  BY DEF DequeuePublish, IInv, SlotsAreOwned
<1>2. /\ Size' = Size - 1
      /\ SlotOf(0) = consumerIndex
      /\ \A k \in 0 .. Size - 2 : SlotOf(k)' = SlotOf(k + 1)
  BY <1>1, TakeShrinks DEF DequeuePublish, prodVars, IInv
<1>3. Contents \in Seq(Item) /\ Len(Contents) = Size
      /\ \A k \in 1 .. Size : Contents[k] = data[SlotOf(k - 1)]
  BY ContentsType DEF ContentsIs
<1>4. Contents' \in Seq(Item) /\ Len(Contents') = Size'
      /\ \A k \in 1 .. Size' : Contents'[k] = data'[SlotOf(k - 1)']
  BY ContentsTypeNext DEF ContentsIs
<1>5. Size \in Nat
  BY SizeType, CapacityAssumption DEF IInv
<1>6. Contents # <<>>
  BY <1>1, <1>3, EmptySeq
<1>7. /\ Head(Contents) = Contents[1]
      /\ Tail(Contents) \in Seq(Item)
      /\ Len(Tail(Contents)) = Size - 1
      /\ \A k \in 1 .. Size - 1 : Tail(Contents)[k] = Contents[k + 1]
  BY <1>3, <1>6, HeadTailProperties
<1>8. Head(Contents) = item
  BY <1>1, <1>2, <1>3, <1>5, <1>7
<1>9. ASSUME NEW k \in 1 .. Size - 1
      PROVE  Contents'[k] = Tail(Contents)[k]
  <2>1. k - 1 \in 0 .. Size - 2 /\ k \in 1 .. Size' /\ k + 1 \in 1 .. Size /\ (k - 1) + 1 = (k + 1) - 1
    BY <1>2, <1>5
  <2>2. Contents'[k] = data[SlotOf((k - 1) + 1)]
    BY <2>1, <1>2, <1>4 DEF DequeuePublish, prodVars
  <2>3. QED BY <2>1, <2>2, <1>3, <1>7
<1>10. Contents' = Tail(Contents)
  BY <1>2, <1>4, <1>7, <1>9, SeqEqual
<1>11. QED
  BY <1>6, <1>8, <1>10 DEF DequeuePublish, prodVars, Fifo!Get

LEMMA StepRefines == IInv /\ IInv' /\ [Next]_vars => [Fifo!Next]_(Fifo!vars)
<1> SUFFICES ASSUME IInv, IInv', [Next]_vars PROVE [Fifo!Next]_(Fifo!vars)
  OBVIOUS
<1>t. TypeOK /\ Size \in 0 .. Capacity - 1
  BY SizeType DEF IInv
<1>q. Contents \in Seq(Item) /\ Len(Contents) = Size
  BY ContentsType DEF ContentsIs
<1>1. ASSUME NEW v \in Item, EnqueueBegin(v) PROVE UNCHANGED <<Contents, put, got>>
  BY <1>1, WriteIsPrivate, SameContents DEF EnqueueBegin, consVars
<1>2. ASSUME EnqueueCopied PROVE UNCHANGED <<Contents, put, got>>
  BY <1>2, WriteIsPrivate, SameContents DEF EnqueueCopied, consVars
<1>3. ASSUME EnqueuePublish PROVE \E v \in Item : Fifo!Put(v)
  BY <1>3, PublishRefines
<1>4. ASSUME EnqueueFull PROVE Fifo!PutFull
  <2>1. Contents' = Contents
    BY <1>4, QuietStep, SameContents DEF EnqueueFull, consVars
  <2>2. Len(Contents) = Capacity - 1
    BY <1>4, <1>t, <1>q, FullTest DEF EnqueueFull
  <2>3. QED BY <1>4, <2>1, <2>2 DEF EnqueueFull, consVars, Fifo!PutFull
<1>5. ASSUME DequeueBegin PROVE UNCHANGED <<Contents, put, got>>
  BY <1>5, QuietStep, SameContents DEF DequeueBegin, prodVars
<1>6. ASSUME DequeueCopied PROVE UNCHANGED <<Contents, put, got>>
  BY <1>6, QuietStep, SameContents DEF DequeueCopied, prodVars
<1>7. ASSUME DequeuePublish PROVE Fifo!Get
  BY <1>7, TakeRefines
<1>8. ASSUME DequeueEmpty PROVE Fifo!GetEmpty
  <2>1. Contents' = Contents
    BY <1>8, QuietStep, SameContents DEF DequeueEmpty, prodVars
  <2>2. Contents = <<>>
    BY <1>8, <1>t, <1>q, EmptyTest, EmptySeq DEF DequeueEmpty
  <2>3. QED BY <1>8, <2>1, <2>2 DEF DequeueEmpty, prodVars, Fifo!GetEmpty
<1>9. ASSUME UNCHANGED vars PROVE UNCHANGED <<Contents, put, got>>
  BY <1>9, QuietStep, SameContents DEF vars
<1>10. QED
  BY <1>1, <1>2, <1>3, <1>4, <1>5, <1>6, <1>7, <1>8, <1>9
     DEF Next, Producer, Consumer, Fifo!Next, Fifo!vars

\* For every capacity and every set of items, the ring's enqueue and dequeue,
\* interleaved in any way, behave as the operations of a bounded FIFO queue
\* that takes effect at one instant: the promise the code's callers rely on.
THEOREM RingImplementsFifo == Spec => ImplementsFifo
<1>1. [][Next]_vars /\ []IInv => [][Fifo!Next]_(Fifo!vars)
  <2>1. IInv /\ IInv' /\ [Next]_vars => [Fifo!Next]_(Fifo!vars)
    BY StepRefines
  <2>2. QED BY <2>1, PTL
<1>2. QED
  BY <1>1, InitRefines, Invariance, PTL DEF Spec, ImplementsFifo, Fifo!Spec
=============================================================================
