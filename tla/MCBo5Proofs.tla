----------------------------- MODULE MCBo5Proofs -----------------------------
(***************************************************************************)
(* The invariants of MCBo5, for broadcasts of any length and any           *)
(* quantities.                                                             *)
(***************************************************************************)
EXTENDS MCBo5, Bo5Proofs

\* Every sub-item of MCBo5 is one of those, so its broadcasts are too.
LEMMA BroadcastsTyped == Spec => [](items \in Seq(SubItem({"o1"}, {1})))
<1>1. SubItems \subseteq SubItem({"o1"}, {1})
  BY QuantitiesAssumption
     DEF SubItems, SubItem, ReturnInfo, OrderTrans, OrderChange, AlterTrans, DeleteTrans,
         TradeInfo, HvAlterTrans, UInt32s
<1>2. Init => items \in Seq(SubItem({"o1"}, {1}))
  BY DEF Init
<1>3. items \in Seq(SubItem({"o1"}, {1})) /\ [Next]_items => (items \in Seq(SubItem({"o1"}, {1})))'
  <2>1. SUFFICES ASSUME items \in Seq(SubItem({"o1"}, {1})), Next
                 PROVE  items' \in Seq(SubItem({"o1"}, {1}))
    OBVIOUS
  <2>2. PICK item \in SubItem({"o1"}, {1}) : items' = Append(items, item)
    BY <1>1, <2>1 DEF Next, AddItem
  <2>3. QED BY <2>1, <2>2
<1>4. QED BY <1>2, <1>3, PTL DEF Spec

\* A fill is always published, with the right quantity and status, whatever
\* else its broadcast says (OmnetBdxThread::ParseBO5).
THEOREM TradesAreReported == Spec => []TradesReported
<1>1. items \in Seq(SubItem({"o1"}, {1})) => TradesReported
  BY FillIsReportedAlways DEF TradesReported
<1>2. QED BY <1>1, BroadcastsTyped, PTL

\* The broadcast of a new order, which its answer already told of, is not
\* published.
THEOREM EchoesAreSilent == Spec => []EchoesSilent
<1>1. items \in Seq(SubItem({"o1"}, {1})) => EchoesSilent
  BY EchoIsSilentAlways DEF EchoesSilent
<1>2. QED BY <1>1, BroadcastsTyped, PTL

\* A CANCELED or REJECTED never hides a fill.
THEOREM EndsAreNotFills == Spec => []EndsNotFills
<1>1. items \in Seq(SubItem({"o1"}, {1})) => EndsNotFills
  BY EndIsNotAFillAlways DEF EndsNotFills
<1>2. QED BY <1>1, BroadcastsTyped, PTL
=============================================================================
