------------------------------- MODULE MCBo5 -------------------------------
(***************************************************************************)
(* Every BO5 broadcast of up to MaxItems sub-items, built one sub-item at  *)
(* a time, through the parser of Bo5.                                      *)
(***************************************************************************)
EXTENDS Bo5, TLC

CONSTANTS MaxItems, Quantities

\* What a uint32_t holds.
ASSUME QuantitiesAssumption == Quantities \subseteq 0 .. UInt32Range - 1

VARIABLE items   \* the sub-items of the broadcast

SubItems ==
  {ReturnInfo(ack, 1) : ack \in {-1, 1}}
    \cup {OrderTrans("o1", qty) : qty \in Quantities}
    \cup {OrderChange(left) : left \in Quantities}
    \cup {AlterTrans(1, qty) : qty \in Quantities \ {0}}
    \cup {DeleteTrans(1), TradeInfo(7, 1), HvAlterTrans}

Init == items = <<>>

AddItem ==
  /\ Len(items) < MaxItems
  /\ \E item \in SubItems : items' = Append(items, item)

Next == AddItem

Spec == Init /\ [][Next]_items

-----------------------------------------------------------------------------
\* The invariants of Bo5, of every broadcast.
TradesReported == FillIsReported(items)
EchoesSilent == EchoIsSilent(items)
EndsNotFills == EndIsNotAFill(items)

=============================================================================
