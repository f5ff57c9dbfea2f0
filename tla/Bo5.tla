-------------------------------- MODULE Bo5 --------------------------------
(***************************************************************************)
(* OmnetBdxThread::ParseBO5: what becomes of one BO5 broadcast.  It is a   *)
(* list of sub-items; ParseBO5 folds them, in the order they come, into    *)
(* one OrderPod, and then decides whether to publish it and with which     *)
(* status.  Prices, sides, series and OrdState are left out.  The quantity *)
(* of a trade (lots, trade_quantity_i) is there for the properties: the    *)
(* parser does not read it.                                                *)
(***************************************************************************)
EXTENDS Integers, SequencesExt

CONSTANT UInt32Range   \* 2^32 in the code: quantities are uint32_t

ASSUME UInt32RangeAssumption == UInt32Range \in Nat \ {0}

UInt32(n) == n % UInt32Range

NoReq == "none"   \* orderReqId 0: no sub-item named the client's order

\* The sub-items that leave a trace in the OrderPod.
ReturnInfo(ack, num) == [struct |-> 34904, ack |-> ack, num |-> num]
OrderTrans(req, qty) == [struct |-> 34005, req |-> req, qty |-> qty]
DeleteTrans(num) == [struct |-> 34011, num |-> num]
OrderChange(left) == [struct |-> 34902, left |-> left]
TradeInfo(match, lots) == [struct |-> 34920, match |-> match, lots |-> lots]
AlterTrans(num, qty) == [struct |-> 34009, num |-> num, qty |-> qty]
HvAlterTrans == [struct |-> 34010]   \* and every struct the parser skips

\* The OrderPod after memset, and the parser's flags.  Status 0 is no
\* KOrderStatus; exec is 0 as long as execid is empty.
Blank ==
  [req |-> NoReq, num |-> 0, qty |-> 0, leaves |-> 0, last |-> 0, exec |-> 0,
   status |-> "0", ack |-> 0,
   hasOrderInfo |-> FALSE, hasChangeInfo |-> FALSE]

\* Mutant of OnOrderTrans: the echo of a new order is published as an ack.
MutOnOrderTrans(ord, item) ==
  [ord EXCEPT !.req = item.req, !.qty = UInt32(item.qty), !.leaves = UInt32(item.qty),
              !.hasOrderInfo = TRUE]

\* Who and how much: a fill needs both, a new order alone is not published.
OnOrderTrans(ord, item) ==
  [ord EXCEPT !.req = item.req, !.qty = UInt32(item.qty), !.leaves = UInt32(item.qty)]

ParseItem(ord, item) ==
  CASE item.struct = 34904 -> [ord EXCEPT !.ack = item.ack, !.num = item.num]
    [] item.struct = 34005 -> OnOrderTrans(ord, item)
    [] item.struct = 34011 ->
         [ord EXCEPT !.num = item.num, !.status = "CANCELED", !.leaves = 0,
                     !.hasOrderInfo = TRUE]
    [] item.struct = 34902 ->
         [ord EXCEPT !.leaves = UInt32(item.left), !.hasChangeInfo = TRUE]
    [] item.struct = 34920 -> [ord EXCEPT !.exec = item.match]
    [] item.struct = 34009 ->
         [ord EXCEPT !.num = item.num, !.qty = UInt32(item.qty), !.status = "MODIFIED",
                     !.hasOrderInfo = TRUE]
    [] OTHER -> ord

\* A negative trans_ack is a reject.
CheckAck(ord) ==
  IF ord.ack < 0
  THEN [ord EXCEPT !.status = "REJECTED", !.hasOrderInfo = TRUE]
  ELSE ord

FillStatus(leaves) == IF leaves = 0 THEN "FILLED" ELSE "PARTIALLY_FILLED"

\* Mutant of CheckFill: the deletion of a fully filled order hides its fill.
MutCheckFill(ord) ==
  IF ord.exec = 0 \/ ord.status = "CANCELED" THEN ord
  ELSE [ord EXCEPT !.last = UInt32(ord.qty - ord.leaves), !.status = FillStatus(ord.leaves),
                   !.hasOrderInfo = FALSE, !.hasChangeInfo = TRUE]

\* A trade's execid makes the broadcast a fill, whatever else it says.
CheckFill(ord) ==
  IF ord.exec = 0 THEN ord
  ELSE [ord EXCEPT
         !.last = UInt32(ord.qty - ord.leaves),
         !.status = FillStatus(ord.leaves),
         !.hasOrderInfo = FALSE,
         !.hasChangeInfo = TRUE]

Parsed(items) == CheckFill(CheckAck(FoldLeft(ParseItem, Blank, items)))

Publishes(ord) == ord.hasOrderInfo \/ ord.hasChangeInfo

\* What ParseBO5 enqueues: the OrderPod, or nothing.
ParseBO5(items) ==
  LET ord == Parsed(items) IN IF Publishes(ord) THEN <<ord>> ELSE <<>>

-----------------------------------------------------------------------------
(* What ParseBO5 promises, said without a fold.                            *)

Has(items, s) == \E i \in DOMAIN items : items[i].struct = s
LastOf(items, s) == items[CHOOSE i \in DOMAIN items :
                            items[i].struct = s /\ \A j \in DOMAIN items :
                                                     items[j].struct = s => j <= i]
Precedes(items, s, t) ==
  \A i, j \in DOMAIN items : items[i].struct = s /\ items[j].struct = t => i < j
Once(items, s) ==
  \A i, j \in DOMAIN items : items[i].struct = s /\ items[j].struct = s => i = j

\* A trade's broadcast as the parser expects it: the order as entered, and
\* after it what is left of it.
WellFormedTrade(items) ==
  /\ \A s \in {34005, 34902, 34920} : Has(items, s) /\ Once(items, s)
  /\ Precedes(items, 34005, 34902)
  /\ ~Has(items, 34009)
  /\ Precedes(items, 34011, 34902)
  /\ LastOf(items, 34902).left <= LastOf(items, 34005).qty

\* A fill is always published, once, with the difference between the quantity
\* entered and the quantity left, FILLED exactly if nothing is left: also when
\* the same broadcast deletes the order or acknowledges it with an error.
FillIsReported(items) ==
  WellFormedTrade(items) =>
    LET ord == Parsed(items)
        entered == LastOf(items, 34005)
        left == LastOf(items, 34902).left
    IN /\ Publishes(ord)
       /\ ord.req = entered.req
       /\ ord.last + left = entered.qty
       /\ ord.status = FillStatus(left)

\* The answer to the transaction already told the client of a new order and
\* of an alteration: their broadcasts are not published a second time.
EchoIsSilent(items) ==
  (\A i \in DOMAIN items :
     \/ items[i].struct \in {34005, 34010}
     \/ items[i].struct = 34904 /\ items[i].ack >= 0)
  => ParseBO5(items) = <<>>

\* A CANCELED or REJECTED that is published comes from a deletion or a
\* negative acknowledgement and from no trade: a fill is never hidden.
EndIsNotAFill(items) ==
  \A ord \in Range(ParseBO5(items)) :
    /\ ord.status = "CANCELED" => Has(items, 34011) /\ ~Has(items, 34920)
    /\ ord.status = "REJECTED" => ord.ack < 0 /\ ~Has(items, 34920)

=============================================================================
