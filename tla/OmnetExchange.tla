--------------------------- MODULE OmnetExchange ---------------------------
(***************************************************************************)
(* The exchange behind the OMnet gateway, as the OSE handler uses it: its  *)
(* order book, the transactions MO31, MO33 and MO4, and the BO5 broadcasts *)
(* of trades and deletions.  It is not part of the repository: what it     *)
(* does is what OmnetWorker::ProcessOrder and OmnetBdxThread::ParseBO5     *)
(* expect of it.                                                           *)
(***************************************************************************)
EXTENDS Integers, Sequences, Bo5

CONSTANTS
  Orders,   \* orderReqIds, the client's names of its orders
  Qty       \* the quantities orders are sent and altered with

ASSUME QtyAssumption == Qty \subseteq 1..(UInt32Range - 1)

VARIABLES
  book,   \* the orders the exchange ever accepted; the index of an entry is
          \* its order number, and leaves = 0 says it is not in the book now
  tape    \* every BO5 broadcast of a trade or a deletion, oldest first: a
          \* sequence of sub-items each

exchVars == <<book, tape>>

ExchInit ==
  /\ book = <<>>
  /\ tape = <<>>

TxId == -1        \* a transaction id, which is the number of no order

Entry(o, leaves) ==
  [req |-> o.req, qty |-> o.qty, leaves |-> leaves, traded |-> o.qty - leaves]

\* A trade of order number n: who it is, the quantity named for the order, what
\* is left of it, what was traded.
TradeNews(n, req, named, left, lots) ==
  <<ReturnInfo(1, n), OrderTrans(req, named), OrderChange(left), TradeInfo(1, lots)>>

DeleteNews(n) == <<ReturnInfo(1, n), DeleteTrans(n)>>

\* An outcome of a transaction: the answer of the exchange (status SUCCESS
\* with a txstatus and an ordid, or an error status), the entries it adds or
\* changes, and what it broadcasts.
Done(txstatus, ordid) == [ok |-> TRUE, txstatus |-> txstatus, ordid |-> ordid]
Refused == [ok |-> FALSE, txstatus |-> 0, ordid |-> 0]

Outcome(reply, newBook, news) == [reply |-> reply, book |-> newBook, news |-> news]

\* MO31: the order is booked whole (txstatus 4), traded whole (2), traded in
\* part with the rest booked (6) or dropped (3), not accepted (1), or refused.
EnterOutcomes(o) ==
  LET n == Len(book) + 1
      booked(leaves) == Append(book, Entry(o, leaves))
      oneLot == TradeNews(n, o.req, o.qty, o.qty - 1, 1)
  IN { Outcome(Done(4, n), booked(o.qty), <<>>),
       Outcome(Done(2, n), booked(0), <<TradeNews(n, o.req, o.qty, 0, o.qty)>>),
       Outcome(Done(1, 0), book, <<>>),
       Outcome(Refused, book, <<>>) }
     \cup IF o.qty = 1 THEN {} ELSE
     { Outcome(Done(6, n), booked(o.qty - 1), <<oneLot>>),
       Outcome(Done(3, n), Append(book, [Entry(o, o.qty - 1) EXCEPT !.leaves = 0]),
               <<oneLot, DeleteNews(n)>>) }

Live(n) == n \in DOMAIN book /\ book[n].leaves > 0

NotFound == { Outcome(Done(0, TxId), book, <<>>), Outcome(Refused, book, <<>>) }

\* MO33: the balance of a live order becomes the absolute quantity sent, and
\* txstatus is the number of contracts before the change.
AlterOutcomes(o) ==
  IF Live(o.num)
  THEN { Outcome(Done(book[o.num].leaves, TxId),
                 [book EXCEPT ![o.num].qty = o.qty, ![o.num].leaves = o.qty],
                 <<>>) }
  ELSE NotFound

\* MO4: txstatus is 0 or the number of contracts before the deletion.
DeleteOutcomes(o) ==
  IF Live(o.num)
  THEN { Outcome(Done(txstatus, TxId),
                 [book EXCEPT ![o.num].leaves = 0],
                 <<DeleteNews(o.num)>>) : txstatus \in {0, book[o.num].leaves} }
  ELSE NotFound

Outcomes(o) ==
  CASE o.act = "NEW" -> EnterOutcomes(o)
    [] o.act = "MOD" -> AlterOutcomes(o)
    [] o.act = "CXL" -> DeleteOutcomes(o)

\* A booked order trades one lot or all it has left.  Whether the broadcast
\* names the quantity entered or what was left before the trade is not known.
MarketTrade(n) ==
  /\ Live(n)
  /\ \E traded \in {1, book[n].leaves}, named \in {book[n].qty, book[n].leaves} :
       LET left == book[n].leaves - traded IN
       /\ book' = [book EXCEPT ![n].leaves = left, ![n].traded = @ + traded]
       /\ tape' = Append(tape, TradeNews(n, book[n].req, named, left, traded))

\* The exchange takes a booked order out, unasked.
MarketDelete(n) ==
  /\ Live(n)
  /\ book' = [book EXCEPT ![n].leaves = 0]
  /\ tape' = Append(tape, DeleteNews(n))

Market == \E n \in DOMAIN book : MarketTrade(n) \/ MarketDelete(n)
=============================================================================
