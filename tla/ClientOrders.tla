---------------------------- MODULE ClientOrders ----------------------------
(***************************************************************************)
(* The way of a client's order through the server and back, with CME as    *)
(* the exchange: OrderHandlerZmqV6 and the table of OrderManagerV5 that    *)
(* two threads share, the queue to the exchange's handler, the reports     *)
(* CmeGT5 makes of the exchange's messages, Raptor2's routing of them, and *)
(* the reports the client gets.                                            *)
(*                                                                         *)
(* Threads: `zmq' takes the client's requests; the handler's thread sends  *)
(* them; `raptor' runs the callbacks; `reporter' is OrderManagerV5::Run.   *)
(* The table has no lock; an OrderPod is copied in one step here.          *)
(*                                                                         *)
(* The exchange acts on a request when it is sent, and a message of the    *)
(* exchange becomes the order pod of its callback at once: what lies       *)
(* between are FIFO queues (CmeSession).  A message that was lost and came *)
(* back with a retransmission is flagged.                                  *)
(***************************************************************************)
EXTENDS Integers, Sequences, FiniteSets

CONSTANTS
    Orders,        \* the client's orders
    None,          \* no order
    MaxQty,        \* bound: quantity a request asks for
    MaxRequests,   \* bound: modifications and cancellations
    MaxResent,     \* bound: retransmitted messages and status reports
    MaxRefused,    \* bound: requests the handler cannot send
    MaxUsed        \* bound: all of these together

ASSUME OrderConstants ==
    /\ None \notin Orders
    /\ MaxQty \in Nat \ {0}
    /\ {MaxRequests, MaxResent, MaxRefused, MaxUsed} \subseteq Nat

VARIABLES
    loaded,     \* OrderRecoveryService::_apiorders, read from the API at the start
    stored,     \* OrderManagerV5::_ords
    prev,       \* OrderHandlerZmqV6::reqIdToPrevOrderMap: leaves -1 for no entry
    zmq,        \* the request the ZMQ thread is handling
    cmds,       \* ExchangeManager::_qcmds
    ex,         \* the exchange's book
    podNum,     \* ordernum left in the pod of OrderPodPool: the order it names
    responses,  \* qExchOrdsToProcess
    raptor,     \* the callback the Raptor thread is running
    reports,    \* OrderManagerV5::_qOrdProcessed
    told,       \* what the client was told of its orders
    spoiled,    \* what happened to an order that its record may not survive
    used        \* requests, retransmissions and refusals so far

vars == <<loaded, stored, prev, zmq, cmds, ex, podNum, responses, raptor, reports, told,
          spoiled, used>>

Limit == [requests |-> MaxRequests, resent |-> MaxResent, refused |-> MaxRefused]

MayUse(what) ==
    used[what] < Limit[what] /\ used.requests + used.resent + used.refused < MaxUsed

Use(what) ==
    /\ MayUse(what)
    /\ used' = [used EXCEPT ![what] = @ + 1]

Sent == {"sent_new", "sent_mod", "sent_cxl"}

\* What may come between an order and its record: a request that overlapped a
\* callback, or another request; a modification rejected after a fill; a request
\* that was not sent; a message that was lost and retransmitted.
Mishaps == {"race", "pipeline", "reject", "refused", "retransmit"}

Spoil(o, what) == spoiled' = [spoiled EXCEPT ![o] = @ \cup what]

Open(o) == IF ex[o].st = "live" THEN ex[o].qty - ex[o].cum ELSE 0

NoPod == [status |-> "none", state |-> "none", fill |-> 0, leaves |-> 0,
          last |-> 0, fillType |-> "UNKNOWN", num |-> None]

NoEntry == [NoPod EXCEPT !.leaves = -1]

Idle == [pc |-> "idle", o |-> None]

-----------------------------------------------------------------------------
(* The ZMQ thread.                                                         *)

Push(queue, x) == queue' = Append(queue, x)

HandleNewOrder(o, q) ==
    /\ zmq = Idle /\ stored[o].status = "none"
    /\ stored' = [stored EXCEPT ![o] =
            [NoPod EXCEPT !.status = "sent_new", !.leaves = q, !.num = o]]
    /\ Push(cmds, [o |-> o, kind |-> "new", leaves |-> q, fill |-> 0])
    /\ UNCHANGED <<loaded, prev, zmq, ex, podNum, responses, raptor, reports, told,
                   spoiled, used>>

\* The front end offers these on orders it shows as active.
MayRequest(o) ==
    zmq = Idle /\ told[o].state = "WORKING"

InFlight(o) == raptor.o = o

Answers == {"mod", "cxl", "replrej", "cxlrej"}

\* A request of the order is on its way, or its answer is.
Outstanding(o) ==
    \/ \E i \in DOMAIN cmds : cmds[i].o = o
    \/ \E i \in DOMAIN responses : responses[i].o = o /\ responses[i].kind \in Answers
    \/ InFlight(o)

Begin(o, kind, q) ==
    /\ MayRequest(o)
    /\ zmq' = [pc |-> "snapshot", o |-> o, kind |-> kind, asked |-> q, ord |-> stored[o]]
    /\ Spoil(o, IF Outstanding(o) THEN {"pipeline"} ELSE {})
    /\ Use("requests")
    /\ UNCHANGED <<loaded, stored, prev, cmds, ex, podNum, responses, raptor,
                   reports, told>>

HandleModifyOrder(o, q) == Begin(o, "mod", q)

HandleCancelOrder(o) == Begin(o, "cxl", 0)

\* Mutant of Snapshot: no copy is kept of the order as it was.
MutSnapshot ==
    /\ zmq.pc = "snapshot"
    /\ zmq' = [zmq EXCEPT !.pc = "send"]
    /\ UNCHANGED <<loaded, stored, prev, cmds, ex, podNum, responses, raptor,
                   reports, told, spoiled, used>>

Snapshot ==
    /\ zmq.pc = "snapshot"
    /\ prev' = [prev EXCEPT ![zmq.o] = zmq.ord]
    /\ zmq' = [zmq EXCEPT !.pc = "send"]
    /\ Spoil(zmq.o, IF InFlight(zmq.o) THEN {"race"} ELSE {})
    /\ UNCHANGED <<loaded, stored, cmds, ex, podNum, responses, raptor, reports,
                   told, used>>

\* The request as it goes out, made of the copy of the order.
Request ==
    LET ord == [zmq.ord EXCEPT !.num = zmq.o]
    IN  IF zmq.kind = "mod"
        THEN [ord EXCEPT !.status = "sent_mod", !.leaves = zmq.asked]
        ELSE [ord EXCEPT !.status = "sent_cxl"]

SendOrder ==
    /\ zmq.pc = "send"
    /\ stored' = [stored EXCEPT ![zmq.o] = Request]
    /\ Push(cmds, [o |-> zmq.o, kind |-> zmq.kind, leaves |-> Request.leaves,
                   fill |-> Request.fill])
    /\ zmq' = Idle
    /\ Spoil(zmq.o, IF InFlight(zmq.o) THEN {"race"} ELSE {})
    /\ UNCHANGED <<loaded, prev, ex, podNum, responses, raptor, reports, told, used>>

ZmqThread == Snapshot \/ SendOrder

-----------------------------------------------------------------------------
(* The exchange's messages as CmeGT5 passes them on.                       *)

Pod(kind, o, last, book, again) ==
    [kind |-> kind, o |-> o, last |-> last, cum |-> book.cum,
     leaves |-> IF book.st = "live" THEN book.qty - book.cum ELSE 0,
     num |-> None, again |-> again]

\* A message may have been lost first, and be a retransmission.
Flags == {"no", "retransmit"}

Flagged(again) == IF again = "no" THEN UNCHANGED used ELSE Use("resent")

\* onExecRptNew, onExecRptCancel: nothing of the pod but what the message gives
\* reaches the client.  onExecRptModify does not set the pod's ordernum.
Emit(kind, o, last, book, again) ==
    LET pod == Pod(kind, o, last, book, again)
    IN  /\ Push(responses, IF kind = "mod" THEN [pod EXCEPT !.num = podNum] ELSE pod)
        /\ podNum' = IF kind = "fill" THEN o ELSE podNum
        /\ ex' = [ex EXCEPT ![o] = book]
        /\ Flagged(again)

Reply(cmd, kind, book) ==
    \E again \in Flags : Emit(kind, cmd.o, 0, book, again)

AcceptNew(cmd) ==
    Reply(cmd, "ack", [st |-> "live", qty |-> cmd.leaves, cum |-> 0])

\* ModifyOrderEncodeMan, with OFMOverride enabled.
OrderQty(cmd) == cmd.leaves + cmd.fill

\* A modification to no more than what is filled ends the order.
AcceptModify(cmd) ==
    LET book == [ex[cmd.o] EXCEPT !.qty = OrderQty(cmd)]
    IN  IF book.qty > book.cum
        THEN Reply(cmd, "mod", book)
        ELSE Reply(cmd, "cxl", [ex[cmd.o] EXCEPT !.st = "dead"])

Accept(cmd) ==
    \/ cmd.kind = "new" /\ AcceptNew(cmd)
    \/ cmd.kind = "mod" /\ ex[cmd.o].st = "live" /\ AcceptModify(cmd)
    \/ /\ cmd.kind = "cxl" /\ ex[cmd.o].st = "live"
       /\ Reply(cmd, "cxl", [ex[cmd.o] EXCEPT !.st = "dead"])

Reject(cmd) ==
    \/ cmd.kind = "new" /\ Reply(cmd, "rej", [ex[cmd.o] EXCEPT !.st = "dead"])
    \/ cmd.kind = "mod" /\ Reply(cmd, "replrej", ex[cmd.o])
    \/ cmd.kind = "cxl" /\ Reply(cmd, "cxlrej", ex[cmd.o])

\* The handler's thread takes a command and the exchange acts on it.
Send ==
    /\ cmds # <<>> /\ cmds' = Tail(cmds)
    /\ Accept(Head(cmds)) \/ Reject(Head(cmds))
    /\ UNCHANGED <<loaded, stored, prev, zmq, raptor, reports, told, spoiled>>

\* No connection, or a session state in which nothing is sent: a notification is
\* posted, and no report of the order is made.
SendRefused ==
    /\ cmds # <<>>
    /\ cmds' = Tail(cmds)
    /\ Spoil(Head(cmds).o, {"refused"})
    /\ Use("refused")
    /\ UNCHANGED <<loaded, stored, prev, zmq, ex, podNum, responses, raptor, reports,
                   told>>

Trade(o, n) ==
    /\ n <= Open(o)
    /\ \E again \in Flags :
        Emit("fill", o, n,
             [ex[o] EXCEPT !.cum = @ + n,
                           !.st = IF ex[o].cum + n = ex[o].qty THEN "dead" ELSE "live"],
             again)
    /\ UNCHANGED <<loaded, stored, prev, zmq, cmds, raptor, reports, told, spoiled>>

Eliminate(o) ==
    /\ ex[o].st = "live"
    /\ \E again \in Flags : Emit("elim", o, 0, [ex[o] EXCEPT !.st = "dead"], again)
    /\ UNCHANGED <<loaded, stored, prev, zmq, cmds, raptor, reports, told, spoiled>>

\* The answer to the status request CmeGT5 sends at the end of a login.
StatusReport(o) ==
    /\ ex[o].st = "live"
    /\ \/ ex[o].cum = 0 /\ Emit("ack", o, 0, ex[o], "status")
       \/ ex[o].cum > 0 /\ Emit("status", o, 0, ex[o], "status")
    /\ UNCHANGED <<loaded, stored, prev, zmq, cmds, raptor, reports, told, spoiled>>

-----------------------------------------------------------------------------
(* The Raptor thread: onExchOrdEvent, and the callback it routes to.       *)

\* FILLED, or PARTIALLY_FILLED.
StatusOf(pod) ==
    CASE pod.kind = "ack" -> "NEW"
      [] pod.kind = "mod" -> "MODIFIED"
      [] pod.kind \in {"cxl", "elim"} -> "CANCELED"
      [] pod.kind = "rej" -> "REJECTED"
      [] pod.kind \in {"fill", "status"} ->
            IF pod.leaves = 0 THEN "FILLED" ELSE "PARTIALLY_FILLED"
      [] pod.kind = "cxlrej" -> "CXL_REJECT"
      [] pod.kind = "replrej" -> "CXL_REPL_REJECT"

StateOf(pod) == IF pod.kind \in {"ack", "mod"} \/ pod.leaves > 0 THEN "WORKING" ELSE "COMPLETE"

\* minOrderCancelReject and minOrderCancelReplaceReject do not look at the flag.
IsAgain(pod) == pod.again # "no" /\ pod.kind \notin {"cxlrej", "replrej"}

\* AddOrderFromStatusRequest, for an order of the recovery service: the record
\* becomes the pod.  onExecRptElimination gives no quantity filled.
AsLoaded(pod) ==
    [status |-> StatusOf(pod), state |-> StateOf(pod), leaves |-> pod.leaves,
     fill |-> IF pod.kind = "elim" THEN 0 ELSE pod.cum,
     last |-> 0, fillType |-> "UNKNOWN", num |-> pod.o]

Base(pod) == IF IsAgain(pod) THEN AsLoaded(pod) ELSE stored[pod.o]

\* Mutant of MinOrderUpdate: the fill type of the last fill stays in the record.
MutMinOrderUpdate(pod) ==
    [Base(pod) EXCEPT !.status = StatusOf(pod), !.state = StateOf(pod),
                      !.leaves = pod.leaves]

\* minOrderAck, minOrderModify, minOrderCancel.
MinOrderUpdate(pod) ==
    [Base(pod) EXCEPT !.status = StatusOf(pod), !.state = StateOf(pod),
                      !.leaves = pod.leaves, !.fillType = "UNKNOWN",
                      !.num = IF pod.num # None /\ ~IsAgain(pod) THEN pod.num ELSE @]

\* Mutant of MinOrderExecution: the cumulative quantity is added.
MutMinOrderExecution(pod) ==
    [Base(pod) EXCEPT !.last = pod.last, !.fill = @ + pod.cum, !.leaves = pod.leaves,
                      !.status = StatusOf(pod), !.state = StateOf(pod),
                      !.fillType = "OUTRIGHT_FILL"]

MinOrderExecution(pod) ==
    LET last == IF IsAgain(pod) THEN 0 ELSE pod.last
    IN  [Base(pod) EXCEPT !.last = last, !.fill = @ + last, !.leaves = pod.leaves,
                          !.status = StatusOf(pod), !.state = StateOf(pod),
                          !.fillType = IF pod.kind = "fill" THEN "OUTRIGHT_FILL" ELSE "UNKNOWN"]

Updated(pod) ==
    IF pod.kind \in {"fill", "status"} THEN MinOrderExecution(pod) ELSE MinOrderUpdate(pod)

Pop == responses # <<>> /\ responses' = Tail(responses)

Raced(o) == IF zmq.o = o THEN {"race"} ELSE {}

Report(o, ord, rejected) == Push(reports, [o |-> o, ord |-> ord, rejected |-> rejected])

\* ProcessOrderStatus: an order the recovery service did not load is not found.
Drop ==
    LET pod == Head(responses)
    IN  /\ Pop /\ raptor = Idle
        /\ IsAgain(pod) /\ pod.o \notin loaded
        /\ Spoil(pod.o, {pod.again} \cap Mishaps)
        /\ UNCHANGED <<loaded, stored, prev, zmq, cmds, ex, podNum, raptor, reports,
                       told, used>>

Apply ==
    LET pod == Head(responses)
    IN  /\ Pop /\ raptor = Idle
        /\ IsAgain(pod) => pod.o \in loaded
        /\ pod.kind \in {"ack", "mod", "cxl", "elim", "fill", "status"}
        /\ stored' = [stored EXCEPT ![pod.o] = Updated(pod)]
        /\ raptor' = [pc |-> "report", o |-> pod.o, pod |-> pod]
        /\ Spoil(pod.o, Raced(pod.o) \cup ({pod.again} \cap Mishaps))
        /\ UNCHANGED <<loaded, prev, zmq, cmds, ex, podNum, reports, told, used>>

Forgets(pod) ==
    pod.kind \in {"mod", "cxl", "elim"} \/ (pod.kind = "fill" /\ pod.leaves = 0)

\* The report is a copy of the record as it is now.
ProcessOrder ==
    /\ raptor.pc = "report"
    /\ Report(raptor.o, stored[raptor.o], FALSE)
    /\ raptor' = IF Forgets(raptor.pod) THEN [raptor EXCEPT !.pc = "forget"] ELSE Idle
    /\ UNCHANGED <<loaded, stored, prev, zmq, cmds, ex, podNum, responses, told,
                   spoiled, used>>

Forget ==
    /\ raptor.pc = "forget"
    /\ prev' = [prev EXCEPT ![raptor.o] = NoEntry]
    /\ raptor' = Idle
    /\ UNCHANGED <<loaded, stored, zmq, cmds, ex, podNum, responses, reports, told,
                   spoiled, used>>

\* The record stays as it was sent.
MinOrderReject ==
    LET pod == Head(responses)
    IN  /\ Pop /\ raptor = Idle
        /\ pod.kind = "rej" /\ ~IsAgain(pod)
        /\ Report(pod.o, [NoPod EXCEPT !.status = "REJECTED", !.state = "COMPLETE"], FALSE)
        /\ UNCHANGED <<loaded, stored, prev, zmq, cmds, ex, podNum, raptor, told,
                       spoiled, used>>

TakeSnapshot ==
    LET pod == Head(responses)
    IN  /\ Pop /\ raptor = Idle
        /\ pod.kind \in {"cxlrej", "replrej"}
        /\ prev' = [prev EXCEPT ![pod.o] = NoEntry]
        /\ raptor' = IF pod.kind = "replrej" /\ prev[pod.o] = NoEntry THEN Idle
                     ELSE [pc |-> pod.kind, o |-> pod.o, pod |-> pod, old |-> prev[pod.o]]
        /\ Spoil(pod.o, Raced(pod.o))
        /\ UNCHANGED <<loaded, stored, zmq, cmds, ex, podNum, reports, told, used>>

\* Mutant of MinOrderCancelReject: the snapshot's quantity is restored as well,
\* without a test that there is one.
MutMinOrderCancelReject ==
    LET o == raptor.o
        ord == [stored[o] EXCEPT !.status = raptor.old.status, !.leaves = raptor.old.leaves]
    IN  /\ raptor.pc = "cxlrej"
        /\ stored' = [stored EXCEPT ![o] = ord]
        /\ Report(o, ord, TRUE)
        /\ raptor' = Idle
        /\ UNCHANGED <<loaded, prev, zmq, cmds, ex, podNum, responses, told, spoiled, used>>

MinOrderCancelReject ==
    LET o == raptor.o
        ord == [stored[o] EXCEPT !.status =
                    IF raptor.old = NoEntry THEN StatusOf(raptor.pod) ELSE raptor.old.status]
    IN  /\ raptor.pc = "cxlrej"
        /\ stored' = [stored EXCEPT ![o] = ord]
        /\ Report(o, ord, TRUE)
        /\ raptor' = Idle
        /\ Spoil(o, Raced(o))
        /\ UNCHANGED <<loaded, prev, zmq, cmds, ex, podNum, responses, told, used>>

\* Mutant of MinOrderCancelReplaceReject: the quantity asked for stays.
MutMinOrderCancelReplaceReject ==
    LET o == raptor.o
        old == raptor.old
    IN  /\ raptor.pc = "replrej"
        /\ stored' = [stored EXCEPT ![o].status = old.status, ![o].state = old.state]
        /\ Report(o, stored'[o], FALSE)
        /\ raptor' = Idle
        /\ Spoil(o, Raced(o))
        /\ UNCHANGED <<loaded, prev, zmq, cmds, ex, podNum, responses, told, used>>

MinOrderCancelReplaceReject ==
    LET o == raptor.o
        old == raptor.old
    IN  /\ raptor.pc = "replrej"
        /\ stored' = [stored EXCEPT ![o].leaves = old.leaves, ![o].status = old.status,
                                    ![o].state = old.state]
        /\ Report(o, [old EXCEPT !.fillType = "UNKNOWN", !.num = o], FALSE)
        /\ raptor' = Idle
        /\ Spoil(o, Raced(o) \cup (IF old.fill # stored[o].fill THEN {"reject"} ELSE {}))
        /\ UNCHANGED <<loaded, prev, zmq, cmds, ex, podNum, responses, told, used>>

Raptor ==
    \/ Drop \/ Apply \/ ProcessOrder \/ Forget
    \/ MinOrderReject \/ TakeSnapshot \/ MinOrderCancelReject \/ MinOrderCancelReplaceReject

-----------------------------------------------------------------------------
(* The reporter.                                                           *)

\* OrderManagerV5::Run.  A rejected cancellation is reported with the quantities
\* of the record as it is by now.  The erase of a filled order removes nothing:
\* the body of CustomHFTMap::erase is empty; and get never returns nullptr.
Run ==
    LET r == Head(reports)
        o == r.o
    IN  /\ reports # <<>> /\ reports' = Tail(reports)
        /\ told' = [told EXCEPT ![o] =
                [state |-> r.ord.state, num |-> r.ord.num,
                 leaves |-> IF r.rejected THEN stored[o].leaves ELSE r.ord.leaves,
                 fills |-> @.fills + (IF r.ord.fillType = "OUTRIGHT_FILL" /\ ~r.rejected
                                      THEN r.ord.last ELSE 0)]]
        /\ UNCHANGED <<loaded, stored, prev, zmq, cmds, ex, podNum, responses,
                       raptor, spoiled, used>>

-----------------------------------------------------------------------------
(* The whole.                                                              *)

\* The constructor of OrderHandlerZmqV6 takes the loaded orders into the table,
\* as UpdateFromApi leaves them.
LoadedRecord(o, book) ==
    [status |-> IF book.cum = 0 THEN "NEW" ELSE "PARTIALLY_FILLED", state |-> "WORKING",
     fill |-> book.cum, leaves |-> book.qty - book.cum, last |-> 0,
     fillType |-> "UNKNOWN", num |-> o]

Books == {b \in [st : {"live"}, qty : 1 .. MaxQty, cum : 0 .. MaxQty] : b.cum < b.qty}

Init ==
    /\ loaded \in SUBSET Orders
    /\ ex \in [Orders -> Books \cup {[st |-> "none", qty |-> 0, cum |-> 0]}]
    /\ \A o \in Orders : ex[o].st = "live" <=> o \in loaded
    /\ stored = [o \in Orders |-> IF o \in loaded THEN LoadedRecord(o, ex[o]) ELSE NoPod]
    /\ told = [o \in Orders |->
            [state |-> IF o \in loaded THEN "WORKING" ELSE "none",
             leaves |-> Open(o), fills |-> ex[o].cum, num |-> o]]
    /\ prev = [o \in Orders |-> NoEntry]
    /\ zmq = Idle /\ raptor = Idle /\ podNum = None
    /\ cmds = <<>> /\ responses = <<>> /\ reports = <<>>
    /\ spoiled = [o \in Orders |-> {}]
    /\ used = [requests |-> 0, resent |-> 0, refused |-> 0]

Client(o) ==
    (\E q \in 1 .. MaxQty : HandleNewOrder(o, q) \/ HandleModifyOrder(o, q))
        \/ HandleCancelOrder(o)

Exchange(o) == (\E n \in 1 .. MaxQty : Trade(o, n)) \/ Eliminate(o)
                   \/ StatusReport(o)

Next ==
    \/ \E o \in Orders : Client(o) \/ Exchange(o)
    \/ ZmqThread
    \/ Send \/ SendRefused
    \/ Raptor
    \/ Run

\* Every thread of the program runs on.
Fairness ==
    WF_vars(ZmqThread) /\ WF_vars(Send \/ SendRefused) /\ WF_vars(Raptor) /\ WF_vars(Run)

Spec == Init /\ [][Next]_vars /\ Fairness

-----------------------------------------------------------------------------
(* Properties.                                                             *)

MaxLot == MaxQty * (MaxRequests + 2)

Records ==
    [status : Sent \cup {"none", "NEW", "MODIFIED", "CANCELED", "REJECTED", "FILLED",
                         "PARTIALLY_FILLED", "CXL_REJECT"},
     state : {"none", "WORKING", "COMPLETE"}, fill : 0 .. MaxLot, leaves : 0 .. MaxLot,
     last : 0 .. MaxQty, fillType : {"UNKNOWN", "OUTRIGHT_FILL"}, num : Orders \cup {None}]

\* Every variable has its type, and a quantity is what was asked for and what was
\* traded before.  A fill told again, after a race, has no such bound.
TypeOK ==
    /\ loaded \subseteq Orders
    /\ stored \in [Orders -> Records]
    /\ \A o \in Orders : prev[o] \in Records \cup {NoEntry}
    /\ zmq.pc \in {"idle", "snapshot", "send"} /\ zmq.o \in Orders \cup {None}
    /\ zmq # Idle => /\ zmq.ord \in Records
                     /\ zmq.kind \in {"mod", "cxl"} /\ zmq.asked \in 0 .. MaxQty
    /\ cmds \in Seq([o : Orders, kind : {"new", "mod", "cxl"},
                     leaves : 0 .. MaxLot, fill : 0 .. MaxLot])
    /\ ex \in [Orders -> [st : {"none", "live", "dead"}, qty : 0 .. MaxLot, cum : 0 .. MaxLot]]
    /\ podNum \in Orders \cup {None}
    /\ responses \in Seq([kind : Answers \cup {"ack", "rej", "fill", "elim", "status"},
                          o : Orders, last : 0 .. MaxQty, cum : 0 .. MaxLot,
                          leaves : 0 .. MaxLot, num : Orders \cup {None},
                          again : {"no", "retransmit", "status"}])
    /\ raptor.pc \in {"idle", "report", "forget", "cxlrej", "replrej"}
    /\ reports \in Seq([o : Orders, ord : Records, rejected : BOOLEAN])
    /\ \A o \in Orders : told[o].leaves \in 0 .. MaxLot /\ told[o].fills \in Nat
    /\ spoiled \in [Orders -> SUBSET Mishaps]
    /\ used \in [requests : 0 .. MaxRequests, resent : 0 .. MaxResent, refused : 0 .. MaxRefused]

\* The record never counts more than the exchange traded, whatever races,
\* retransmissions, status reports and rejections do to it
\* (minOrderExecution, AddOrderFromStatusRequest).
NeverOverstated == \A o \in Orders : stored[o].fill <= ex[o].cum

\* No modification leaves more of an order in the market than the client asked
\* for, however the fills it did not know of come in between
\* (HandleModifyOrder, ModifyOrderEncodeMan).
NeverMoreThanAsked ==
    [][\A o \in Orders : ex[o].st = "live" /\ ex'[o].qty # ex[o].qty =>
            ex'[o].qty - ex'[o].cum <= Head(cmds).leaves]_vars

Quiet(o) ==
    /\ zmq.o # o /\ raptor.o # o
    /\ \A i \in DOMAIN cmds : cmds[i].o # o
    /\ \A i \in DOMAIN responses : responses[i].o # o
    /\ \A i \in DOMAIN reports : reports[i].o # o

\* When everything about an order has arrived and none of the named mishaps was
\* met, the client was told what the exchange has: whether the order is live, and
\* how much of it is open, through fills that cross modifications, cancellations
\* and their rejections (minOrderUpdate, minOrderExecution, the reject callbacks).
ToldWhatIsOpen ==
    \A o \in Orders : Quiet(o) /\ spoiled[o] = {} /\ ex[o].st # "none" =>
        /\ told[o].leaves = Open(o)
        /\ told[o].state = "WORKING" <=> ex[o].st = "live"

\* Each fill is told exactly once, unless it came with a retransmission or its
\* report was made of a record the ZMQ thread was overwriting: no rejection,
\* pipelined request or refused one loses or repeats a fill
\* (minOrderExecution, ProcessOrder, Run).
FillsToldOnce ==
    \A o \in Orders : Quiet(o) /\ spoiled[o] \cap {"race", "retransmit"} = {} =>
        told[o].fills = ex[o].cum

\* An order does not stay in a state of having been sent: a new one is told of, a
\* modification or a cancellation is resolved, unless a request raced with a
\* callback, was pipelined or not sent, or the answer was a retransmission
\* (minOrderUpdate, minOrderReject, the reject callbacks).
SentIsResolved ==
    \A o \in Orders :
        LET waits == \/ stored[o].status = "sent_new" /\ told[o].state = "none"
                     \/ stored[o].status \in {"sent_mod", "sent_cxl"}
        IN  waits /\ spoiled[o] \subseteq {"reject"} ~>
                ~waits \/ ~(spoiled[o] \subseteq {"reject"})

\* A fill that was lost and retransmitted is counted in the record of an order
\* that is still live ("check and see if we have this order's request id and meta
\* info, otherwise, fill it in", OrderHandlerZmqV6.hpp:299).
RetransmittedFillCounts ==
    \A o \in Orders : Quiet(o) /\ spoiled[o] \subseteq {"retransmit"} /\ ex[o].st = "live" =>
        stored[o].fill = ex[o].cum

=============================================================================
