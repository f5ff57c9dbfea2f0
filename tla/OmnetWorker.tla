----------------------------- MODULE OmnetWorker -----------------------------
(***************************************************************************)
(* OmnetWorker: the threads that submit orders.  Each owns one session,    *)
(* takes orders from its SPSC order queue, carries each out as one         *)
(* blocking OMnet transaction and puts the answer in its SPSC response     *)
(* queue.  A transaction that finds the session dead is repeated once,     *)
(* after a reconnect.                                                      *)
(*                                                                         *)
(* A worker's steps are split where the exchange, the gateway or another   *)
(* thread can act in between: the two ends of the blocking call, the       *)
(* backoff, the login and the queries of a reconnect.  The two queues are  *)
(* bounded sequences, which is what SPSCRing is shown to implement.        *)
(* Waiting times are left out, and with them _reconnectAttempt, which only *)
(* sets them; so are the settlement queries of the first worker.           *)
(***************************************************************************)
EXTENDS OmnetExchange, OmnetSession, FiniteSets

CONSTANTS
  Workers,             \* the workers, each a session of its own
  FirstWorker,         \* Worker[0], the one that queries the series
  OrderQueueBound,     \* what _orderQueue holds
  ResponseQueueBound   \* what _responseQueue holds

ASSUME WorkersAssumption == Workers \subseteq Sessions /\ FirstWorker \in Workers
ASSUME BoundsAssumption ==
  OrderQueueBound \in Nat \ {0} /\ ResponseQueueBound \in Nat \ {0}

VARIABLES
  wpc,        \* where the worker's thread is
  active,     \* _active
  setup,      \* _setupDone and _setupOk: "pending", "ok" or "failed"
  ready,      \* _readyToTrade
  hasSeries,  \* whether the series cache knows the series of the orders
  orderQ,     \* _orderQueue, oldest first
  respQ,      \* _responseQueue, oldest first
  cur,        \* the order ProcessOrder is at work on, NoOrder if none
  retry,      \* whether the transaction in progress is the second one
  reply,      \* the exchange's answer to the transaction in progress
  (* what happened, for the properties *)
  ui1,        \* the gateway's answer to the last UI1 of the session's login
  heard,      \* the requests the exchange carried out or refused for each
              \* worker, in order
  lost,       \* the requests an answer to which never reached the worker
  answers,    \* the answers put in a response queue, of each request
  dropped,    \* the requests whose answer a full response queue dropped
  deferred    \* the requests left to the broadcasts to answer

threadVars == <<wpc, active, setup, ready, hasSeries, cur, retry, reply>>
queueVars == <<orderQ, respQ>>
ghostVars == <<ui1, heard, lost, answers, dropped, deferred>>
workerVars == <<threadVars, queueVars, ghostVars>>

Acts == {"NEW", "MOD", "CXL"}
Statuses ==
  {"SENT", "NEW", "MODIFIED", "CANCELED", "REJECTED", "PARTIALLY_FILLED", "FILLED"}

\* The order fields that matter here; num is exchordid.
OrderPod ==
  [req : Orders, act : Acts, qty : Qty, num : Int, status : Statuses, leaves : Nat, last : Nat]

NoOrder == [act |-> "NONE"]

\* An order sent by the client names one request.
Request(o) == <<o.req, o.act>>
Requests == Orders \X Acts

IsReady(w) == loggedIn[w] /\ ready[w]

Sent(req, act, qty, num) ==
  [req |-> req, act |-> act, qty |-> qty, num |-> num, status |-> "SENT", leaves |-> 0,
   last |-> 0]

WorkerInit ==
  /\ wpc = [w \in Workers |-> "none"]
  /\ active = [w \in Workers |-> FALSE]
  /\ setup = [w \in Workers |-> "pending"]
  /\ ready = [w \in Workers |-> FALSE]
  /\ hasSeries = [w \in Workers |-> FALSE]
  /\ orderQ = [w \in Workers |-> <<>>]
  /\ respQ = [w \in Workers |-> <<>>]
  /\ cur = [w \in Workers |-> NoOrder]
  /\ retry = [w \in Workers |-> FALSE]
  /\ reply = [w \in Workers |-> Refused]
  /\ ui1 = [w \in Workers |-> "none"]
  /\ heard = [w \in Workers |-> <<>>]
  /\ lost = {}
  /\ answers = [r \in Requests |-> <<>>]
  /\ dropped = {}
  /\ deferred = {}

-----------------------------------------------------------------------------
(* Helpers of the actions. *)

Goto(w, pc) == wpc' = [wpc EXCEPT ![w] = pc]

\* Mutant of Answer: the response queue has no limit.
MutAnswer(w, o) ==
  /\ respQ' = [respQ EXCEPT ![w] = Append(@, o)]
  /\ answers' = [answers EXCEPT ![Request(o)] = Append(@, o)]
  /\ UNCHANGED dropped

\* _responseQueue.enqueue(ord), its result ignored: a full queue drops it.
Answer(w, o) ==
  IF Len(respQ[w]) < ResponseQueueBound
  THEN /\ respQ' = [respQ EXCEPT ![w] = Append(@, o)]
       /\ answers' = [answers EXCEPT ![Request(o)] = Append(@, o)]
       /\ UNCHANGED dropped
  ELSE /\ dropped' = dropped \cup {Request(o)}
       /\ UNCHANGED <<respQ, answers>>

Status(o, status) == [o EXCEPT !.status = status]
Whole(o, status) == [o EXCEPT !.status = status, !.leaves = o.qty]

\* Mutant of Rejected: what the exchange refused is reported as done.
MutRejected(o) == Status(o, "CANCELED")

Rejected(o) == Status(o, "REJECTED")

\* Mutant of Numbered: the exchange's number is not kept.
MutNumbered(o, ordid) == o

\* memcpy(&ord.exchordid, &ordidQw): the order's number, or a transaction id.
Numbered(o, ordid) == [o EXCEPT !.num = ordid]

\* Mutant of FirstAnswer: the case of txstatus 4 falls through to the next.
MutFirstAnswer(o, txstatus, ordid) ==
  IF o.act = "NEW" /\ txstatus = 4
  THEN Status(Whole(Numbered(o, ordid), "NEW"), "CANCELED")
  ELSE Status(Numbered(o, ordid), "NEW")

\* ProcessOrder, a transaction carried out the first time.
FirstAnswer(o, txstatus, ordid) ==
  CASE o.act = "MOD" /\ txstatus > 0 -> Whole(o, "MODIFIED")
    [] o.act = "MOD" /\ txstatus = 0 -> Rejected(o)
    [] o.act = "CXL" -> Status(o, "CANCELED")
    [] o.act = "NEW" ->
         LET numbered == Numbered(o, ordid) IN
         CASE txstatus = 4 -> Whole(numbered, "NEW")
           [] txstatus \in {1, 17, 19} -> Status(numbered, "CANCELED")
           [] OTHER -> Status(numbered, "NEW")

\* Mutant of IsFillTx: the number of contracts before a change is taken for a
\* fill.
MutIsFillTx(o, txstatus) == txstatus \in {2, 3, 6}

\* The fills of a new order are left to the broadcasts.
IsFillTx(o, txstatus) == o.act = "NEW" /\ txstatus \in {2, 3, 6}

\* ProcessOrder, a transaction carried out the second time.
RetryAnswer(o, txstatus, ordid) ==
  LET numbered == IF o.act = "CXL" THEN o ELSE Numbered(o, ordid) IN
  CASE txstatus = 2 ->
         [Status(numbered, "FILLED") EXCEPT !.last = o.qty, !.leaves = 0]
    [] txstatus = 4 -> Status(numbered, "NEW")
    [] txstatus = 6 -> Status(numbered, "PARTIALLY_FILLED")
    [] txstatus \in {1, 17, 19} -> Status(numbered, "CANCELED")
    [] OTHER ->
         CASE o.act = "CXL" -> Status(numbered, "CANCELED")
           [] o.act = "MOD" -> Status(numbered, "MODIFIED")
           [] o.act = "NEW" -> Status(numbered, "NEW")

\* The end of ProcessOrder: back to the loop of Run.
Respond(w, o) ==
  /\ Answer(w, o)
  /\ cur' = [cur EXCEPT ![w] = NoOrder]
  /\ retry' = [retry EXCEPT ![w] = FALSE]
  /\ Goto(w, "loop")

\* Mutant of ReconnectFails: the order in hand is forgotten.
MutReconnectFails(w) ==
  /\ cur' = [cur EXCEPT ![w] = NoOrder]
  /\ Goto(w, "loop")
  /\ UNCHANGED <<respQ, answers, dropped, retry>>

\* Reconnect() returns false: to the loop, or to the end of ProcessOrder.
ReconnectFails(w) ==
  IF cur[w] = NoOrder
  THEN /\ Goto(w, "loop")
       /\ UNCHANGED <<respQ, answers, dropped, cur, retry>>
  ELSE Respond(w, Rejected(cur[w]))

\* Mutant of BeginReconnect: the worker stays ready to trade.
MutBeginReconnect(w) ==
  /\ Goto(w, "logout")
  /\ UNCHANGED ready

\* The head of Reconnect().
BeginReconnect(w) ==
  /\ ready' = [ready EXCEPT ![w] = FALSE]
  /\ Goto(w, "logout")

\* Mutant of SessionDead: repeated as often as it takes.
MutSessionDead(w) ==
  /\ BeginReconnect(w)
  /\ UNCHANGED <<respQ, answers, dropped, cur, retry>>

\* The transaction in progress failed with a status after which the session is
\* given up: the first time reconnect and repeat, the second time reject.
SessionDead(w) ==
  IF retry[w]
  THEN /\ Respond(w, Rejected(cur[w]))
       /\ UNCHANGED ready
  ELSE /\ BeginReconnect(w)
       /\ UNCHANGED <<respQ, answers, dropped, cur, retry>>

-----------------------------------------------------------------------------
(* Start, Stop and the setup at the head of Run. *)

\* Start() up to its wait for _setupDone.
Start(w) ==
  /\ wpc[w] = "none"
  /\ active' = [active EXCEPT ![w] = TRUE]
  /\ setup' = [setup EXCEPT ![w] = "pending"]
  /\ Goto(w, "login")
  /\ UNCHANGED <<ready, hasSeries, cur, retry, reply, queueVars, ghostVars, exchVars, sessVars>>

SetupLogin(w) ==
  /\ wpc[w] = "login"
  /\ \/ /\ LoginSucceeds(w)
        /\ Goto(w, "setup")
        /\ ui1' = [ui1 EXCEPT ![w] = "none"]
        /\ UNCHANGED setup
     \/ /\ LoginFails(w)
        /\ setup' = [setup EXCEPT ![w] = "failed"]
        /\ Goto(w, "ended")
        /\ UNCHANGED ui1
  /\ UNCHANGED <<active, ready, hasSeries, cur, retry, reply, queueVars, heard, lost, answers,
                 dropped, deferred, exchVars>>

\* QueryInstruments and QueryInstrumentSeries, of the first worker only: they
\* empty the cache first, and what they fail to read stays missing.  A session
\* that is lost by now may have lived long enough for them.
Query(w) ==
  IF w = FirstWorker
  THEN \E known \in BOOLEAN : hasSeries' = [hasSeries EXCEPT ![w] = known]
  ELSE UNCHANGED hasSeries

\* Mutant of ReadyToTradeAccepted: the flag is left as Reconnect cleared it.
MutReadyToTradeAccepted(w) ==
  /\ Connected(w)
  /\ ui1' = [ui1 EXCEPT ![w] = "accepted"]
  /\ UNCHANGED <<ready, sessVars>>

\* SendReadyToTrade(): returns whether UI1 was accepted.
ReadyToTradeAccepted(w) ==
  /\ Connected(w)
  /\ ready' = [ready EXCEPT ![w] = TRUE]
  /\ ui1' = [ui1 EXCEPT ![w] = "accepted"]
  /\ UNCHANGED sessVars

ReadyToTradeFails(w) ==
  \/ /\ Connected(w)
     /\ ui1' = [ui1 EXCEPT ![w] = "refused"]
     /\ UNCHANGED <<ready, sessVars>>
  \/ /\ ~Connected(w)
     /\ TxFailed(w, DeadStatus(w))
     /\ UNCHANGED <<ready, ui1>>

\* The queries, SubscribeAll and UI1; the setup succeeds whatever UI1 does.
SetupFinish(w) ==
  /\ wpc[w] = "setup"
  /\ Query(w)
  /\ ReadyToTradeAccepted(w) \/ ReadyToTradeFails(w)
  /\ setup' = [setup EXCEPT ![w] = "ok"]
  /\ Goto(w, "loop")
  /\ UNCHANGED <<active, cur, retry, reply, queueVars, heard, lost, answers, dropped,
                 deferred, exchVars>>

\* Stop() up to the join, then after it.
RequestStop(w) ==
  /\ active' = [active EXCEPT ![w] = FALSE]
  /\ UNCHANGED <<wpc, setup, ready, hasSeries, cur, retry, reply, queueVars, ghostVars,
                 exchVars, sessVars>>

Join(w) ==
  /\ wpc[w] = "ended"
  /\ ~active[w]
  /\ Logout(w)
  /\ Goto(w, "joined")
  /\ UNCHANGED <<active, setup, ready, hasSeries, cur, retry, reply, queueVars, ghostVars, exchVars>>

-----------------------------------------------------------------------------
(* The loop of Run. *)

\* Mutant of LeaveLoop: a stop waits for the orders in the queue.
MutLeaveLoop(w) ==
  /\ wpc[w] = "loop"
  /\ ~active[w]
  /\ orderQ[w] = <<>>
  /\ Goto(w, "ended")
  /\ UNCHANGED <<active, setup, ready, hasSeries, cur, retry, reply, queueVars, ghostVars,
                 exchVars, sessVars>>

LeaveLoop(w) ==
  /\ wpc[w] = "loop"
  /\ ~active[w]
  /\ Goto(w, "ended")
  /\ UNCHANGED <<active, setup, ready, hasSeries, cur, retry, reply, queueVars, ghostVars,
                 exchVars, sessVars>>

\* An order is there: the head of ProcessOrder, up to the transaction.
TakeOrder(w) ==
  /\ wpc[w] = "loop"
  /\ active[w]
  /\ orderQ[w] # <<>>
  /\ orderQ' = [orderQ EXCEPT ![w] = Tail(@)]
  /\ LET o == Head(orderQ[w]) IN
     \/ /\ hasSeries[w] \/ o.act = "CXL"
        /\ cur' = [cur EXCEPT ![w] = o]
        /\ Goto(w, "transmit")
        /\ UNCHANGED <<respQ, answers, dropped, retry>>
     \/ /\ ~hasSeries[w] /\ o.act # "CXL"
        /\ Respond(w, Rejected(o))
  /\ UNCHANGED <<active, setup, ready, hasSeries, reply, ui1, heard, lost, deferred, exchVars,
                 sessVars>>

\* No order, and the session is known to be lost: Reconnect().
NoticeLoss(w) ==
  /\ wpc[w] = "loop"
  /\ active[w]
  /\ orderQ[w] = <<>>
  /\ ~loggedIn[w]
  /\ BeginReconnect(w)
  /\ UNCHANGED <<active, setup, hasSeries, cur, retry, reply, queueVars, ghostVars, exchVars, sessVars>>

\* No order for 30 seconds: a call that fails if the session is dead.
Keepalive(w) ==
  /\ wpc[w] = "loop"
  /\ active[w]
  /\ orderQ[w] = <<>>
  /\ loggedIn[w]
  /\ ~Connected(w)
  /\ MarkDead(w)
  /\ UNCHANGED <<workerVars, exchVars>>

-----------------------------------------------------------------------------
(* The transaction: ProcessOrder, from its SendTransaction on. *)

\* The request reaches the exchange, which acts on it.
Transmit(w) ==
  /\ wpc[w] = "transmit"
  /\ Connected(w)
  /\ \E outcome \in Outcomes(cur[w]) :
       /\ reply' = [reply EXCEPT ![w] = outcome.reply]
       /\ book' = outcome.book
       /\ tape' = tape \o outcome.news
  /\ heard' = [heard EXCEPT ![w] = Append(@, Request(cur[w]))]
  /\ Goto(w, "wait")
  /\ UNCHANGED <<active, setup, ready, hasSeries, cur, retry, queueVars, ui1, lost, answers,
                 dropped, deferred, sessVars>>

\* The call fails before the request left.
TransmitFails(w) ==
  /\ wpc[w] = "transmit"
  /\ ~Connected(w)
  /\ TxFailed(w, DeadStatus(w))
  /\ SessionDead(w)
  /\ UNCHANGED <<active, setup, hasSeries, reply, orderQ, ui1, heard, lost, deferred, exchVars>>

\* The call returns with the exchange's answer, or with an error status of a
\* request the exchange did nothing about.
Complete(w) ==
  /\ wpc[w] = "wait"
  /\ Connected(w)
  /\ LET o == cur[w]  r == reply[w] IN
     \/ /\ r.ok /\ ~retry[w] /\ IsFillTx(o, r.txstatus)
        /\ deferred' = deferred \cup {Request(o)}
        /\ cur' = [cur EXCEPT ![w] = NoOrder]
        /\ Goto(w, "loop")
        /\ UNCHANGED <<respQ, answers, dropped, retry>>
     \/ /\ r.ok /\ ~retry[w] /\ ~IsFillTx(o, r.txstatus)
        /\ Respond(w, FirstAnswer(o, r.txstatus, r.ordid))
        /\ UNCHANGED deferred
     \/ /\ r.ok /\ retry[w]
        /\ Respond(w, RetryAnswer(o, r.txstatus, r.ordid))
        /\ UNCHANGED deferred
     \/ /\ ~r.ok
        /\ Respond(w, Rejected(o))
        /\ UNCHANGED deferred
  /\ reply' = [reply EXCEPT ![w] = Refused]
  /\ UNCHANGED <<active, setup, ready, hasSeries, orderQ, ui1, heard, lost, exchVars, sessVars>>

\* The call returns an error: the session went while the exchange was at work,
\* and the answer is lost.
LoseAnswer(w) ==
  /\ wpc[w] = "wait"
  /\ ~Connected(w)
  /\ TxFailed(w, DeadStatus(w))
  /\ lost' = lost \cup {Request(cur[w])}
  /\ SessionDead(w)
  /\ reply' = [reply EXCEPT ![w] = Refused]
  /\ UNCHANGED <<active, setup, hasSeries, orderQ, ui1, heard, deferred, exchVars>>

\* The call returns an error on a session that is still there, a timeout for
\* one, though the exchange acted: REJECTED at once, the first time and the
\* second.
AnswerTimesOut(w) ==
  /\ wpc[w] = "wait"
  /\ Connected(w)
  /\ lost' = lost \cup {Request(cur[w])}
  /\ Respond(w, Rejected(cur[w]))
  /\ reply' = [reply EXCEPT ![w] = Refused]
  /\ UNCHANGED <<active, setup, ready, hasSeries, orderQ, ui1, heard, deferred, exchVars, sessVars>>

-----------------------------------------------------------------------------
(* Reconnect. *)

ReconnectLogout(w) ==
  /\ wpc[w] = "logout"
  /\ Logout(w)
  /\ Goto(w, "backoff")
  /\ UNCHANGED <<active, setup, ready, hasSeries, cur, retry, reply, queueVars, ghostVars, exchVars>>

\* The backoff ends early because the worker is told to stop.
BackoffStopped(w) ==
  /\ wpc[w] = "backoff"
  /\ ~active[w]
  /\ ReconnectFails(w)
  /\ UNCHANGED <<active, setup, ready, hasSeries, reply, orderQ, ui1, heard, lost, deferred,
                 exchVars, sessVars>>

Relogin(w) ==
  /\ wpc[w] = "backoff"
  /\ active[w]
  /\ \/ /\ LoginSucceeds(w)
        /\ Goto(w, "requery")
        /\ ui1' = [ui1 EXCEPT ![w] = "none"]
        /\ UNCHANGED <<respQ, answers, dropped, cur, retry>>
     \/ /\ LoginFails(w)
        /\ ReconnectFails(w)
        /\ UNCHANGED ui1
  /\ UNCHANGED <<active, setup, ready, hasSeries, reply, orderQ, heard, lost, deferred, exchVars>>

\* The queries and UI1; on success an order in hand is transmitted again.
ReconnectFinish(w) ==
  /\ wpc[w] = "requery"
  /\ Query(w)
  /\ \/ /\ ReadyToTradeAccepted(w)
        /\ retry' = [retry EXCEPT ![w] = cur[w] # NoOrder]
        /\ Goto(w, IF cur[w] = NoOrder THEN "loop" ELSE "transmit")
        /\ UNCHANGED <<respQ, answers, dropped, cur>>
     \/ /\ ReadyToTradeFails(w)
        /\ ReconnectFails(w)
  /\ UNCHANGED <<active, setup, reply, orderQ, heard, lost, deferred, exchVars>>

WorkerStep(w) ==
  \/ SetupLogin(w) \/ SetupFinish(w)
  \/ LeaveLoop(w) \/ TakeOrder(w) \/ NoticeLoss(w) \/ Keepalive(w)
  \/ Transmit(w) \/ TransmitFails(w) \/ Complete(w) \/ LoseAnswer(w)
  \/ AnswerTimesOut(w)
  \/ ReconnectLogout(w) \/ BackoffStopped(w) \/ Relogin(w) \/ ReconnectFinish(w)

-----------------------------------------------------------------------------
(* Properties *)

PCs ==
  {"none", "login", "setup", "loop", "transmit", "wait", "logout", "backoff", "requery",
   "ended", "joined"}

WorkerTypeOK ==
  /\ wpc \in [Workers -> PCs]
  /\ active \in [Workers -> BOOLEAN]
  /\ setup \in [Workers -> {"pending", "ok", "failed"}]
  /\ ready \in [Workers -> BOOLEAN]
  /\ hasSeries \in [Workers -> BOOLEAN]
  /\ \A w \in Workers :
       /\ orderQ[w] \in Seq(OrderPod) /\ Len(orderQ[w]) <= OrderQueueBound
       /\ respQ[w] \in Seq(OrderPod) /\ Len(respQ[w]) <= ResponseQueueBound
       /\ cur[w] \in OrderPod \cup {NoOrder}
       /\ wpc[w] \in {"transmit", "wait"} => cur[w] # NoOrder
  /\ retry \in [Workers -> BOOLEAN]
  /\ ui1 \in [Workers -> {"none", "accepted", "refused"}]
  /\ lost \subseteq Requests
  /\ dropped \subseteq Requests
  /\ deferred \subseteq Requests

Answered(r) == answers[r] # <<>>

\* The times workers carried a request to the exchange: who did, and where it
\* is among what the exchange heard of that worker.
Hearings(r) == UNION {{w} \X {i \in DOMAIN heard[w] : heard[w][i] = r} : w \in Workers}
TimesHeard(r) == Cardinality(Hearings(r))

\* A request reaches the exchange a second time only because the answer to the
\* first was lost, and never a third time: the retry of ProcessOrder.
ResentOnlyAfterLoss ==
  \A r \in Requests :
    /\ TimesHeard(r) <= 2
    /\ TimesHeard(r) = 2 => r \in lost

\* A new order the client is told is REJECTED or CANCELED was never booked or
\* traded at the exchange, unless the exchange acted on it and its answer never
\* reached the worker: the session was lost, or the transaction timed out.
DeadOrderNeverLived ==
  \A o \in Orders :
    \A i \in DOMAIN answers[<<o, "NEW">>] :
      /\ answers[<<o, "NEW">>][i].status \in {"REJECTED", "CANCELED"}
      /\ <<o, "NEW">> \notin lost
      => \A n \in DOMAIN book : book[n].req # o

\* The exchordid a new order is acknowledged with is the exchange's number of
\* that very order, after a retry too.
AckNamesTheOrder ==
  \A o \in Orders :
    \A i \in DOMAIN answers[<<o, "NEW">>] :
      LET a == answers[<<o, "NEW">>][i] IN
      a.status \in {"NEW", "PARTIALLY_FILLED", "FILLED"}
        => a.num \in DOMAIN book /\ book[a.num].req = o

\* When the client is told that a deletion is CANCELED, the book has nothing
\* left under the number the deletion was sent with, and no later request of
\* the order brings it back.
CanceledIsGone ==
  \A o \in Orders :
    \A i \in DOMAIN answers[<<o, "CXL">>] :
      LET a == answers[<<o, "CXL">>][i] IN
      a.status = "CANCELED" => ~Live(a.num)

\* "OMnet keeps the same order_number after alter": a deletion the client is
\* told is CANCELED leaves nothing of the order in the book, unless the answer
\* to the new order was lost.
CanceledLeavesNoOrder ==
  \A o \in Orders :
    \A i \in DOMAIN answers[<<o, "CXL">>] :
      answers[<<o, "CXL">>][i].status = "CANCELED" /\ <<o, "NEW">> \notin lost
        => \A n \in DOMAIN book : book[n].req = o => ~Live(n)

\* A new order whose answer was left to the broadcasts traded, and the tape
\* has the trade.
DeferredHasTrade ==
  \A r \in deferred :
    \E i \in DOMAIN tape : Has(tape[i], 34920) /\ LastOf(tape[i], 34005).req = r[1]

\* Send() gives orders only to a worker whose present login the exchange has
\* accepted as ready to trade.
ReadyMeansAccepted == \A w \in Workers : IsReady(w) => ui1[w] = "accepted"

\* A worker that is back in its loop with a working session takes orders,
\* unless the exchange refused its UI1.
ConnectedMeansReady ==
  \A w \in Workers :
    wpc[w] = "loop" /\ Connected(w) /\ ~ready[w] => ui1[w] = "refused"
=============================================================================
