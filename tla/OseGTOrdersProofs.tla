-------------------------- MODULE OseGTOrdersProofs --------------------------
(***************************************************************************)
(* What becomes of an order of the OSE handler, for any number of workers, *)
(* orders and disturbances.                                                *)
(*                                                                         *)
(* The actions are first sorted by what they do to an order (Flow): most   *)
(* move a thread and nothing else, and the others begin a request, refuse  *)
(* it, queue it, take it, carry it to the exchange, repeat it, lose its    *)
(* answer, answer it or leave it to the broadcasts.  The invariants are    *)
(* then shown for these kinds, each resting on those before it:            *)
(*                                                                         *)
(*   TypesInv    the types, with the numbers the exchange has given;       *)
(*   PlaceInv    every request is in one place;                            *)
(*   KeepsOrder  a worker is heard in the order it was given;              *)
(*   HeardInv    how often a request was heard, against what was lost;     *)
(*   TruthInv    what an answer under way or given says is so;             *)
(*   LiveInv     every order in the book was heard of in an answer, or the *)
(*               answer was lost or dropped;                               *)
(*   NewsInv     what a broadcast of the tape says of an order;            *)
(*   RespInv     what is in a worker's response queue is an answer given;  *)
(*   CountInv    the client's counter, the BDX queue and the tape add up.  *)
(***************************************************************************)
EXTENDS OseGTProofs, Bo5Proofs, SequenceTheorems, FiniteSetTheorems

-----------------------------------------------------------------------------
(* The kinds of steps, as far as the orders go.                            *)

SendPCs == {"check", "try", "enqueue"}
HeldPCs == {"transmit", "wait", "logout", "backoff", "requery"}

Replies == [ok : BOOLEAN, txstatus : Nat, ordid : Int]

\* Where the worker's thread is while it has an order in hand, and while it
\* carries one out a second time.
HandPlace(w) ==
  /\ wpc[w] \in {"transmit", "wait"} => cur[w] # NoOrder
  /\ cur[w] # NoOrder => wpc[w] \in HeldPCs
  /\ retry[w] => wpc[w] \in {"transmit", "wait"}

\* The orders whose number is of N.
Pods(N) == {o \in OrderPod : o.num \in N}

FlowTypes(N) ==
  /\ wpc \in [Workers -> PCs]
  /\ retry \in [Workers -> BOOLEAN]
  /\ reply \in [Workers -> Replies]
  /\ orderQ \in [Workers -> Seq(Pods(N))]
  /\ respQ \in [Workers -> Seq(Pods(N))]
  /\ cur \in [Workers -> Pods(N) \cup {NoOrder}]
  /\ heard \in [Workers -> Seq(Requests)]
  /\ dispatched \in [Workers -> Seq(Requests)]
  /\ answers \in [Requests -> Seq(Pods(N))]
  /\ dropped \in SUBSET Requests
  /\ lost \in SUBSET Requests
  /\ deferred \in SUBSET Requests
  /\ fate \in [Requests -> {"none", "refused", "queued"}]
  /\ inSend \in Pods(N) \cup {NoOrder}
  /\ gpc \in SendPCs => inSend \in Pods(N)
  /\ at \in 0..WorkerCount
  /\ gpc \in {"start", "copy", "startWait", "enqueue"} => at \in Workers
  /\ firstTry \in Workers
  /\ known \in [Orders -> N]
  /\ \A w \in Workers : /\ HandPlace(w)
                        /\ reply[w].ordid \in N
                        /\ Len(orderQ[w]) <= OrderQueueBound
                        /\ Len(respQ[w]) <= ResponseQueueBound

HandVars == <<wpc, cur, retry, reply, answers, dropped, lost, deferred>>
SendVars == <<inSend, fate, dispatched>>

\* No order moves.
Rests ==
  /\ UNCHANGED <<HandVars, SendVars, orderQ, heard>>
  /\ \/ UNCHANGED respQ
     \/ /\ at \in Workers /\ respQ[at] # <<>>
        /\ respQ' = [respQ EXCEPT ![at] = Tail(@)]
  /\ gpc' \in SendPCs => gpc \in SendPCs

\* A worker's thread goes on, without an order or with the order in hand.
Moves(w, pc) ==
  /\ wpc' = [wpc EXCEPT ![w] = pc]
  /\ \/ cur[w] = NoOrder /\ pc \notin {"transmit", "wait"}
     \/ /\ ~retry[w]
        /\ wpc[w] \in {"transmit", "logout", "backoff"}
        /\ pc \in {"logout", "backoff", "requery"}
  /\ UNCHANGED <<cur, retry, reply, answers, dropped, lost, deferred, SendVars, queueVars, heard>>
  /\ gpc' \in SendPCs => gpc \in SendPCs

\* The worker takes the oldest order of its queue.
Takes(w) ==
  /\ wpc[w] = "loop" /\ orderQ[w] # <<>>
  /\ wpc' = [wpc EXCEPT ![w] = "transmit"]
  /\ orderQ' = [orderQ EXCEPT ![w] = Tail(orderQ[w])]
  /\ cur' = [cur EXCEPT ![w] = Head(orderQ[w])]
  /\ UNCHANGED <<retry, reply, answers, dropped, lost, deferred, SendVars, respQ, heard, gpc>>

\* The worker rejects the oldest order of its queue.
TurnsDown(w) ==
  /\ wpc[w] = "loop" /\ orderQ[w] # <<>>
  /\ wpc' = [wpc EXCEPT ![w] = "loop"]
  /\ orderQ' = [orderQ EXCEPT ![w] = Tail(orderQ[w])]
  /\ cur' = [cur EXCEPT ![w] = NoOrder]
  /\ retry' = [retry EXCEPT ![w] = FALSE]
  /\ Answer(w, Rejected(Head(orderQ[w])))
  /\ UNCHANGED <<reply, lost, deferred, SendVars, heard, gpc>>

\* The exchange hears of the order in hand.
Hears(w) ==
  /\ wpc[w] = "transmit"
  /\ wpc' = [wpc EXCEPT ![w] = "wait"]
  /\ \E outcome \in Outcomes(cur[w]) :
       /\ reply' = [reply EXCEPT ![w] = outcome.reply]
       /\ book' = outcome.book
       /\ tape' = tape \o outcome.news
  /\ heard' = [heard EXCEPT ![w] = Append(@, Request(cur[w]))]
  /\ UNCHANGED <<cur, retry, answers, dropped, lost, deferred, SendVars, queueVars, gpc>>

\* The order in hand is to be carried out again.
Repeats(w) ==
  /\ wpc[w] = "requery" /\ cur[w] # NoOrder
  /\ wpc' = [wpc EXCEPT ![w] = "transmit"]
  /\ retry' = [retry EXCEPT ![w] = TRUE]
  /\ UNCHANGED <<cur, reply, answers, dropped, lost, deferred, SendVars, queueVars, heard, gpc>>

\* The order in hand is answered: as the exchange did, or with a reject.
ExchangeSays(w, a) ==
  /\ wpc[w] = "wait" /\ reply[w].ok
  /\ \/ ~retry[w] /\ ~IsFillTx(cur[w], reply[w].txstatus)
        /\ a = FirstAnswer(cur[w], reply[w].txstatus, reply[w].ordid)
     \/ retry[w] /\ a = RetryAnswer(cur[w], reply[w].txstatus, reply[w].ordid)
  /\ lost' = lost

GivenUp(w, a) ==
  /\ a = Rejected(cur[w])
  /\ \/ wpc[w] # "wait" /\ lost' = lost
     \/ wpc[w] = "wait" /\ ~reply[w].ok /\ lost' = lost
     \/ wpc[w] = "wait" /\ lost' = lost \cup {Request(cur[w])}

Answers(w, a) ==
  /\ cur[w] # NoOrder
  /\ ExchangeSays(w, a) \/ GivenUp(w, a)
  /\ wpc' = [wpc EXCEPT ![w] = "loop"]
  /\ cur' = [cur EXCEPT ![w] = NoOrder]
  /\ retry' = [retry EXCEPT ![w] = FALSE]
  /\ Answer(w, a)
  /\ reply' \in {reply, [reply EXCEPT ![w] = Refused]}
  /\ UNCHANGED <<deferred, SendVars, orderQ, heard, gpc>>

\* The answer to the order in hand is left to the broadcasts.
Defers(w) ==
  /\ wpc[w] = "wait" /\ reply[w].ok /\ ~retry[w] /\ IsFillTx(cur[w], reply[w].txstatus)
  /\ deferred' = deferred \cup {Request(cur[w])}
  /\ wpc' = [wpc EXCEPT ![w] = "loop"]
  /\ cur' = [cur EXCEPT ![w] = NoOrder]
  /\ reply' = [reply EXCEPT ![w] = Refused]
  /\ UNCHANGED <<retry, answers, dropped, lost, SendVars, queueVars, heard, gpc>>

\* The answer to the order in hand is lost.
Loses(w) ==
  /\ wpc[w] = "wait" /\ ~retry[w]
  /\ lost' = lost \cup {Request(cur[w])}
  /\ wpc' = [wpc EXCEPT ![w] = "logout"]
  /\ reply' = [reply EXCEPT ![w] = Refused]
  /\ UNCHANGED <<cur, retry, answers, dropped, deferred, SendVars, queueVars, heard, gpc>>

\* Send() begins, refuses the order, or queues it.
Begins(o) ==
  /\ gpc = "run" /\ gpc' = "check"
  /\ ClientMay(o) /\ o \in OrderPod
  /\ inSend' = o
  /\ UNCHANGED <<HandVars, fate, dispatched, queueVars, heard>>

Refuses ==
  /\ gpc \in SendPCs /\ gpc' = "run"
  /\ fate' = [fate EXCEPT ![Request(inSend)] = "refused"]
  /\ inSend' = NoOrder
  /\ UNCHANGED <<HandVars, dispatched, queueVars, heard>>

Queues(w) ==
  /\ gpc \in SendPCs /\ gpc' = "run"
  /\ Len(orderQ[w]) < OrderQueueBound
  /\ orderQ' = [orderQ EXCEPT ![w] = Append(@, inSend)]
  /\ dispatched' = [dispatched EXCEPT ![w] = Append(@, Request(inSend))]
  /\ fate' = [fate EXCEPT ![Request(inSend)] = "queued"]
  /\ inSend' = NoOrder
  /\ UNCHANGED <<HandVars, respQ, heard>>

WorkerFlow(w) ==
  \/ \E pc \in PCs : Moves(w, pc)
  \/ Takes(w) \/ TurnsDown(w) \/ Hears(w) \/ Repeats(w)
  \/ \E a \in OrderPod : Request(a) = Request(cur[w]) /\ Answers(w, a)
  \/ Defers(w) \/ Loses(w)

SendFlow == (\E o \in OrderPod : Begins(o)) \/ Refuses \/ \E w \in Workers : Queues(w)

Flow == Rests \/ (\E w \in Workers : WorkerFlow(w)) \/ SendFlow

-----------------------------------------------------------------------------
(* Orders. *)

\* A quantity is positive and fits 32 bits.
LEMMA QtyType == \A q \in Qty : q \in Nat /\ q > 0 /\ q \in UInt32s
BY QtyAssumption, UInt32RangeAssumption DEF UInt32s

\* An order is none if its fields are those of no order.
LEMMA PodIsOrder ==
  ASSUME NEW o \in OrderPod
  PROVE  /\ o # NoOrder /\ Request(o) \in Requests
         /\ Request(o) = <<o.req, o.act>> /\ o.req \in Orders /\ o.act \in Acts
<1>1. o.req \in Orders /\ o.act \in Acts
  BY DEF OrderPod
<1>2. NoOrder.act = "NONE" /\ "NONE" \notin Acts
  BY DEF NoOrder, Acts
<1>3. o # NoOrder
  BY <1>1, <1>2
<1>4. QED BY <1>1, <1>3 DEF Request, Requests

\* What is answered to an order is an answer to its request.
LEMMA RejectedType ==
  ASSUME NEW o \in OrderPod
  PROVE  Rejected(o) \in OrderPod /\ Request(Rejected(o)) = Request(o)
BY DEF Rejected, Status, OrderPod, Statuses, Request

\* The answer to a first SendTransaction is an order, of the same request.
LEMMA FirstAnswerType ==
  ASSUME NEW o \in OrderPod, NEW txstatus \in Nat, NEW ordid \in Int
  PROVE  /\ FirstAnswer(o, txstatus, ordid) \in OrderPod
         /\ Request(FirstAnswer(o, txstatus, ordid)) = Request(o)
<1>1. o.act \in Acts /\ o.qty \in Nat
  BY QtyType DEF OrderPod
<1>2. CASE o.act = "NEW"
  <2> DEFINE n == [o EXCEPT !.num = ordid]
  <2>1. n \in OrderPod /\ n.req = o.req /\ n.act = o.act /\ n.qty = o.qty
    BY DEF OrderPod
  <2>2. FirstAnswer(o, txstatus, ordid) =
          IF txstatus = 4 THEN [n EXCEPT !.status = "NEW", !.leaves = n.qty]
          ELSE IF txstatus \in {1, 17, 19} THEN [n EXCEPT !.status = "CANCELED"]
          ELSE [n EXCEPT !.status = "NEW"]
    BY <1>2 DEF FirstAnswer, Numbered, Whole, Status
  <2> HIDE DEF n
  <2>3. QED BY <1>1, <2>1, <2>2 DEF OrderPod, Statuses, Request
<1>3. CASE o.act = "MOD"
  <2>1. FirstAnswer(o, txstatus, ordid) =
          IF txstatus > 0 THEN [o EXCEPT !.status = "MODIFIED", !.leaves = o.qty]
          ELSE [o EXCEPT !.status = "REJECTED"]
    BY <1>3 DEF FirstAnswer, Whole, Rejected, Status
  <2>2. QED BY <1>1, <2>1 DEF OrderPod, Statuses, Request
<1>4. CASE o.act = "CXL"
  <2>1. FirstAnswer(o, txstatus, ordid) = [o EXCEPT !.status = "CANCELED"]
    BY <1>4 DEF FirstAnswer, Status
  <2>2. QED BY <2>1 DEF OrderPod, Statuses, Request
<1>5. QED BY <1>1, <1>2, <1>3, <1>4 DEF Acts

\* The answer to a repeated SendTransaction is an order, of the same request.
LEMMA RetryAnswerType ==
  ASSUME NEW o \in OrderPod, NEW txstatus \in Nat, NEW ordid \in Int
  PROVE  /\ RetryAnswer(o, txstatus, ordid) \in OrderPod
         /\ Request(RetryAnswer(o, txstatus, ordid)) = Request(o)
<1>1. o.act \in Acts /\ o.qty \in Nat
  BY QtyType DEF OrderPod
<1> DEFINE n == IF o.act = "CXL" THEN o ELSE [o EXCEPT !.num = ordid]
<1>2. n \in OrderPod /\ n.req = o.req /\ n.act = o.act
  BY DEF OrderPod
<1> DEFINE A(status) == [n EXCEPT !.status = status]
           B(status) == [[n EXCEPT !.status = status] EXCEPT !.last = o.qty, !.leaves = 0]
<1>3. \E status \in Statuses :
        RetryAnswer(o, txstatus, ordid) = A(status) \/ RetryAnswer(o, txstatus, ordid) = B(status)
  <2>1. CASE txstatus = 2
    BY <2>1 DEF RetryAnswer, Numbered, Status, Statuses
  <2>2. CASE txstatus # 2
    <3>1. \E status \in Statuses : RetryAnswer(o, txstatus, ordid) = A(status)
      BY <1>1, <2>2 DEF RetryAnswer, Numbered, Status, Statuses, Acts
    <3>2. QED BY <3>1
  <2>3. QED BY <2>1, <2>2
<1> HIDE DEF n
<1>4. ASSUME NEW status \in Statuses
      PROVE  /\ A(status) \in OrderPod /\ Request(A(status)) = Request(o)
             /\ B(status) \in OrderPod /\ Request(B(status)) = Request(o)
  BY <1>1, <1>2 DEF OrderPod, Request
<1> HIDE DEF A, B
<1>5. QED BY <1>3, <1>4

-----------------------------------------------------------------------------
(* Every step is of one of these kinds. *)

\* A worker whose reconnect fails goes on, or gives its order up.
LEMMA ReconnectFailsFlow ==
  ASSUME NEW N \in SUBSET Int, FlowTypes(N), NEW w \in Workers,
         wpc[w] \in {"backoff", "requery"}, ReconnectFails(w),
         UNCHANGED <<reply, orderQ, heard, lost, deferred, SendVars, gpc>>
  PROVE  WorkerFlow(w)
<1>1. CASE cur[w] = NoOrder
  <2>1. Moves(w, "loop")
    BY <1>1 DEF queueVars, ReconnectFails, Goto, Moves
  <2>2. QED BY <2>1 DEF WorkerFlow, PCs
<1>2. CASE cur[w] # NoOrder
  <2>1. cur[w] \in OrderPod
    BY <1>2 DEF FlowTypes, Pods
  <2>2. Rejected(cur[w]) \in OrderPod /\ Request(Rejected(cur[w])) = Request(cur[w])
    BY <2>1, RejectedType
  <2>3. Respond(w, Rejected(cur[w]))
    BY <1>2 DEF ReconnectFails
  <2>4. Answers(w, Rejected(cur[w]))
    BY <1>2, <2>3 DEF Respond, Goto, Answers, GivenUp
  <2>5. QED BY <2>2, <2>4 DEF WorkerFlow
<1>3. QED BY <1>1, <1>2

\* A worker that finds its session dead reconnects, or gives its order up.
LEMMA TransmitFailsFlow ==
  ASSUME NEW N \in SUBSET Int, FlowTypes(N), NEW w \in Workers, TransmitFails(w),
         UNCHANGED <<SendVars, gpc>>
  PROVE  WorkerFlow(w)
<1>1. cur[w] # NoOrder /\ cur[w] \in OrderPod /\ wpc[w] = "transmit"
  BY DEF FlowTypes, Pods, HandPlace, TransmitFails
<1>2. CASE retry[w]
  <2>1. Respond(w, Rejected(cur[w])) /\ UNCHANGED <<reply, orderQ, heard, lost, deferred>>
    BY <1>2 DEF TransmitFails, SessionDead
  <2>2. Answers(w, Rejected(cur[w]))
    BY <1>1, <2>1 DEF Respond, Goto, Answers, GivenUp
  <2>3. QED BY <1>1, <2>2, RejectedType DEF WorkerFlow
<1>3. CASE ~retry[w]
  <2>1. Moves(w, "logout")
    BY <1>1, <1>3 DEF queueVars, TransmitFails, SessionDead, BeginReconnect, Goto, Moves
  <2>2. QED BY <2>1 DEF WorkerFlow, PCs
<1>4. QED BY <1>2, <1>3

\* A worker whose session goes while the exchange acts repeats the order or gives it up.
LEMMA LoseAnswerFlow ==
  ASSUME NEW N \in SUBSET Int, FlowTypes(N), NEW w \in Workers, LoseAnswer(w),
         UNCHANGED <<SendVars, gpc>>
  PROVE  WorkerFlow(w)
<1>1. cur[w] # NoOrder /\ cur[w] \in OrderPod /\ wpc[w] = "wait"
  BY DEF FlowTypes, Pods, HandPlace, LoseAnswer
<1>2. CASE retry[w]
  <2>1. Respond(w, Rejected(cur[w])) /\ UNCHANGED <<orderQ, heard, deferred>>
    BY <1>2 DEF LoseAnswer, SessionDead
  <2>2. Answers(w, Rejected(cur[w]))
    BY <1>1, <2>1 DEF LoseAnswer, Respond, Goto, Answers, GivenUp
  <2>3. QED BY <1>1, <2>2, RejectedType DEF WorkerFlow
<1>3. CASE ~retry[w]
  <2>1. Loses(w)
    BY <1>1, <1>3 DEF queueVars, LoseAnswer, SessionDead, BeginReconnect, Goto, Loses
  <2>2. QED BY <2>1 DEF WorkerFlow
<1>4. QED BY <1>2, <1>3

\* A worker whose transaction returns answers the order, repeats it or leaves it to the
\* broadcasts.
LEMMA CompleteFlow ==
  ASSUME NEW N \in SUBSET Int, FlowTypes(N), NEW w \in Workers, Complete(w),
         UNCHANGED <<SendVars, gpc>>
  PROVE  WorkerFlow(w)
<1>1. cur[w] # NoOrder /\ cur[w] \in OrderPod /\ wpc[w] = "wait"
  BY DEF FlowTypes, Pods, HandPlace, Complete
<1>2. reply[w].txstatus \in Nat /\ reply[w].ordid \in Int
  BY DEF FlowTypes, Pods, Replies
<1>3. UNCHANGED <<orderQ, heard, lost>> /\ reply' = [reply EXCEPT ![w] = Refused]
  BY DEF Complete
<1> DEFINE r == reply[w]
           o == cur[w]
<1>4. CASE r.ok /\ ~retry[w] /\ IsFillTx(o, r.txstatus)
  <2>0. ~(~r.ok) /\ ~retry[w] /\ ~(~IsFillTx(o, r.txstatus))
    BY <1>4
  <2>1. /\ deferred' = deferred \cup {Request(o)}
        /\ cur' = [cur EXCEPT ![w] = NoOrder]
        /\ Goto(w, "loop")
        /\ UNCHANGED <<respQ, answers, dropped, retry>>
    BY <2>0 DEF Complete
  <2>2. Defers(w)
    BY <1>1, <1>3, <1>4, <2>1 DEF queueVars, Goto, Defers
  <2>3. QED BY <2>2 DEF WorkerFlow
<1>5. CASE r.ok /\ ~retry[w] /\ ~IsFillTx(o, r.txstatus)
  <2> DEFINE a == FirstAnswer(o, r.txstatus, r.ordid)
  <2>1. Respond(w, a) /\ deferred' = deferred
    BY <1>5 DEF Complete
  <2>2. a \in OrderPod /\ Request(a) = Request(o)
    BY <1>1, <1>2, FirstAnswerType
  <2>3. ExchangeSays(w, a)
    BY <1>1, <1>3, <1>5 DEF ExchangeSays
  <2> HIDE DEF a
  <2>4. Answers(w, a)
    BY <1>1, <1>3, <2>1, <2>3 DEF Respond, Goto, Answers
  <2>5. QED BY <2>2, <2>4 DEF WorkerFlow
<1>6. CASE r.ok /\ retry[w]
  <2> DEFINE a == RetryAnswer(o, r.txstatus, r.ordid)
  <2>1. Respond(w, a) /\ deferred' = deferred
    BY <1>6 DEF Complete
  <2>2. a \in OrderPod /\ Request(a) = Request(o)
    BY <1>1, <1>2, RetryAnswerType
  <2>3. ExchangeSays(w, a)
    BY <1>1, <1>3, <1>6 DEF ExchangeSays
  <2> HIDE DEF a
  <2>4. Answers(w, a)
    BY <1>1, <1>3, <2>1, <2>3 DEF Respond, Goto, Answers
  <2>5. QED BY <2>2, <2>4 DEF WorkerFlow
<1>7. CASE ~r.ok
  <2> DEFINE a == Rejected(o)
  <2>1. Respond(w, a) /\ deferred' = deferred
    BY <1>7 DEF Complete
  <2>2. a \in OrderPod /\ Request(a) = Request(o)
    BY <1>1, RejectedType
  <2>3. GivenUp(w, a)
    BY <1>1, <1>3, <1>7 DEF GivenUp
  <2> HIDE DEF a
  <2>4. Answers(w, a)
    BY <1>1, <1>3, <2>1, <2>3 DEF Respond, Goto, Answers
  <2>5. QED BY <2>2, <2>4 DEF WorkerFlow
<1>8. QED BY <1>4, <1>5, <1>6, <1>7

\* A worker takes the first order of its queue, and refuses it when it cannot send it.
LEMMA TakeOrderFlow ==
  ASSUME NEW N \in SUBSET Int, FlowTypes(N), NEW w \in Workers, TakeOrder(w),
         UNCHANGED <<SendVars, gpc>>
  PROVE  WorkerFlow(w)
<1> DEFINE o == Head(orderQ[w])
<1>1. wpc[w] = "loop" /\ orderQ[w] # <<>> /\ orderQ' = [orderQ EXCEPT ![w] = Tail(orderQ[w])]
  BY DEF TakeOrder, FlowTypes, Pods
<1>2. o \in OrderPod
  BY <1>1, HeadTailProperties DEF FlowTypes, Pods
<1>3. UNCHANGED <<reply, heard, lost, deferred>>
  BY DEF TakeOrder
<1>4. CASE /\ cur' = [cur EXCEPT ![w] = o]
           /\ Goto(w, "transmit")
           /\ UNCHANGED <<respQ, answers, dropped, retry>>
  <2>1. Takes(w)
    BY <1>1, <1>3, <1>4 DEF Goto, Takes
  <2>2. QED BY <2>1 DEF WorkerFlow
<1>5. CASE Respond(w, Rejected(o))
  <2>1. Request(Rejected(o)) = Request(o)
    BY <1>2, RejectedType
  <2>2. TurnsDown(w)
    BY <1>1, <1>3, <1>5, <2>1 DEF Respond, Goto, TurnsDown
  <2>3. QED BY <2>2 DEF WorkerFlow
<1>6. QED BY <1>4, <1>5 DEF TakeOrder

\* A worker that has reconnected goes on with the order in hand, or with the next.
LEMMA ReconnectFinishFlow ==
  ASSUME NEW N \in SUBSET Int, FlowTypes(N), NEW w \in Workers, ReconnectFinish(w),
         UNCHANGED <<SendVars, gpc>>
  PROVE  WorkerFlow(w)
<1>1. wpc[w] = "requery" /\ ~retry[w] /\ UNCHANGED <<reply, orderQ, heard, lost, deferred>>
  BY DEF ReconnectFinish, FlowTypes, Pods, HandPlace
<1>2. CASE /\ retry' = [retry EXCEPT ![w] = cur[w] # NoOrder]
           /\ Goto(w, IF cur[w] = NoOrder THEN "loop" ELSE "transmit")
           /\ UNCHANGED <<respQ, answers, dropped, cur>>
  <2>1. CASE cur[w] = NoOrder
    <3>1. retry' = [retry EXCEPT ![w] = FALSE]
      BY <1>2, <2>1
    <3>2. retry' = retry
      BY <1>1, <3>1 DEF FlowTypes, Pods
    <3>3. Moves(w, "loop")
      BY <1>1, <1>2, <2>1, <3>2 DEF queueVars, Goto, Moves
    <3>4. QED BY <3>3 DEF WorkerFlow, PCs
  <2>2. CASE cur[w] # NoOrder
    <3>1. retry' = [retry EXCEPT ![w] = TRUE]
      BY <1>2, <2>2
    <3>2. Repeats(w)
      BY <1>1, <1>2, <2>2, <3>1 DEF queueVars, Goto, Repeats
    <3>3. QED BY <3>2 DEF WorkerFlow
  <2>3. QED BY <2>1, <2>2
<1>3. CASE ReconnectFails(w)
  BY <1>1, <1>3, ReconnectFailsFlow
<1>4. QED BY <1>2, <1>3 DEF ReconnectFinish

\* The steps that take no order anywhere.
LEMMA PlainFlow ==
  ASSUME NEW N \in SUBSET Int, FlowTypes(N), NEW w \in Workers, UNCHANGED <<SendVars, gpc>>,
         \/ SetupLogin(w) \/ SetupFinish(w) \/ LeaveLoop(w) \/ NoticeLoss(w)
         \/ ReconnectLogout(w)
  PROVE  WorkerFlow(w)
<1>1. wpc[w] \in {"login", "setup", "loop"} => cur[w] = NoOrder
  BY DEF FlowTypes, Pods, HandPlace, HeldPCs
<1>2. ~retry[w] \/ wpc[w] \in {"transmit", "wait"}
  BY DEF FlowTypes, Pods, HandPlace
<1>3. CASE SetupLogin(w)
  <2>1. Moves(w, "setup") \/ Moves(w, "ended")
    BY <1>1, <1>3 DEF SetupLogin, Goto, Moves, queueVars
  <2>2. QED BY <2>1 DEF WorkerFlow, PCs
<1>4. CASE SetupFinish(w)
  <2>1. Moves(w, "loop")
    BY <1>1, <1>4 DEF SetupFinish, Goto, Moves, queueVars
  <2>2. QED BY <2>1 DEF WorkerFlow, PCs
<1>5. CASE LeaveLoop(w)
  <2>1. Moves(w, "ended")
    BY <1>1, <1>5 DEF LeaveLoop, Goto, Moves, queueVars, ghostVars
  <2>2. QED BY <2>1 DEF WorkerFlow, PCs
<1>6. CASE NoticeLoss(w)
  <2>1. Moves(w, "logout")
    BY <1>1, <1>6 DEF NoticeLoss, BeginReconnect, Goto, Moves, queueVars, ghostVars
  <2>2. QED BY <2>1 DEF WorkerFlow, PCs
<1>7. CASE ReconnectLogout(w)
  <2>1. Moves(w, "backoff")
    BY <1>2, <1>7 DEF ReconnectLogout, Goto, Moves, queueVars, ghostVars
  <2>2. QED BY <2>1 DEF WorkerFlow, PCs
<1>8. QED BY <1>3, <1>4, <1>5, <1>6, <1>7

\* A worker that tries again to log in keeps its order, or gives it up.
LEMMA ReloginFlow ==
  ASSUME NEW N \in SUBSET Int, FlowTypes(N), NEW w \in Workers, Relogin(w) \/ BackoffStopped(w),
         UNCHANGED <<SendVars, gpc>>
  PROVE  WorkerFlow(w)
<1>1. wpc[w] = "backoff" /\ UNCHANGED <<reply, orderQ, heard, lost, deferred>>
  BY DEF Relogin, BackoffStopped
<1>2. CASE ReconnectFails(w)
  BY <1>1, <1>2, ReconnectFailsFlow
<1>3. CASE Goto(w, "requery") /\ UNCHANGED <<respQ, answers, dropped, cur, retry>>
  <2>1. ~retry[w]
    BY <1>1 DEF FlowTypes, Pods, HandPlace
  <2>2. Moves(w, "requery")
    BY <1>1, <1>3, <2>1 DEF queueVars, Goto, Moves
  <2>3. QED BY <2>2 DEF WorkerFlow, PCs
<1>4. QED BY <1>2, <1>3 DEF Relogin, BackoffStopped

\* Every step of a worker's thread is of a known kind.
LEMMA WorkerStepFlow ==
  ASSUME NEW N \in SUBSET Int, FlowTypes(N), NEW w \in Workers, WorkerStep(w),
         UNCHANGED <<SendVars, gpc>>
  PROVE  Rests \/ WorkerFlow(w)
<1>1. CASE Keepalive(w)
  BY <1>1 DEF Keepalive, workerVars, threadVars, queueVars, ghostVars, Rests, HandVars
<1>2. CASE Transmit(w)
  <2>1. Hears(w)
    BY <1>2 DEF Transmit, Goto, Hears, queueVars
  <2>2. QED BY <2>1 DEF WorkerFlow
<1>3. CASE AnswerTimesOut(w)
  <2>1. cur[w] # NoOrder /\ cur[w] \in OrderPod /\ wpc[w] = "wait"
    BY <1>3 DEF FlowTypes, Pods, HandPlace, AnswerTimesOut
  <2>2. Respond(w, Rejected(cur[w])) /\ UNCHANGED <<orderQ, heard, deferred>>
    BY <1>3 DEF AnswerTimesOut
  <2>3. Answers(w, Rejected(cur[w]))
    BY <1>3, <2>1, <2>2 DEF AnswerTimesOut, Respond, Goto, Answers, GivenUp
  <2>4. QED BY <2>1, <2>3, RejectedType DEF WorkerFlow
<1>4. QED
  BY <1>1, <1>2, <1>3, ReloginFlow, PlainFlow, ReconnectFinishFlow, TakeOrderFlow, CompleteFlow,
     LoseAnswerFlow, TransmitFailsFlow DEF WorkerStep

\* The handler's own steps.
LEMMA HandlerStepFlow ==
  ASSUME NEW N \in SUBSET Int, FlowTypes(N), Handler PROVE Flow
<1>1. CASE CopySeries
  BY <1>1 DEF CopySeries, StartUnchanged, clientVars, queueVars, ghostVars, HandlerGoto, SendPCs,
             Rests, HandVars, SendVars, Flow
<1>2. CASE StartWorker
  <2>1. at \in Workers
    BY <1>2 DEF StartWorker, FlowTypes, Pods
  <2>2. cur[at] = NoOrder
    BY <1>2, <2>1 DEF StartWorker, Start, FlowTypes, Pods, HandPlace, HeldPCs
  <2>3. Moves(at, "login")
    BY <1>2, <2>2 DEF StartWorker, Start, Goto, HandlerGoto, StartUnchanged, clientVars, queueVars,
                      ghostVars, Moves, SendVars, SendPCs
  <2>4. QED BY <2>1, <2>3 DEF Flow, WorkerFlow, PCs
<1>3. CASE StartWaited
  BY <1>3 DEF StartWaited, StartUnchanged, clientVars, workerVars, threadVars, queueVars, ghostVars,
             HandlerGoto, SendPCs, Rests, HandVars, SendVars, Flow
<1>4. CASE StartBdx
  BY <1>4 DEF StartBdx, StartUnchanged, clientVars, workerVars, threadVars, queueVars, ghostVars,
             HandlerGoto, SendPCs, Rests, HandVars, SendVars, Flow
<1>5. CASE SendCheck
  <2>1. UNCHANGED <<HandVars, queueVars, heard, dispatched>> /\ gpc = "check"
    BY <1>5 DEF SendCheck, SendUnchanged, threadVars, ghostVars, queueVars, HandVars
  <2>2. CASE UNCHANGED <<fate, inSend>>
    BY <2>1, <2>2 DEF queueVars, Rests, SendVars, SendPCs, Flow
  <2>3. CASE Refuse
    BY <2>1, <2>3 DEF Refuse, HandlerGoto, Refuses, SendPCs, SendFlow, Flow
  <2>4. QED BY <1>5, <2>2, <2>3 DEF SendCheck
<1>6. CASE SendTry
  <2>1. UNCHANGED <<HandVars, queueVars, heard, dispatched>> /\ gpc = "try"
    BY <1>6 DEF SendTry, SendUnchanged, threadVars, ghostVars, queueVars, HandVars
  <2>2. CASE UNCHANGED <<fate, inSend>>
    BY <2>1, <2>2 DEF queueVars, Rests, SendVars, SendPCs, Flow
  <2>3. CASE Refuse
    BY <2>1, <2>3 DEF Refuse, HandlerGoto, Refuses, SendPCs, SendFlow, Flow
  <2>4. QED BY <1>6, <2>2, <2>3 DEF SendTry
<1>7. CASE SendEnqueue
  <2>1. UNCHANGED <<HandVars, respQ, heard>> /\ gpc = "enqueue"
    BY <1>7 DEF SendEnqueue, SendUnchanged, threadVars, ghostVars, queueVars, HandVars
  <2>2. Tried \in Workers
    BY HandlerAssumption DEF Tried, FlowTypes, Pods
  <2>3. CASE UNCHANGED <<orderQ, dispatched, fate, inSend>>
    BY <2>1, <2>3 DEF Rests, SendVars, SendPCs, Flow
  <2>4. CASE /\ Len(orderQ[Tried]) < OrderQueueBound
             /\ orderQ' = [orderQ EXCEPT ![Tried] = Enqueue(@, inSend)]
             /\ dispatched' = [dispatched EXCEPT ![Tried] = Append(@, Request(inSend))]
             /\ fate' = [fate EXCEPT ![Request(inSend)] = "queued"]
             /\ inSend' = NoOrder
             /\ HandlerGoto("run", 0)
    <3>1. Queues(Tried)
      BY <2>1, <2>4 DEF Enqueue, HandlerGoto, SendPCs, Queues
    <3>2. QED BY <2>2, <3>1 DEF SendFlow, Flow
  <2>5. QED BY <1>7, <2>3, <2>4 DEF SendEnqueue
<1>8. CASE PollBegin \/ PollWorker \/ PollBdx
  <2>1. UNCHANGED <<HandVars, SendVars, orderQ, heard>>
    BY <1>8 DEF PollBegin, PollWorker, PollBdx, PollUnchanged, threadVars, ghostVars, HandVars,
               SendVars
  <2>2. gpc' \in {"poll", "run"} \/ gpc' = gpc
    BY <1>8 DEF PollBegin, PollWorker, PollBdx, HandlerGoto
  <2>4. \/ UNCHANGED respQ
        \/ /\ at \in Workers /\ respQ[at] # <<>>
           /\ respQ' = [respQ EXCEPT ![at] = Tail(@)]
    BY <1>8, HandlerAssumption DEF PollBegin, PollWorker, PollBdx, FlowTypes
  <2>3. QED BY <2>1, <2>2, <2>4 DEF Rests, SendPCs, Flow
<1>9. CASE StopWorker
  BY <1>9 DEF StopWorker, RequestStop, StopUnchanged, clientVars, queueVars, ghostVars,
             HandlerGoto, SendPCs, Rests, HandVars, SendVars, Flow
<1>10. CASE JoinWorker
  <2>1. at \in Workers /\ wpc[at] = "ended"
    BY <1>10, HandlerAssumption DEF JoinWorker, Join, FlowTypes, Pods
  <2>2. cur[at] = NoOrder
    BY <2>1 DEF FlowTypes, Pods, HandPlace, HeldPCs
  <2>3. Moves(at, "joined")
    BY <1>10, <2>2 DEF JoinWorker, Join, Goto, HandlerGoto, StopUnchanged, clientVars, queueVars,
                       ghostVars, Moves, SendVars, SendPCs
  <2>4. QED BY <2>1, <2>3 DEF Flow, WorkerFlow, PCs
<1>11. CASE StopBdx \/ JoinBdx
  BY <1>11 DEF StopBdx, JoinBdx, StopUnchanged, clientVars, workerVars, threadVars, queueVars,
              ghostVars, HandlerGoto, SendPCs, Rests, HandVars, SendVars, Flow
<1>12. QED
  BY <1>1, <1>2, <1>3, <1>4, <1>5, <1>6, <1>7, <1>8, <1>9, <1>10, <1>11 DEF Handler

\* A call of Send begins with one request of the client's.
LEMMA ClientFlow ==
  ASSUME NEW N \in SUBSET Int, FlowTypes(N), Client PROVE Flow
<1>1. PICK req \in Orders, act \in ClientActs, qty \in Qty :
        SendBegin(Sent(req, act, qty, known[req]))
  BY DEF Client
<1> DEFINE o == Sent(req, act, qty, known[req])
<1>2. o \in OrderPod
  BY HandlerAssumption DEF Sent, OrderPod, Statuses, FlowTypes, Pods
<1> HIDE DEF o
<1>3. SendBegin(o)
  BY <1>1 DEF o
<1>4. Begins(o)
  BY <1>2, <1>3 DEF SendBegin, SendUnchanged, threadVars, ghostVars, queueVars,
                    HandVars, HandlerGoto, Begins
<1>5. QED BY <1>2, <1>4 DEF SendFlow, Flow

\* Every step of the system is of a known kind.
LEMMA NextFlow ==
  ASSUME NEW N \in SUBSET Int, FlowTypes(N), [Next]_vars PROVE Flow
<1>1. CASE StopBegin
  BY <1>1 DEF StopBegin, StopUnchanged, clientVars, workerVars, threadVars, queueVars, ghostVars,
             HandlerGoto, SendPCs, Rests, HandVars, SendVars, Flow
<1>2. ASSUME NEW w \in Workers, Worker(w) PROVE Flow
  <2>1. WorkerStep(w) /\ UNCHANGED <<SendVars, gpc>>
    BY <1>2 DEF Worker, handlerVars, clientVars, SendVars
  <2>2. QED BY <2>1, WorkerStepFlow DEF Flow
<1>3. CASE UNCHANGED <<workerVars, handlerVars, clientVars>>
  BY <1>3 DEF workerVars, threadVars, queueVars, ghostVars, handlerVars, clientVars,
             Rests, HandVars, SendVars, Flow
<1>4. CASE Bdx \/ Trading \/ (\E s \in Disturbed : Disturb(s)) \/ UNCHANGED vars
  BY <1>3, <1>4 DEF Bdx, Trading, Disturb, vars
<1>5. QED BY <1>1, <1>2, <1>4, HandlerStepFlow, ClientFlow DEF Next

-----------------------------------------------------------------------------
(* What the exchange does to its book and its tape. *)

\* The numbers an order can have: none, a transaction id, or a place in the
\* book.
NumbersOf(b) == {0, TxId} \cup DOMAIN b

Entries == [req : Orders, qty : UInt32s, leaves : UInt32s, traded : Int]

\* Orders are added and changed, but keep their numbers, and what is gone
\* stays gone.
Extends(b, c) ==
  /\ DOMAIN b \subseteq DOMAIN c
  /\ \A n \in DOMAIN b : c[n].req = b[n].req /\ (b[n].leaves = 0 => c[n].leaves = 0)

\* The broadcast of a trade of the order.
Trades(items, req) == Has(items, 34920) /\ LastOf(items, 34005).req = req

\* A new order is booked under the number it is answered with, and its trade
\* broadcast, or neither the book nor the tape changes.
EnteredAs(o, reply0, b, c, news) ==
  \/ /\ reply0.ok /\ reply0.txstatus \in {2, 3, 4, 6}
     /\ reply0.ordid \in DOMAIN c /\ c[reply0.ordid].req = o.req
     /\ DOMAIN c = DOMAIN b \cup {reply0.ordid}
     /\ reply0.txstatus # 4 => news # <<>> /\ Trades(news[1], o.req)
  \/ /\ reply0.ok => reply0.txstatus = 1
     /\ c = b

\* What the exchange broadcasts of a trade is a well-formed trade.
LEMMA TradeNewsType ==
  ASSUME NEW n \in Int, NEW req \in Orders, NEW qty \in UInt32s, NEW left \in UInt32s,
         NEW lots \in Nat
  PROVE  TradeNews(n, req, qty, left, lots) \in Seq(SubItem(Orders, {n}))
         /\ Trades(TradeNews(n, req, qty, left, lots), req)
<1> DEFINE items == TradeNews(n, req, qty, left, lots)
<1>1. /\ ReturnInfo(1, n) \in SubItem(Orders, {n})
      /\ OrderTrans(req, qty) \in SubItem(Orders, {n})
      /\ OrderChange(left) \in SubItem(Orders, {n})
      /\ TradeInfo(1, lots) \in SubItem(Orders, {n})
  <2>1. ReturnInfo(1, n) \in SubItem(Orders, {n})
    BY DEF SubItem
  <2>2. OrderTrans(req, qty) \in SubItem(Orders, {n})
    BY DEF SubItem
  <2>3. OrderChange(left) \in SubItem(Orders, {n})
    BY DEF SubItem
  <2>4. TradeInfo(1, lots) \in SubItem(Orders, {n})
    BY DEF SubItem
  <2>5. QED BY <2>1, <2>2, <2>3, <2>4
<1>2. /\ ReturnInfo(1, n).struct = 34904 /\ OrderTrans(req, qty).struct = 34005
      /\ OrderChange(left).struct = 34902 /\ TradeInfo(1, lots).struct = 34920
      /\ OrderTrans(req, qty).req = req
  BY DEF ReturnInfo, OrderTrans, OrderChange, TradeInfo
<1>3. /\ items = <<ReturnInfo(1, n), OrderTrans(req, qty), OrderChange(left), TradeInfo(1, lots)>>
      /\ items \in Seq(SubItem(Orders, {n}))
  BY <1>1 DEF TradeNews
<1>4. /\ DOMAIN items = 1 .. 4
      /\ items[1].struct = 34904 /\ items[2].struct = 34005 /\ items[3].struct = 34902
      /\ items[4].struct = 34920 /\ items[2].req = req
  BY <1>2, <1>3
<1> HIDE DEF items
<1>5. Once(items, 34005)
  BY <1>4 DEF Once
<1>6. LastOf(items, 34005) = items[2]
  <2>1. items \in Seq(SubItem(Orders, {n})) /\ 2 \in DOMAIN items /\ items[2].struct = 34005
    BY <1>3, <1>4 DEF items
  <2>2. QED BY <1>5, <2>1, LastOfOnce
<1>7. Has(items, 34920)
  BY <1>4 DEF Has
<1>8. QED BY <1>3, <1>4, <1>6, <1>7 DEF Trades, items

\* What the exchange broadcasts of a deletion is made of sub-items.
LEMMA DeleteNewsType ==
  ASSUME NEW n \in Int PROVE DeleteNews(n) \in Seq(SubItem(Orders, {n}))
<1>1. ReturnInfo(1, n) \in SubItem(Orders, {n})
  BY DEF SubItem
<1>2. DeleteTrans(n) \in SubItem(Orders, {n})
  BY DEF SubItem
<1>3. QED BY <1>1, <1>2 DEF DeleteNews

\* More numbers do no harm.
LEMMA MoreNumbers ==
  ASSUME NEW M, NEW N, M \subseteq N
  PROVE  /\ SubItem(Orders, M) \subseteq SubItem(Orders, N)
         /\ Published(Orders, M) \subseteq Published(Orders, N)
<1>1. SubItem(Orders, M) \subseteq SubItem(Orders, N)
  BY DEF SubItem
<1>2. Published(Orders, M) \subseteq Published(Orders, N)
  BY DEF Published
<1>3. QED BY <1>1, <1>2

\* A sequence over a set is one over every larger set.
LEMMA SeqMonotone ==
  ASSUME NEW S, NEW T, S \subseteq T PROVE Seq(S) \subseteq Seq(T)
<1>1. ASSUME NEW s \in Seq(S) PROVE s \in Seq(T)
  OBVIOUS
<1>2. QED BY <1>1

\* A new order.
LEMMA EnterKeeps ==
  ASSUME book \in Seq(Entries), NEW o \in OrderPod, NEW outcome \in EnterOutcomes(o)
  PROVE  /\ outcome.reply \in Replies /\ outcome.reply.ordid \in NumbersOf(outcome.book)
         /\ outcome.book \in Seq(Entries) /\ Extends(book, outcome.book)
         /\ outcome.news \in Seq(Seq(SubItem(Orders, NumbersOf(outcome.book))))
         /\ EnteredAs(o, outcome.reply, book, outcome.book, outcome.news)
<1> DEFINE n == Len(book) + 1
           booked(leaves) == Append(book, Entry(o, leaves))
           gone == Append(book, [Entry(o, o.qty - 1) EXCEPT !.leaves = 0])
           oneLot == TradeNews(n, o.req, o.qty, o.qty - 1, 1)
           Adds(c) == /\ c \in Seq(Entries) /\ Extends(book, c) /\ n \in DOMAIN c
                      /\ c[n].req = o.req /\ DOMAIN c = DOMAIN book \cup {n}
           Tells(news) == news \in Seq(Seq(SubItem(Orders, {n})))
<1>1. o.req \in Orders /\ o.qty \in Qty /\ o.qty \in UInt32s /\ o.qty \in Nat /\ o.qty > 0
  BY QtyType DEF OrderPod
<1>2. n \in Nat /\ n > 0
  OBVIOUS
<1>3. 0 \in UInt32s /\ o.qty - 1 \in UInt32s
  BY <1>1, UInt32RangeAssumption DEF UInt32s
<1>4. ASSUME NEW e \in Entries, e.req = o.req PROVE Adds(Append(book, e))
  <2>1. /\ Append(book, e) \in Seq(Entries)
        /\ Len(Append(book, e)) = n
        /\ \A i \in 1 .. Len(book) : Append(book, e)[i] = book[i]
        /\ Append(book, e)[n] = e
    BY AppendProperties
  <2>2. DOMAIN book = 1 .. Len(book) /\ DOMAIN Append(book, e) = 1 .. n
    BY <2>1, LenProperties
  <2> DEFINE c == Append(book, e)
  <2> HIDE DEF c
  <2>3. QED BY <1>2, <1>4, <2>1, <2>2 DEF Extends, c
<1>5. \A leaves \in UInt32s : Adds(booked(leaves))
  <2>1. \A leaves \in UInt32s : Entry(o, leaves) \in Entries /\ Entry(o, leaves).req = o.req
    BY <1>1 DEF Entry, Entries, UInt32s
  <2>2. QED
    <3> HIDE DEF Adds
    <3> QED BY <1>4, <2>1
<1>6. Adds(gone)
  <2>1. [Entry(o, o.qty - 1) EXCEPT !.leaves = 0] \in Entries
    BY <1>1, <1>3 DEF Entry, Entries, UInt32s
  <2>2. [Entry(o, o.qty - 1) EXCEPT !.leaves = 0].req = o.req
    BY DEF Entry
  <2>3. QED
    <3> HIDE DEF Adds
    <3> QED BY <1>4, <2>1, <2>2
<1>7. /\ \A left \in UInt32s, lots \in Nat :
           /\ TradeNews(n, o.req, o.qty, left, lots) \in Seq(SubItem(Orders, {n}))
           /\ Trades(TradeNews(n, o.req, o.qty, left, lots), o.req)
      /\ DeleteNews(n) \in Seq(SubItem(Orders, {n}))
  <2>1. n \in Int
    BY <1>2
  <2> HIDE DEF n
  <2>2. QED BY <1>1, <2>1, TradeNewsType, DeleteNewsType
<1>8. \/ \E txstatus \in {2, 3, 4, 6} :
           /\ outcome.reply = Done(txstatus, n)
           /\ Adds(outcome.book)
           /\ Tells(outcome.news)
           /\ txstatus # 4 => outcome.news # <<>> /\ Trades(outcome.news[1], o.req)
      \/ /\ outcome.reply \in {Done(1, 0), Refused}
         /\ outcome.book = book /\ outcome.news = <<>>
  <2>1. CASE outcome = Outcome(Done(4, n), booked(o.qty), <<>>)
    <3>1. outcome.reply = Done(4, n) /\ outcome.book = booked(o.qty) /\ outcome.news = <<>>
      BY <2>1 DEF Outcome
    <3> HIDE DEF Adds, booked, n
    <3>2. Tells(outcome.news)
      BY <3>1
    <3> HIDE DEF Tells
    <3>3. Adds(outcome.book)
      BY <1>1, <1>5, <3>1
    <3>4. QED BY <3>1, <3>2, <3>3
  <2>2. CASE outcome = Outcome(Done(2, n), booked(0), <<TradeNews(n, o.req, o.qty, 0, o.qty)>>)
    <3>1. /\ outcome.reply = Done(2, n) /\ outcome.book = booked(0)
          /\ outcome.news = <<TradeNews(n, o.req, o.qty, 0, o.qty)>>
      BY <2>2 DEF Outcome
    <3> DEFINE whole == TradeNews(n, o.req, o.qty, 0, o.qty)
    <3>5. whole \in Seq(SubItem(Orders, {n})) /\ Trades(whole, o.req)
      <4> HIDE DEF n
      <4> QED BY <1>1, <1>3, <1>7
    <3> HIDE DEF Adds, booked, n, whole
    <3>2. Tells(outcome.news) /\ outcome.news # <<>> /\ Trades(outcome.news[1], o.req)
      BY <3>1, <3>5 DEF whole
    <3> HIDE DEF Tells
    <3>3. Adds(outcome.book)
      BY <1>3, <1>5, <3>1
    <3>4. QED BY <3>1, <3>2, <3>3
  <2>3. CASE outcome \in {Outcome(Done(1, 0), book, <<>>), Outcome(Refused, book, <<>>)}
    BY <2>3 DEF Outcome
  <2>4. CASE outcome = Outcome(Done(6, n), booked(o.qty - 1), <<oneLot>>)
    <3>1. /\ outcome.reply = Done(6, n) /\ outcome.book = booked(o.qty - 1)
          /\ outcome.news = <<oneLot>>
      BY <2>4 DEF Outcome
    <3>2. oneLot \in Seq(SubItem(Orders, {n})) /\ Trades(oneLot, o.req)
      <4> HIDE DEF n
      <4> QED BY <1>3, <1>7
    <3> HIDE DEF Adds, booked, n, oneLot
    <3>3. Tells(outcome.news) /\ outcome.news # <<>> /\ Trades(outcome.news[1], o.req)
      BY <3>1, <3>2
    <3> HIDE DEF Tells
    <3>4. Adds(outcome.book)
      BY <1>3, <1>5, <3>1
    <3>5. QED BY <3>1, <3>3, <3>4
  <2>5. CASE outcome = Outcome(Done(3, n), gone, <<oneLot, DeleteNews(n)>>)
    <3>1. /\ outcome.reply = Done(3, n) /\ outcome.book = gone
          /\ outcome.news = <<oneLot, DeleteNews(n)>>
      BY <2>5 DEF Outcome
    <3>2. oneLot \in Seq(SubItem(Orders, {n})) /\ Trades(oneLot, o.req)
      <4> HIDE DEF n
      <4> QED BY <1>3, <1>7
    <3> HIDE DEF Adds, booked, n, oneLot, gone
    <3>3. Tells(outcome.news) /\ outcome.news # <<>> /\ Trades(outcome.news[1], o.req)
      BY <1>7, <3>1, <3>2
    <3> HIDE DEF Tells
    <3>4. Adds(outcome.book)
      BY <1>6, <3>1
    <3>5. QED BY <3>1, <3>3, <3>4
  <2>6. QED
    <3> HIDE DEF Adds, Tells, booked, gone, oneLot
    <3> QED BY <2>1, <2>2, <2>3, <2>4, <2>5 DEF EnterOutcomes, booked, gone, oneLot
<1>9. CASE \E txstatus \in {2, 3, 4, 6} :
             /\ outcome.reply = Done(txstatus, n)
             /\ Adds(outcome.book)
             /\ Tells(outcome.news)
             /\ txstatus # 4 => outcome.news # <<>> /\ Trades(outcome.news[1], o.req)
  <2>1. PICK txstatus \in {2, 3, 4, 6} :
             /\ outcome.reply = Done(txstatus, n)
             /\ Adds(outcome.book)
             /\ Tells(outcome.news)
             /\ txstatus # 4 => outcome.news # <<>> /\ Trades(outcome.news[1], o.req)
    BY <1>9
  <2>2. /\ outcome.reply \in Replies /\ outcome.reply.ok
        /\ outcome.reply.ordid = n /\ outcome.reply.txstatus = txstatus
    BY <1>2, <2>1 DEF Done, Replies
  <2>3. {n} \subseteq NumbersOf(outcome.book)
    BY <2>1 DEF NumbersOf
  <2>4. outcome.news \in Seq(Seq(SubItem(Orders, NumbersOf(outcome.book))))
    <3> DEFINE A == SubItem(Orders, {n})
               B == SubItem(Orders, NumbersOf(outcome.book))
    <3>1. A \subseteq B
      BY <2>3, MoreNumbers
    <3>2. outcome.news \in Seq(Seq(A))
      BY <2>1
    <3> HIDE DEF A, B
    <3>3. Seq(A) \subseteq Seq(B)
      BY <3>1, SeqMonotone
    <3>4. Seq(Seq(A)) \subseteq Seq(Seq(B))
      BY <3>3, SeqMonotone
    <3>5. QED BY <3>2, <3>4 DEF B
  <2>5. EnteredAs(o, outcome.reply, book, outcome.book, outcome.news)
    <3> HIDE DEF n
    <3> QED BY <2>1, <2>2 DEF EnteredAs
  <2>6. QED BY <2>1, <2>2, <2>3, <2>4, <2>5
<1>10. CASE /\ outcome.reply \in {Done(1, 0), Refused}
            /\ outcome.book = book /\ outcome.news = <<>>
  <2>1. /\ outcome.reply \in Replies /\ outcome.reply.ordid = 0
        /\ outcome.reply.ok => outcome.reply.txstatus = 1
    <3>1. Done(1, 0) \in Replies /\ Done(1, 0).ordid = 0 /\ Done(1, 0).txstatus = 1
      BY DEF Done, Replies
    <3>2. Refused \in Replies /\ Refused.ordid = 0 /\ ~Refused.ok
      BY DEF Refused, Replies
    <3>3. QED BY <1>10, <3>1, <3>2
  <2>2. Extends(book, book)
    BY DEF Extends
  <2>3. QED BY <1>10, <2>1, <2>2 DEF EnteredAs, NumbersOf
<1>11. QED BY <1>8, <1>9, <1>10

\* Quantities of 32 bits are numbers, and a smaller one is another.
LEMMA UInt32sAreNat ==
  /\ 0 \in UInt32s
  /\ \A q \in UInt32s : q \in Nat
  /\ \A q \in UInt32s, k \in Nat : k <= q => k \in UInt32s
BY UInt32RangeAssumption DEF UInt32s

\* What an order of the book is made of.
LEMMA BookEntry ==
  ASSUME NEW b \in Seq(Entries), NEW n \in DOMAIN b
  PROVE  /\ b[n] \in Entries /\ n \in Int
         /\ b[n].req \in Orders /\ b[n].qty \in UInt32s /\ b[n].leaves \in UInt32s
         /\ b[n].traded \in Int /\ b[n].leaves \in Nat
<1>1. b[n] \in Entries /\ n \in Int
  OBVIOUS
<1>2. /\ b[n].req \in Orders /\ b[n].qty \in UInt32s /\ b[n].leaves \in UInt32s
      /\ b[n].traded \in Int
  BY <1>1 DEF Entries
<1>3. QED BY <1>1, <1>2, UInt32sAreNat

\* What becomes of one entry of the book.
LEMMA EntryChanges ==
  ASSUME NEW b \in Seq(Entries), NEW n \in DOMAIN b, NEW e \in Entries, e.req = b[n].req,
         b[n].leaves = 0 => e.leaves = 0, NEW c, c = [b EXCEPT ![n] = e]
  PROVE  c \in Seq(Entries) /\ Extends(b, c) /\ DOMAIN c = DOMAIN b
<1>1. c \in Seq(Entries) /\ DOMAIN c = DOMAIN b
  OBVIOUS
<1>2. QED BY <1>1 DEF Extends

\* An alteration or a deletion.
LEMMA ChangeKeeps ==
  ASSUME book \in Seq(Entries), NEW o \in OrderPod,
         NEW outcome \in AlterOutcomes(o) \cup DeleteOutcomes(o)
  PROVE  /\ outcome.reply \in Replies /\ outcome.reply.ordid \in NumbersOf(outcome.book)
         /\ outcome.book \in Seq(Entries) /\ Extends(book, outcome.book)
         /\ DOMAIN outcome.book = DOMAIN book
         /\ outcome.news \in Seq(Seq(SubItem(Orders, NumbersOf(outcome.book))))
         /\ outcome \in DeleteOutcomes(o) /\ o.num \in DOMAIN book
              => outcome.book[o.num].leaves = 0
<1>1. o.qty \in UInt32s /\ o.qty \in Nat /\ o.num \in Int
  BY QtyType DEF OrderPod
<1>2. TxId \in Int /\ \A c : TxId \in NumbersOf(c) /\ 0 \in NumbersOf(c)
  BY DEF TxId, NumbersOf
<1>3. \A n \in DOMAIN book : book[n] \in Entries /\ book[n].leaves \in Nat
  BY BookEntry
<1>4. Extends(book, book)
  BY DEF Extends
<1>5. CASE outcome \in NotFound /\ ~Live(o.num)
  <2>1. /\ outcome.reply \in {Done(0, TxId), Refused}
        /\ outcome.book = book /\ outcome.news = <<>>
    BY <1>5 DEF NotFound, Outcome
  <2>2. outcome.reply \in Replies /\ outcome.reply.ordid \in {0, TxId}
    <3>1. Done(0, TxId) \in Replies /\ Done(0, TxId).ordid = TxId
      BY <1>2 DEF Done, Replies
    <3>2. Refused \in Replies /\ Refused.ordid = 0
      BY DEF Refused, Replies
    <3>3. QED BY <2>1, <3>1, <3>2
  <2>3. o.num \in DOMAIN book => book[o.num].leaves = 0
    <3>1. ~(o.num \in DOMAIN book /\ book[o.num].leaves > 0)
      BY <1>5 DEF Live
    <3>2. QED BY <1>3, <3>1
  <2>4. QED BY <1>2, <1>4, <2>1, <2>2, <2>3
<1>6. ASSUME Live(o.num),
             outcome = Outcome(Done(book[o.num].leaves, TxId),
                          [book EXCEPT ![o.num].qty = o.qty, ![o.num].leaves = o.qty], <<>>),
             ~(outcome \in DeleteOutcomes(o))
      PROVE  /\ outcome.reply \in Replies /\ outcome.reply.ordid \in NumbersOf(outcome.book)
             /\ outcome.book \in Seq(Entries) /\ Extends(book, outcome.book)
             /\ DOMAIN outcome.book = DOMAIN book
             /\ outcome.news \in Seq(Seq(SubItem(Orders, NumbersOf(outcome.book))))
  <2> DEFINE n == o.num
             e == [book[n] EXCEPT !.qty = o.qty, !.leaves = o.qty]
  <2>1. n \in DOMAIN book /\ book[n] \in Entries /\ book[n].leaves \in Nat /\ book[n].leaves > 0
    BY <1>3, <1>6 DEF Live
  <2>2. e \in Entries /\ e.req = book[n].req
    BY <1>1, <2>1 DEF Entries
  <2>3. outcome.book = [book EXCEPT ![n] = e]
    BY <1>6, <2>1 DEF Outcome
  <2>4. /\ outcome.book \in Seq(Entries) /\ Extends(book, outcome.book)
        /\ DOMAIN outcome.book = DOMAIN book
    <3> HIDE DEF e
    <3> QED BY <2>1, <2>2, <2>3, EntryChanges
  <2>5. outcome.reply = Done(book[n].leaves, TxId) /\ outcome.news = <<>>
    BY <1>6 DEF Outcome
  <2>6. outcome.reply \in Replies /\ outcome.reply.ordid = TxId
    BY <1>2, <2>1, <2>5 DEF Done, Replies
  <2>7. QED BY <1>2, <2>4, <2>5, <2>6
<1>7. ASSUME Live(o.num), NEW txstatus \in {0, book[o.num].leaves},
             outcome = Outcome(Done(txstatus, TxId),
                               [book EXCEPT ![o.num].leaves = 0], <<DeleteNews(o.num)>>)
      PROVE  /\ outcome.reply \in Replies /\ outcome.reply.ordid \in NumbersOf(outcome.book)
             /\ outcome.book \in Seq(Entries) /\ Extends(book, outcome.book)
             /\ DOMAIN outcome.book = DOMAIN book
             /\ outcome.news \in Seq(Seq(SubItem(Orders, NumbersOf(outcome.book))))
             /\ outcome.book[o.num].leaves = 0
  <2> DEFINE n == o.num
             e == [book[n] EXCEPT !.leaves = 0]
  <2>1. n \in DOMAIN book /\ book[n] \in Entries /\ book[n].leaves \in Nat
    BY <1>3, <1>7 DEF Live
  <2>2. e \in Entries /\ e.req = book[n].req /\ e.leaves = 0
    BY <2>1, UInt32sAreNat DEF Entries
  <2>3. outcome.book = [book EXCEPT ![n] = e]
    BY <1>7, <2>1 DEF Outcome
  <2>4. /\ outcome.book \in Seq(Entries) /\ Extends(book, outcome.book)
        /\ DOMAIN outcome.book = DOMAIN book
    <3> HIDE DEF e
    <3> QED BY <2>1, <2>2, <2>3, EntryChanges
  <2>5. outcome.reply = Done(txstatus, TxId) /\ outcome.news = <<DeleteNews(n)>>
    BY <1>7 DEF Outcome
  <2>6. outcome.reply \in Replies /\ outcome.reply.ordid = TxId
    BY <1>2, <2>1, <2>5 DEF Done, Replies
  <2>7. outcome.book[n].leaves = 0
    BY <2>1, <2>2, <2>3
  <2>8. outcome.news \in Seq(Seq(SubItem(Orders, NumbersOf(outcome.book))))
    <3> DEFINE A == SubItem(Orders, {n})
               B == SubItem(Orders, NumbersOf(outcome.book))
    <3>1. {n} \subseteq NumbersOf(outcome.book)
      BY <2>1, <2>4 DEF NumbersOf
    <3>2. A \subseteq B
      BY <3>1, MoreNumbers
    <3>3. outcome.news \in Seq(Seq(A))
      <4>1. DeleteNews(n) \in Seq(A)
        BY <1>1, DeleteNewsType
      <4> HIDE DEF A
      <4>2. QED BY <2>5, <4>1
    <3> HIDE DEF A, B
    <3>4. Seq(A) \subseteq Seq(B)
      BY <3>2, SeqMonotone
    <3>5. Seq(Seq(A)) \subseteq Seq(Seq(B))
      BY <3>4, SeqMonotone
    <3>6. QED BY <3>3, <3>5 DEF B
  <2>9. QED BY <1>2, <2>4, <2>5, <2>6, <2>7, <2>8
<1>8. CASE ~Live(o.num)
  BY <1>5, <1>8 DEF AlterOutcomes, DeleteOutcomes
<1>9. CASE Live(o.num) /\ outcome \in DeleteOutcomes(o)
  <2>1. PICK txstatus \in {0, book[o.num].leaves} :
          outcome = Outcome(Done(txstatus, TxId),
                            [book EXCEPT ![o.num].leaves = 0], <<DeleteNews(o.num)>>)
    BY <1>9 DEF DeleteOutcomes
  <2>2. QED BY <1>7, <1>9, <2>1
<1>10. CASE Live(o.num) /\ ~(outcome \in DeleteOutcomes(o))
  <2>1. outcome = Outcome(Done(book[o.num].leaves, TxId),
                     [book EXCEPT ![o.num].qty = o.qty, ![o.num].leaves = o.qty], <<>>)
    BY <1>10 DEF AlterOutcomes
  <2>2. QED BY <1>6, <1>10, <2>1
<1>11. QED BY <1>8, <1>9, <1>10

\* The market.
LEMMA MarketKeeps ==
  ASSUME book \in Seq(Entries), tape \in Seq(Seq(SubItem(Orders, NumbersOf(book)))), Market
  PROVE  /\ book' \in Seq(Entries) /\ Extends(book, book') /\ DOMAIN book' = DOMAIN book
         /\ \E items \in Seq(SubItem(Orders, NumbersOf(book))) : tape' = Append(tape, items)
<1>1. PICK n \in DOMAIN book : MarketTrade(n) \/ MarketDelete(n)
  BY DEF Market
<1>2. /\ book[n] \in Entries /\ book[n].leaves \in Nat /\ book[n].leaves > 0 /\ n \in Int
      /\ book[n].qty \in UInt32s /\ book[n].req \in Orders
  <2>1. book[n].leaves > 0
    BY <1>1 DEF MarketTrade, MarketDelete, Live
  <2>2. QED BY <2>1, BookEntry
<1>3. SubItem(Orders, {n}) \subseteq SubItem(Orders, NumbersOf(book))
  <2>1. {n} \subseteq NumbersOf(book)
    BY DEF NumbersOf
  <2>2. QED BY <2>1, MoreNumbers
<1>4. CASE MarketTrade(n)
  <2>1. PICK traded \in {1, book[n].leaves}, named \in {book[n].qty, book[n].leaves} :
          LET left == book[n].leaves - traded IN
          /\ book' = [book EXCEPT ![n].leaves = left, ![n].traded = @ + traded]
          /\ tape' = Append(tape, TradeNews(n, book[n].req, named, left, traded))
    BY <1>4 DEF MarketTrade
  <2> DEFINE left == book[n].leaves - traded
             e == [book[n] EXCEPT !.leaves = left, !.traded = @ + traded]
             items == TradeNews(n, book[n].req, named, left, traded)
  <2>2. traded \in Nat /\ left \in UInt32s
    <3>1. left \in Nat /\ left <= book[n].leaves /\ traded \in Nat /\ book[n].leaves \in UInt32s
      BY <1>2, BookEntry
    <3> HIDE DEF left
    <3> HIDE DEF left
    <3>2. QED BY <3>1, UInt32sAreNat
  <2>3. book' = [book EXCEPT ![n] = e]
    BY <1>2, <2>1
  <2>4. e \in Entries /\ e.req = book[n].req /\ (book[n].leaves = 0 => e.leaves = 0)
    <3>1. book[n].traded + traded \in Int
      BY <2>2, BookEntry
    <3> DEFINE sum == book[n].traded + traded
    <3>2. e = [book[n] EXCEPT !.leaves = left, !.traded = sum]
      OBVIOUS
    <3>3. [book[n] EXCEPT !.leaves = left, !.traded = sum] \in Entries
      <4> HIDE DEF left, sum
      <4> QED BY <1>2, <2>2, <3>1 DEF Entries, sum
    <3>4. e.req = book[n].req
      BY <1>2 DEF Entries
    <3>5. book[n].leaves # 0
      BY <1>2
    <3>6. QED BY <3>2, <3>3, <3>4, <3>5
  <2>5. book' \in Seq(Entries) /\ Extends(book, book') /\ DOMAIN book' = DOMAIN book
    <3> HIDE DEF e
    <3> QED BY <1>2, <2>3, <2>4, EntryChanges
  <2>6. items \in Seq(SubItem(Orders, {n}))
    <3>1. named \in UInt32s
      BY <2>1, BookEntry
    <3> HIDE DEF left
    <3>2. QED BY <1>2, <2>2, <3>1, TradeNewsType
  <2>7. items \in Seq(SubItem(Orders, NumbersOf(book)))
    <3> HIDE DEF items
    <3> QED BY <1>3, <2>6, SeqMonotone
  <2>8. tape' = Append(tape, items)
    BY <2>1
  <2>9. QED
    <3> HIDE DEF items
    <3> QED BY <2>5, <2>7, <2>8
<1>5. CASE MarketDelete(n)
  <2> DEFINE e == [book[n] EXCEPT !.leaves = 0]
  <2>1. book' = [book EXCEPT ![n] = e] /\ tape' = Append(tape, DeleteNews(n))
    BY <1>2, <1>5 DEF MarketDelete
  <2>2. e \in Entries /\ e.req = book[n].req /\ e.leaves = 0
    BY <1>2, UInt32sAreNat DEF Entries
  <2>3. book' \in Seq(Entries) /\ Extends(book, book') /\ DOMAIN book' = DOMAIN book
    <3> HIDE DEF e
    <3> QED BY <1>2, <2>1, <2>2, EntryChanges
  <2>4. DeleteNews(n) \in Seq(SubItem(Orders, {n}))
    BY <1>2, DeleteNewsType
  <2>5. DeleteNews(n) \in Seq(SubItem(Orders, NumbersOf(book)))
    BY <1>3, <2>4, SeqMonotone
  <2>6. QED BY <2>1, <2>3, <2>5
<1>6. QED BY <1>1, <1>4, <1>5

-----------------------------------------------------------------------------
(* The types of what the kinds of steps touch. *)

\* The orders of N are orders.
LEMMA PodType ==
  ASSUME NEW N, NEW o \in Pods(N)
  PROVE  /\ o \in OrderPod /\ o.num \in N /\ o # NoOrder
         /\ Request(o) \in Requests /\ Request(o) = <<o.req, o.act>>
         /\ o.req \in Orders /\ o.act \in Acts
BY PodIsOrder DEF Pods

\* An answer has the number the order was sent with, or the exchange's.
LEMMA AnswerIsPod ==
  ASSUME NEW N, NEW o \in Pods(N), NEW txstatus \in Nat, NEW ordid \in N \cap Int
  PROVE  /\ Rejected(o) \in Pods(N)
         /\ FirstAnswer(o, txstatus, ordid) \in Pods(N)
         /\ RetryAnswer(o, txstatus, ordid) \in Pods(N)
<1>1. o \in OrderPod /\ o.num \in N /\ o.act \in Acts
  BY PodType
<1>2. Rejected(o).num \in N
  BY <1>1 DEF Rejected, Status, OrderPod
<1>3. FirstAnswer(o, txstatus, ordid).num \in N
  BY <1>1 DEF FirstAnswer, Rejected, Numbered, Whole, Status, OrderPod, Acts
<1>4. RetryAnswer(o, txstatus, ordid).num \in N
  <2>1. CASE o.act = "CXL"
    BY <1>1, <2>1 DEF RetryAnswer, Status, OrderPod
  <2>2. CASE o.act # "CXL"
    <3> DEFINE n == [o EXCEPT !.num = ordid]
    <3>1. n.num \in N /\ n \in OrderPod
      BY <1>1 DEF OrderPod
    <3>2. \/ \E status \in Statuses : RetryAnswer(o, txstatus, ordid) = [n EXCEPT !.status = status]
          \/ RetryAnswer(o, txstatus, ordid) =
               [[n EXCEPT !.status = "FILLED"] EXCEPT !.last = o.qty, !.leaves = 0]
      BY <1>1, <2>2 DEF RetryAnswer, Numbered, Status, Statuses, Acts
    <3> HIDE DEF n
    <3>3. QED BY <3>1, <3>2 DEF OrderPod
  <2>3. QED BY <2>1, <2>2
<1>5. QED BY <1>1, <1>2, <1>3, <1>4, RejectedType, FirstAnswerType, RetryAnswerType DEF Pods

\* An answer is an order like the one the worker has in hand.
LEMMA AnswersType ==
  ASSUME NEW N \in SUBSET Int, FlowTypes(N), NEW w \in Workers, NEW a, Answers(w, a)
  PROVE  a \in Pods(N) /\ cur[w] \in Pods(N)
<1>1. cur[w] \in Pods(N) /\ reply[w].txstatus \in Nat /\ reply[w].ordid \in N \cap Int
  BY DEF FlowTypes, Answers, Replies
<1> DEFINE o == cur[w]
           txstatus == reply[w].txstatus
           ordid == reply[w].ordid
<1>2. /\ Rejected(o) \in Pods(N)
      /\ FirstAnswer(o, txstatus, ordid) \in Pods(N)
      /\ RetryAnswer(o, txstatus, ordid) \in Pods(N)
  <2> HIDE DEF o, txstatus, ordid
  <2>1. o \in Pods(N) /\ txstatus \in Nat /\ ordid \in N \cap Int
    BY <1>1 DEF o, txstatus, ordid
  <2>2. QED BY <2>1, AnswerIsPod
<1>3. a \in {Rejected(o), FirstAnswer(o, txstatus, ordid), RetryAnswer(o, txstatus, ordid)}
  BY DEF Answers, ExchangeSays, GivenUp
<1>4. QED BY <1>1, <1>2, <1>3

\* An answer goes into the response queue, or a full queue drops it.
Responds(w, a) ==
  /\ Len(respQ[w]) < ResponseQueueBound
  /\ respQ' = [respQ EXCEPT ![w] = Append(respQ[w], a)]
  /\ answers' = [answers EXCEPT ![Request(a)] = Append(answers[Request(a)], a)]
  /\ dropped' = dropped

Drops(a) ==
  /\ dropped' = dropped \cup {Request(a)}
  /\ respQ' = respQ
  /\ answers' = answers

\* There is no third thing Answer does.
LEMMA AnswerCases ==
  ASSUME NEW w \in Workers, NEW a, Answer(w, a) PROVE Responds(w, a) \/ Drops(a)
<1>1. CASE Len(respQ[w]) < ResponseQueueBound
  BY <1>1 DEF Answer, Responds
<1>2. CASE ~(Len(respQ[w]) < ResponseQueueBound)
  BY <1>2 DEF Answer, Drops
<1>3. QED BY <1>1, <1>2

\* What Answer does to the response queue and the answers.
LEMMA AnswerKeeps ==
  ASSUME NEW N \in SUBSET Int, FlowTypes(N), NEW w \in Workers, NEW a \in Pods(N), Answer(w, a)
  PROVE  /\ respQ' \in [Workers -> Seq(Pods(N))]
         /\ \A v \in Workers : Len(respQ'[v]) <= ResponseQueueBound
         /\ answers' \in [Requests -> Seq(Pods(N))]
         /\ dropped' \in SUBSET Requests
<1>1. /\ respQ \in [Workers -> Seq(Pods(N))] /\ answers \in [Requests -> Seq(Pods(N))]
      /\ \A v \in Workers : Len(respQ[v]) <= ResponseQueueBound
      /\ dropped \in SUBSET Requests
  BY DEF FlowTypes
<1>2. Request(a) \in Requests
  BY PodType
<1>3. CASE Drops(a)
  BY <1>1, <1>2, <1>3 DEF Drops
<1>4. CASE Responds(w, a)
  <2> DEFINE q == Append(respQ[w], a)
  <2>1. q \in Seq(Pods(N)) /\ Len(q) <= ResponseQueueBound
    <3>1. respQ[w] \in Seq(Pods(N)) /\ Len(respQ[w]) \in Nat /\ Len(respQ[w]) < ResponseQueueBound
      BY <1>1, <1>4 DEF Responds
    <3>2. QED BY <3>1, AppendProperties, BoundsAssumption
  <2>2. answers[Request(a)] \in Seq(Pods(N))
    BY <1>1, <1>2
  <2>3. Append(answers[Request(a)], a) \in Seq(Pods(N))
    BY <2>2, AppendProperties
  <2>4. answers' \in [Requests -> Seq(Pods(N))] /\ dropped' \in SUBSET Requests
    BY <1>1, <1>4, <2>3 DEF Responds
  <2>5. respQ' = [respQ EXCEPT ![w] = q]
    BY <1>4 DEF Responds
  <2> HIDE DEF q
  <2>6. QED BY <1>1, <2>1, <2>4, <2>5
<1>5. QED BY <1>3, <1>4, AnswerCases

HandlerTypes(N) ==
  /\ at \in 0..WorkerCount
  /\ gpc \in {"start", "copy", "startWait", "enqueue"} => at \in Workers
  /\ firstTry \in Workers
  /\ known \in [Orders -> N]

\* A worker's step keeps the types.
LEMMA WorkerFlowTypes ==
  ASSUME NEW N \in SUBSET Int, FlowTypes(N), HandlerTypes(N)', NEW w \in Workers, WorkerFlow(w),
         Hears(w) => reply' \in [Workers -> Replies] /\ \A v \in Workers : reply'[v].ordid \in N,
         0 \in N
  PROVE  FlowTypes(N)'
<1>1. CASE \E pc \in PCs : Moves(w, pc)
  <2>1. PICK pc \in PCs : Moves(w, pc)
    BY <1>1
  <2>2. wpc' = [wpc EXCEPT ![w] = pc] /\ wpc' \in [Workers -> PCs]
    BY <2>1 DEF Moves, FlowTypes
  <2>3. \A v \in Workers : HandPlace(v)'
    <3>1. ASSUME NEW v \in Workers PROVE HandPlace(v)'
      <4>1. CASE v # w
        BY <2>1, <2>2, <4>1 DEF Moves, FlowTypes, HandPlace
      <4>2. CASE v = w
        BY <2>1, <2>2, <4>2 DEF Moves, FlowTypes, HandPlace, HeldPCs
      <4>3. QED BY <4>1, <4>2
    <3>2. QED BY <3>1
  <2>4. UNCHANGED <<cur, retry, reply, answers, dropped, lost, deferred, inSend, fate, dispatched, orderQ,
                    respQ, heard>>
        /\ (gpc' \in SendPCs => gpc \in SendPCs)
    BY <2>1 DEF Moves, SendVars, queueVars
  <2>5. QED BY <2>2, <2>3, <2>4 DEF FlowTypes, HandlerTypes
<1>2. CASE Takes(w)
  <2>1. orderQ[w] \in Seq(Pods(N)) /\ orderQ[w] # <<>> /\ Len(orderQ[w]) <= OrderQueueBound
    BY <1>2 DEF Takes, FlowTypes
  <2>2. Head(orderQ[w]) \in Pods(N) /\ Tail(orderQ[w]) \in Seq(Pods(N))
        /\ Len(Tail(orderQ[w])) <= OrderQueueBound
    BY <2>1, HeadTailProperties, BoundsAssumption
  <2>3. Head(orderQ[w]) # NoOrder
    BY <2>2, PodType
  <2>4. /\ wpc' \in [Workers -> PCs] /\ orderQ' \in [Workers -> Seq(Pods(N))]
        /\ cur' \in [Workers -> Pods(N) \cup {NoOrder}]
        /\ \A v \in Workers : Len(orderQ'[v]) <= OrderQueueBound
    BY <1>2, <2>2 DEF Takes, FlowTypes, PCs
  <2>5. \A v \in Workers : HandPlace(v)'
    BY <1>2, <2>3 DEF Takes, FlowTypes, HandPlace, HeldPCs
  <2>6. UNCHANGED <<retry, reply, answers, dropped, lost, deferred, inSend, fate, dispatched, respQ, heard,
                    gpc>>
    BY <1>2 DEF Takes, SendVars
  <2>7. QED BY <2>4, <2>5, <2>6 DEF FlowTypes, HandlerTypes
<1>3. CASE TurnsDown(w)
  <2>1. orderQ[w] \in Seq(Pods(N)) /\ orderQ[w] # <<>> /\ Len(orderQ[w]) <= OrderQueueBound
    BY <1>3 DEF TurnsDown, FlowTypes
  <2>2. Head(orderQ[w]) \in Pods(N) /\ Tail(orderQ[w]) \in Seq(Pods(N))
        /\ Len(Tail(orderQ[w])) <= OrderQueueBound
    BY <2>1, HeadTailProperties, BoundsAssumption
  <2>3. Rejected(Head(orderQ[w])) \in Pods(N)
    BY <2>2, AnswerIsPod
  <2>4. /\ respQ' \in [Workers -> Seq(Pods(N))] /\ answers' \in [Requests -> Seq(Pods(N))]
        /\ dropped' \in SUBSET Requests
        /\ \A v \in Workers : Len(respQ'[v]) <= ResponseQueueBound
    BY <1>3, <2>3, AnswerKeeps DEF TurnsDown
  <2>5. /\ wpc' \in [Workers -> PCs] /\ orderQ' \in [Workers -> Seq(Pods(N))]
        /\ cur' \in [Workers -> Pods(N) \cup {NoOrder}] /\ retry' \in [Workers -> BOOLEAN]
        /\ \A v \in Workers : Len(orderQ'[v]) <= OrderQueueBound
    BY <1>3, <2>2 DEF TurnsDown, FlowTypes, PCs
  <2>6. \A v \in Workers : HandPlace(v)'
    BY <1>3 DEF TurnsDown, FlowTypes, HandPlace, HeldPCs
  <2>7. UNCHANGED <<reply, lost, deferred, inSend, fate, dispatched, heard, gpc>>
    BY <1>3 DEF TurnsDown, SendVars
  <2>8. QED BY <2>4, <2>5, <2>6, <2>7 DEF FlowTypes, HandlerTypes
<1>4. CASE Hears(w)
  <2>1. cur[w] \in Pods(N) /\ cur[w] # NoOrder
    BY <1>4 DEF Hears, FlowTypes, HandPlace
  <2>2. /\ wpc' = [wpc EXCEPT ![w] = "wait"]
        /\ heard' = [heard EXCEPT ![w] = Append(@, Request(cur[w]))]
        /\ UNCHANGED <<cur, retry, answers, dropped, lost, deferred, inSend, fate, dispatched, orderQ, respQ,
                       gpc>>
    BY <1>4 DEF Hears, SendVars, queueVars
  <2>3. heard' \in [Workers -> Seq(Requests)]
    BY <2>1, <2>2, PodType DEF FlowTypes
  <2>4. wpc' \in [Workers -> PCs]
    BY <2>2 DEF FlowTypes, PCs
  <2>5. \A v \in Workers : HandPlace(v)'
    BY <2>1, <2>2 DEF FlowTypes, HandPlace, HeldPCs
  <2>6. QED BY <1>4, <2>2, <2>3, <2>4, <2>5 DEF FlowTypes, HandlerTypes
<1>5. CASE Repeats(w)
  <2>1. wpc' \in [Workers -> PCs] /\ retry' \in [Workers -> BOOLEAN]
    BY <1>5 DEF Repeats, FlowTypes, PCs
  <2>2. \A v \in Workers : HandPlace(v)'
    BY <1>5 DEF Repeats, FlowTypes, HandPlace, HeldPCs
  <2>3. UNCHANGED <<cur, reply, answers, dropped, lost, deferred, inSend, fate, dispatched, orderQ, respQ,
                    heard, gpc>>
    BY <1>5 DEF Repeats, SendVars, queueVars
  <2>4. QED BY <2>1, <2>2, <2>3 DEF FlowTypes, HandlerTypes
<1>6. CASE \E a \in OrderPod : Request(a) = Request(cur[w]) /\ Answers(w, a)
  <2>1. PICK a \in OrderPod : Request(a) = Request(cur[w]) /\ Answers(w, a)
    BY <1>6
  <2>2. a \in Pods(N) /\ cur[w] \in Pods(N)
    BY <2>1, AnswersType
  <2>3. /\ respQ' \in [Workers -> Seq(Pods(N))] /\ answers' \in [Requests -> Seq(Pods(N))]
        /\ dropped' \in SUBSET Requests
        /\ \A v \in Workers : Len(respQ'[v]) <= ResponseQueueBound
    BY <2>1, <2>2, AnswerKeeps DEF Answers
  <2>4. /\ wpc' = [wpc EXCEPT ![w] = "loop"] /\ cur' = [cur EXCEPT ![w] = NoOrder]
        /\ retry' = [retry EXCEPT ![w] = FALSE]
        /\ reply' \in {reply, [reply EXCEPT ![w] = Refused]}
        /\ UNCHANGED <<deferred, inSend, fate, dispatched, orderQ, heard, gpc>>
    BY <2>1 DEF Answers, SendVars
  <2>5. /\ wpc' \in [Workers -> PCs] /\ retry' \in [Workers -> BOOLEAN]
        /\ cur' \in [Workers -> Pods(N) \cup {NoOrder}]
    BY <2>4 DEF FlowTypes, PCs
  <2>6. reply' \in [Workers -> Replies] /\ \A v \in Workers : reply'[v].ordid \in N
    <3>1. Refused \in Replies /\ Refused.ordid = 0
      BY DEF Refused, Replies
    <3>2. QED BY <2>4, <3>1 DEF FlowTypes
  <2>7. lost' \in SUBSET Requests
    <3>1. lost' \subseteq lost \cup {Request(cur[w])}
      BY <2>1 DEF Answers, ExchangeSays, GivenUp
    <3>2. Request(cur[w]) \in Requests
      BY <2>2, PodType
    <3>3. QED BY <3>1, <3>2 DEF FlowTypes
  <2>8. \A v \in Workers : HandPlace(v)'
    BY <2>4 DEF FlowTypes, HandPlace, HeldPCs
  <2>9. QED BY <2>3, <2>4, <2>5, <2>6, <2>7, <2>8 DEF FlowTypes, HandlerTypes
<1>7. CASE Defers(w) \/ Loses(w)
  <2>1. cur[w] \in Pods(N)
    BY <1>7 DEF Defers, Loses, FlowTypes, HandPlace
  <2>2. Request(cur[w]) \in Requests
    BY <2>1, PodType
  <2>3. Refused \in Replies /\ Refused.ordid = 0
    BY DEF Refused, Replies
  <2>4. /\ wpc' \in [Workers -> PCs] /\ cur' \in [Workers -> Pods(N) \cup {NoOrder}]
        /\ reply' \in [Workers -> Replies] /\ \A v \in Workers : reply'[v].ordid \in N
    BY <1>7, <2>3, ZenonT(40) DEF Defers, Loses, FlowTypes, PCs
  <2>5. lost' \in SUBSET Requests /\ deferred' \in SUBSET Requests
    BY <1>7, <2>2 DEF Defers, Loses, FlowTypes
  <2>6. \A v \in Workers : HandPlace(v)'
    BY <1>7, ZenonT(40) DEF Defers, Loses, FlowTypes, HandPlace, HeldPCs
  <2>7. UNCHANGED <<retry, answers, dropped, inSend, fate, dispatched, orderQ, respQ, heard, gpc>>
    BY <1>7 DEF Defers, Loses, SendVars, queueVars
  <2>8. QED BY <2>4, <2>5, <2>6, <2>7 DEF FlowTypes, HandlerTypes
<1>8. QED BY <1>1, <1>2, <1>3, <1>4, <1>5, <1>6, <1>7 DEF WorkerFlow

\* So does a step of the handler.
LEMMA SendFlowTypes ==
  ASSUME NEW N \in SUBSET Int, FlowTypes(N), HandlerTypes(N)', Rests \/ SendFlow
  PROVE  FlowTypes(N)'
<1>1. CASE Rests
  <2>1. UNCHANGED <<wpc, cur, retry, reply, answers, dropped, lost, deferred, inSend, fate, dispatched,
                    orderQ, heard>>
        /\ (gpc' \in SendPCs => gpc \in SendPCs)
    BY <1>1 DEF Rests, HandVars, SendVars
  <2>2. /\ respQ' \in [Workers -> Seq(Pods(N))]
        /\ \A v \in Workers : Len(respQ'[v]) <= ResponseQueueBound
    <3>1. CASE respQ' = respQ
      BY <3>1 DEF FlowTypes
    <3>2. CASE at \in Workers /\ respQ[at] # <<>> /\ respQ' = [respQ EXCEPT ![at] = Tail(@)]
      <4>1. Tail(respQ[at]) \in Seq(Pods(N)) /\ Len(Tail(respQ[at])) <= ResponseQueueBound
        <5>1. respQ[at] \in Seq(Pods(N)) /\ Len(respQ[at]) <= ResponseQueueBound
          BY <3>2 DEF FlowTypes
        <5>2. QED BY <3>2, <5>1, HeadTailProperties, BoundsAssumption
      <4>2. QED BY <3>2, <4>1 DEF FlowTypes
    <3>3. QED BY <1>1, <3>1, <3>2 DEF Rests
  <2>3. \A v \in Workers : HandPlace(v)'
    BY <2>1 DEF FlowTypes, HandPlace
  <2>4. QED BY <2>1, <2>2, <2>3 DEF FlowTypes, HandlerTypes
<1>2. ASSUME NEW o \in OrderPod, Begins(o) PROVE FlowTypes(N)'
  <2>1. o \in Pods(N)
    BY <1>2 DEF Begins, ClientMay, FlowTypes, Pods, OrderPod
  <2>2. UNCHANGED <<wpc, cur, retry, reply, answers, dropped, lost, deferred, fate, dispatched, orderQ,
                    respQ, heard>> /\ inSend' = o
    BY <1>2 DEF Begins, HandVars, queueVars
  <2>3. \A v \in Workers : HandPlace(v)'
    BY <2>2 DEF FlowTypes, HandPlace
  <2>4. QED BY <2>1, <2>2, <2>3 DEF FlowTypes, HandlerTypes
<1>3. CASE Refuses
  <2>1. /\ fate' = [fate EXCEPT ![Request(inSend)] = "refused"] /\ inSend' = NoOrder /\ gpc' = "run"
        /\ UNCHANGED <<wpc, cur, retry, reply, answers, dropped, lost, deferred, dispatched, orderQ, respQ,
                       heard>>
    BY <1>3 DEF Refuses, HandVars, queueVars
  <2>2. \A v \in Workers : HandPlace(v)'
    BY <2>1 DEF FlowTypes, HandPlace
  <2>3. QED BY <2>1, <2>2 DEF FlowTypes, HandlerTypes, SendPCs
<1>4. ASSUME NEW w \in Workers, Queues(w) PROVE FlowTypes(N)'
  <2>1. inSend \in Pods(N) /\ Len(orderQ[w]) < OrderQueueBound /\ orderQ[w] \in Seq(Pods(N))
    BY <1>4 DEF Queues, FlowTypes
  <2>2. Request(inSend) \in Requests
    BY <2>1, PodType
  <2>3. /\ Append(orderQ[w], inSend) \in Seq(Pods(N))
        /\ Len(Append(orderQ[w], inSend)) <= OrderQueueBound
    BY <2>1, AppendProperties, BoundsAssumption
  <2>4. /\ orderQ' = [orderQ EXCEPT ![w] = Append(orderQ[w], inSend)]
        /\ dispatched' = [dispatched EXCEPT ![w] = Append(@, Request(inSend))]
        /\ fate' = [fate EXCEPT ![Request(inSend)] = "queued"] /\ inSend' = NoOrder /\ gpc' = "run"
        /\ UNCHANGED <<wpc, cur, retry, reply, answers, dropped, lost, deferred, respQ, heard>>
    BY <1>4 DEF Queues, HandVars, FlowTypes
  <2>5. /\ orderQ' \in [Workers -> Seq(Pods(N))]
        /\ \A v \in Workers : Len(orderQ'[v]) <= OrderQueueBound
    BY <2>3, <2>4 DEF FlowTypes
  <2>6. dispatched' \in [Workers -> Seq(Requests)]
    BY <2>2, <2>4 DEF FlowTypes
  <2>7. fate' \in [Requests -> {"none", "refused", "queued"}]
    BY <2>4 DEF FlowTypes
  <2>8. \A v \in Workers : HandPlace(v)'
    BY <2>4 DEF FlowTypes, HandPlace
  <2>9. QED BY <2>4, <2>5, <2>6, <2>7, <2>8 DEF FlowTypes, HandlerTypes, SendPCs
<1>5. QED BY <1>1, <1>2, <1>3, <1>4 DEF SendFlow

-----------------------------------------------------------------------------
(* A step of the exchange: the book and the tape. *)

Grows(s, t) == Len(s) <= Len(t) /\ \A i \in 1..Len(s) : t[i] = s[i]

ExchTypes ==
  /\ book \in Seq(Entries)
  /\ tape \in Seq(Seq(SubItem(Orders, NumbersOf(book))))

\* A book that extends another has its numbers.
LEMMA MoreNumbersInBook ==
  ASSUME NEW b, NEW c, Extends(b, c) PROVE NumbersOf(b) \subseteq NumbersOf(c)
BY DEF Extends, NumbersOf

\* More numbers in the book leave the tape what it is.
LEMMA TapeLifts ==
  ASSUME NEW M, NEW N, M \subseteq N
  PROVE  Seq(Seq(SubItem(Orders, M))) \subseteq Seq(Seq(SubItem(Orders, N)))
<1> DEFINE A == SubItem(Orders, M)
           B == SubItem(Orders, N)
<1>1. A \subseteq B
  BY MoreNumbers
<1> HIDE DEF A, B
<1>2. Seq(A) \subseteq Seq(B)
  BY <1>1, SeqMonotone
<1>3. Seq(Seq(A)) \subseteq Seq(Seq(B))
  BY <1>2, SeqMonotone
<1>4. QED BY <1>3 DEF A, B

\* The exchange acts on the order of a worker.
LEMMA HearsKeeps ==
  ASSUME ExchTypes, FlowTypes(NumbersOf(book)), NEW w \in Workers, Hears(w)
  PROVE  /\ ExchTypes' /\ Extends(book, book') /\ Grows(tape, tape')
         /\ reply' \in [Workers -> Replies]
         /\ \A v \in Workers : reply'[v].ordid \in NumbersOf(book')
         /\ cur[w].act = "NEW" =>
              \E news \in Seq(Seq(SubItem(Orders, NumbersOf(book')))) :
                /\ EnteredAs(cur[w], reply'[w], book, book', news)
                /\ tape' = tape \o news
         /\ cur[w].act # "NEW" => DOMAIN book' = DOMAIN book
         /\ cur[w].act = "CXL" /\ cur[w].num \in DOMAIN book => book'[cur[w].num].leaves = 0
<1>1. PICK outcome \in Outcomes(cur[w]) :
        /\ reply' = [reply EXCEPT ![w] = outcome.reply]
        /\ book' = outcome.book
        /\ tape' = tape \o outcome.news
  BY DEF Hears
<1> DEFINE o == cur[w]
           M == NumbersOf(book)
           N == NumbersOf(book')
<1>2. o \in OrderPod /\ o.act \in Acts
  <2>1. o \in Pods(M)
    BY DEF Hears, FlowTypes, HandPlace
  <2>2. QED BY <2>1, PodType
<1>3. /\ outcome.reply \in Replies /\ outcome.reply.ordid \in N
      /\ book' \in Seq(Entries) /\ Extends(book, book')
      /\ outcome.news \in Seq(Seq(SubItem(Orders, N)))
      /\ o.act = "NEW" => EnteredAs(o, outcome.reply, book, book', outcome.news)
      /\ o.act # "NEW" => DOMAIN book' = DOMAIN book
      /\ o.act = "CXL" /\ o.num \in DOMAIN book => book'[o.num].leaves = 0
  <2> HIDE DEF o
  <2>1. CASE o.act = "NEW"
    <3>1. outcome \in EnterOutcomes(o)
      BY <1>1, <2>1 DEF Outcomes, o
    <3>2. QED BY <1>1, <1>2, <2>1, <3>1, EnterKeeps DEF ExchTypes
  <2>2. CASE o.act = "MOD"
    <3>1. outcome \in AlterOutcomes(o) \cup DeleteOutcomes(o)
      BY <1>1, <2>2 DEF Outcomes, o
    <3>2. QED BY <1>1, <1>2, <2>2, <3>1, ChangeKeeps DEF ExchTypes
  <2>3. CASE o.act = "CXL"
    <3>1. outcome \in DeleteOutcomes(o)
      BY <1>1, <2>3 DEF Outcomes, o
    <3>2. QED BY <1>1, <1>2, <2>3, <3>1, ChangeKeeps DEF ExchTypes
  <2>4. QED BY <1>2, <2>1, <2>2, <2>3 DEF Acts
<1>4. M \subseteq N
  BY <1>3, MoreNumbersInBook
<1>5. tape' \in Seq(Seq(SubItem(Orders, N))) /\ Grows(tape, tape')
  <2> DEFINE T == Seq(SubItem(Orders, N))
             news == outcome.news
  <2>1. tape \in Seq(T) /\ news \in Seq(T) /\ tape' = tape \o news
    <3>1. tape \in Seq(T)
      BY <1>4, TapeLifts DEF ExchTypes
    <3>2. QED BY <1>1, <1>3, <3>1
  <2> HIDE DEF T, news
  <2>2. tape \o news \in Seq(T) /\ Len(tape \o news) = Len(tape) + Len(news)
        /\ \A i \in 1 .. Len(tape) : (tape \o news)[i] = tape[i]
        /\ Len(tape) \in Nat /\ Len(news) \in Nat
    BY <2>1, ConcatProperties
  <2>3. QED BY <2>1, <2>2 DEF Grows, T
<1>6. /\ reply' \in [Workers -> Replies] /\ reply'[w] = outcome.reply
      /\ \A v \in Workers : reply'[v].ordid \in N
  BY <1>1, <1>3, <1>4 DEF FlowTypes
<1>7. ExchTypes'
  BY <1>3, <1>5 DEF ExchTypes
<1>8. cur[w].act = "NEW" =>
              \E news \in Seq(Seq(SubItem(Orders, N))) :
                /\ EnteredAs(cur[w], reply'[w], book, book', news)
                /\ tape' = tape \o news
  BY <1>1, <1>3, <1>6
<1>9. QED BY <1>3, <1>5, <1>6, <1>7, <1>8

\* Only a worker's transaction and the market change the book.
LEMMA ExchMoves ==
  ASSUME [Next]_vars
  PROVE  \/ UNCHANGED exchVars
         \/ Market /\ UNCHANGED <<workerVars, bdxVars, handlerVars, clientVars>>
         \/ \E w \in Workers : Transmit(w) /\ UNCHANGED <<bdxVars, handlerVars, clientVars>>
<1>1. CASE Handler
  <2>1. CASE CopySeries \/ StartWaited \/ StopBdx
    BY <2>1 DEF CopySeries, StartWaited, StopBdx, BdxRequestStop
  <2>2. CASE StartWorker \/ StartBdx \/ StopWorker \/ JoinWorker \/ JoinBdx
    BY <2>2 DEF StartWorker, Start, StartBdx, BdxStart, StopWorker, RequestStop, JoinWorker, Join,
               JoinBdx, BdxJoin
  <2>3. CASE SendCheck \/ SendTry \/ SendEnqueue
    BY <2>3 DEF SendCheck, SendTry, SendEnqueue, SendUnchanged
  <2>4. CASE PollBegin \/ PollWorker \/ PollBdx
    BY <2>4 DEF PollBegin, PollWorker, PollBdx, PollUnchanged
  <2>5. QED BY <1>1, <2>1, <2>2, <2>3, <2>4 DEF Handler
<1>2. CASE Client \/ StopBegin
  BY <1>2 DEF Client, SendBegin, SendUnchanged, StopBegin
<1>3. ASSUME NEW w \in Workers, Worker(w)
      PROVE  \/ UNCHANGED exchVars
             \/ Transmit(w) /\ UNCHANGED <<bdxVars, handlerVars, clientVars>>
  <2>1. CASE SetupLogin(w) \/ SetupFinish(w) \/ LeaveLoop(w) \/ TakeOrder(w) \/ NoticeLoss(w)
             \/ Keepalive(w)
    BY <2>1 DEF SetupLogin, SetupFinish, LeaveLoop, TakeOrder, NoticeLoss, Keepalive
  <2>2. CASE TransmitFails(w) \/ Complete(w) \/ LoseAnswer(w) \/ AnswerTimesOut(w)
             \/ ReconnectLogout(w) \/ BackoffStopped(w) \/ Relogin(w) \/ ReconnectFinish(w)
    BY <2>2 DEF TransmitFails, Complete, LoseAnswer, AnswerTimesOut, ReconnectLogout,
               BackoffStopped, Relogin, ReconnectFinish
  <2>3. QED BY <1>3, <2>1, <2>2 DEF Worker, WorkerStep
<1>4. CASE Bdx
  BY <1>4 DEF Bdx, BdxStep, BdxRead, BdxOverflow, BdxForcedLogout, BdxParse, BdxParseAgain,
             BdxSessionLost, BdxReconnectLogout, BdxRelogin, BdxLeave
<1>5. CASE Trading \/ (\E s \in Disturbed : Disturb(s)) \/ UNCHANGED vars
  BY <1>5 DEF Trading, Disturb, vars
<1>6. QED BY <1>1, <1>2, <1>3, <1>4, <1>5 DEF Next

\* Every step leaves the orders in the book and the broadcasts on the tape.
LEMMA BookStep ==
  ASSUME ExchTypes, FlowTypes(NumbersOf(book)), [Next]_vars
  PROVE  ExchTypes' /\ Extends(book, book') /\ Grows(tape, tape')
<1>1. CASE UNCHANGED exchVars
  <2>1. Extends(book, book) /\ Grows(tape, tape)
    BY DEF Extends, Grows, ExchTypes
  <2>2. book' = book /\ tape' = tape
    BY <1>1 DEF exchVars
  <2>3. QED BY <2>1, <2>2 DEF ExchTypes
<1>2. CASE Market
  <2>1. /\ book' \in Seq(Entries) /\ Extends(book, book') /\ DOMAIN book' = DOMAIN book
        /\ \E items \in Seq(SubItem(Orders, NumbersOf(book))) : tape' = Append(tape, items)
    BY <1>2, MarketKeeps DEF ExchTypes
  <2>2. PICK items \in Seq(SubItem(Orders, NumbersOf(book))) : tape' = Append(tape, items)
    BY <2>1
  <2> DEFINE T == Seq(SubItem(Orders, NumbersOf(book)))
  <2>3. tape \in Seq(T) /\ items \in T
    BY DEF ExchTypes
  <2> HIDE DEF T
  <2>4. /\ Append(tape, items) \in Seq(T) /\ Len(Append(tape, items)) = Len(tape) + 1
        /\ \A i \in 1 .. Len(tape) : Append(tape, items)[i] = tape[i] /\ Len(tape) \in Nat
    BY <2>3, AppendProperties
  <2>5. Grows(tape, tape')
    BY <2>2, <2>3, <2>4 DEF Grows
  <2>6. NumbersOf(book') = NumbersOf(book)
    BY <2>1 DEF NumbersOf
  <2>7. QED BY <2>1, <2>2, <2>4, <2>5, <2>6 DEF ExchTypes, T
<1>3. ASSUME NEW w \in Workers, Transmit(w), UNCHANGED <<bdxVars, handlerVars, clientVars>>
      PROVE  ExchTypes' /\ Extends(book, book') /\ Grows(tape, tape')
  <2>1. Hears(w)
    BY <1>3 DEF Transmit, Goto, Hears, queueVars, handlerVars, clientVars, SendVars
  <2>2. QED BY <2>1, HearsKeeps
<1>4. QED BY <1>1, <1>2, <1>3, ExchMoves

-----------------------------------------------------------------------------
(* The other variables. *)

HandlerPCs ==
  {"start", "copy", "startWait", "startBdx", "run", "check", "try", "enqueue",
   "poll", "stop", "join", "stopped"}

Flags ==
  /\ active \in [Workers -> BOOLEAN]
  /\ setup \in [Workers -> {"pending", "ok", "failed"}]
  /\ hasSeries \in [Workers -> BOOLEAN]
  /\ password \in [Sessions -> {"valid", "expired", "replaced"}]
  /\ gpc \in HandlerPCs
  /\ started \in BOOLEAN
  /\ nextWorker \in Workers

\* The BDX thread parses a buffer to its end before anything else.
BdxPlaces ==
  /\ bpc \in {"none", "run", "logout", "backoff", "ended", "joined"}
  /\ bactive \in BOOLEAN
  /\ next \in 1..(Len(tape) + 1)
  /\ unread \in 0..(Len(tape) + 1 - next)
  /\ bpc # "run" => unread = 0
  /\ skipped \subseteq 1..(next - 1)

\* What the buffer holds, and what was parsed again, is on the tape.
BufferPlaces ==
  evbuf \in Seq(DOMAIN tape) /\ again \in Seq(DOMAIN tape) /\ stale \in Seq(DOMAIN tape)

ToldTypes(N) ==
  /\ bdxQ \in Seq(Published(Orders, N)) /\ Len(bdxQ) <= BdxQueueBound
  /\ filled \in [Orders -> Nat]

\* What the gateway and the session's calls do leaves a password what it is.
LEMMA PasswordType ==
  ASSUME password \in [Sessions -> {"valid", "expired", "replaced"}], NEW s, NEW status,
         \/ LoginSucceeds(s) \/ LoginFails(s) \/ Logout(s) \/ MarkDead(s) \/ TxFailed(s, status)
         \/ LinkLost(s, "down") \/ LinkLost(s, "out") \/ PasswordExpires(s)
  PROVE  password' \in [Sessions -> {"valid", "expired", "replaced"}]
<1>1. CASE LoginSucceeds(s)
  BY <1>1 DEF LoginSucceeds
<1>2. CASE PasswordExpires(s)
  BY <1>2 DEF PasswordExpires
<1>3. CASE LoginFails(s) \/ Logout(s) \/ MarkDead(s) \/ TxFailed(s, status)
           \/ LinkLost(s, "down") \/ LinkLost(s, "out")
  BY <1>3 DEF LoginFails, Logout, MarkDead, TxFailed, LinkLost, sessVars
<1>4. QED BY <1>1, <1>2, <1>3

\* A worker's step leaves the handler's flags alone.
LEMMA WorkerFlags ==
  ASSUME Flags, NEW w \in Workers, Worker(w) PROVE Flags'
<1>1. UNCHANGED <<gpc, started, nextWorker>> /\ WorkerStep(w)
  BY DEF Worker, handlerVars
<1>2. /\ active' = active
      /\ setup' \in [Workers -> {"pending", "ok", "failed"}]
      /\ hasSeries' \in [Workers -> BOOLEAN]
  <2>1. CASE SetupLogin(w) \/ SetupFinish(w)
    BY <2>1 DEF SetupLogin, SetupFinish, Query, Flags
  <2>2. CASE LeaveLoop(w) \/ TakeOrder(w) \/ NoticeLoss(w)
    BY <2>2 DEF LeaveLoop, TakeOrder, NoticeLoss, Flags
  <2>3. CASE Keepalive(w)
    BY <2>3 DEF Keepalive, workerVars, threadVars, Flags
  <2>4. CASE Transmit(w) \/ TransmitFails(w) \/ Complete(w) \/ LoseAnswer(w) \/ AnswerTimesOut(w)
    BY <2>4 DEF Transmit, TransmitFails, Complete, LoseAnswer, AnswerTimesOut, Flags
  <2>5. CASE ReconnectLogout(w) \/ BackoffStopped(w) \/ Relogin(w)
    BY <2>5 DEF ReconnectLogout, BackoffStopped, Relogin, Flags
  <2>6. CASE ReconnectFinish(w)
    BY <2>6 DEF ReconnectFinish, Query, Flags
  <2>7. QED BY <1>1, <2>1, <2>2, <2>3, <2>4, <2>5, <2>6 DEF WorkerStep
<1>3. \/ UNCHANGED sessVars
      \/ LoginSucceeds(w) \/ LoginFails(w) \/ Logout(w) \/ MarkDead(w) \/ TxFailed(w, DeadStatus(w))
  <2>1. CASE SetupLogin(w)
    BY <2>1 DEF SetupLogin
  <2>2. CASE SetupFinish(w)
    BY <2>2 DEF SetupFinish, ReadyToTradeAccepted, ReadyToTradeFails
  <2>3. CASE LeaveLoop(w) \/ TakeOrder(w) \/ NoticeLoss(w) \/ Keepalive(w)
    BY <2>3 DEF LeaveLoop, TakeOrder, NoticeLoss, Keepalive
  <2>4. CASE Transmit(w) \/ TransmitFails(w) \/ Complete(w) \/ LoseAnswer(w) \/ AnswerTimesOut(w)
    BY <2>4 DEF Transmit, TransmitFails, Complete, LoseAnswer, AnswerTimesOut
  <2>5. CASE ReconnectLogout(w) \/ BackoffStopped(w) \/ Relogin(w)
    BY <2>5 DEF ReconnectLogout, BackoffStopped, Relogin
  <2>6. CASE ReconnectFinish(w)
    BY <2>6 DEF ReconnectFinish, ReadyToTradeAccepted, ReadyToTradeFails
  <2>7. QED BY <1>1, <2>1, <2>2, <2>3, <2>4, <2>5, <2>6 DEF WorkerStep
<1>4. password' \in [Sessions -> {"valid", "expired", "replaced"}]
  BY <1>3, PasswordType DEF sessVars, Flags
<1>5. QED BY <1>1, <1>2, <1>4 DEF Flags

\* The handler's thread leaves the flags what they are.
LEMMA HandlerFlags ==
  ASSUME Flags, bactive \in BOOLEAN, Handler PROVE Flags'
<1>1. CASE CopySeries
  BY <1>1 DEF CopySeries, StartUnchanged, sessVars, HandlerGoto, HandlerPCs, Flags
<1>2. CASE StartWorker
  BY <1>2 DEF StartWorker, Start, StartUnchanged, sessVars, HandlerGoto, HandlerPCs, Flags
<1>3. CASE StartWaited
  BY <1>3 DEF StartWaited, StartUnchanged, sessVars, workerVars, threadVars, HandlerGoto,
              HandlerPCs, Flags
<1>4. CASE StartBdx
  <2>1. password' \in [Sessions -> {"valid", "expired", "replaced"}]
    BY <1>4, PasswordType DEF StartBdx, BdxStart, Flags
  <2>2. started' \in BOOLEAN
    BY <1>4 DEF StartBdx, BdxStart
  <2>3. QED BY <1>4, <2>1, <2>2 DEF StartBdx, StartUnchanged, workerVars, threadVars, HandlerGoto,
                                    HandlerPCs, Flags
<1>5. CASE SendCheck
  <2>1. nextWorker' \in Workers
    BY <1>5, HandlerAssumption DEF SendCheck, Flags
  <2>2. gpc' \in HandlerPCs
    BY <1>5 DEF SendCheck, Refuse, HandlerGoto, HandlerPCs
  <2>3. QED BY <1>5, <2>1, <2>2 DEF SendCheck, SendUnchanged, sessVars, threadVars, Flags
<1>6. CASE SendTry \/ SendEnqueue
  BY <1>6 DEF SendTry, SendEnqueue, SendUnchanged, sessVars, threadVars, Refuse, HandlerGoto,
              HandlerPCs, Flags
<1>7. CASE PollBegin \/ PollWorker \/ PollBdx
  BY <1>7 DEF PollBegin, PollWorker, PollBdx, PollUnchanged, sessVars, threadVars, HandlerGoto,
              HandlerPCs, Flags
<1>8. CASE StopWorker
  BY <1>8 DEF StopWorker, RequestStop, StopUnchanged, sessVars, HandlerGoto, HandlerPCs, Flags
<1>9. CASE JoinWorker
  <2>1. password' \in [Sessions -> {"valid", "expired", "replaced"}]
    BY <1>9, PasswordType DEF JoinWorker, Join, Flags
  <2>2. QED BY <1>9, <2>1 DEF JoinWorker, Join, StopUnchanged, HandlerGoto, HandlerPCs, Flags
<1>10. CASE StopBdx
  BY <1>10 DEF StopBdx, BdxRequestStop, StopUnchanged, sessVars, workerVars, threadVars,
               HandlerGoto, HandlerPCs, Flags
<1>11. CASE JoinBdx
  <2>1. password' \in [Sessions -> {"valid", "expired", "replaced"}]
    BY <1>11, PasswordType DEF JoinBdx, BdxJoin, Flags
  <2>2. QED BY <1>11, <2>1 DEF JoinBdx, BdxJoin, StopUnchanged, workerVars, threadVars, HandlerGoto,
                               HandlerPCs, Flags
<1>12. QED
  BY <1>1, <1>2, <1>3, <1>4, <1>5, <1>6, <1>7, <1>8, <1>9, <1>10, <1>11 DEF Handler

\* Every step leaves the flags what they are.
LEMMA NextFlags ==
  ASSUME Flags, bactive \in BOOLEAN, [Next]_vars PROVE Flags'
<1>1. CASE Client
  BY <1>1 DEF Client, SendBegin, SendUnchanged, sessVars, threadVars, HandlerGoto, HandlerPCs, Flags
<1>2. CASE StopBegin
  BY <1>2 DEF StopBegin, StopUnchanged, sessVars, workerVars, threadVars, HandlerGoto, HandlerPCs,
              Flags
<1>3. CASE Bdx
  <2>1. \/ UNCHANGED sessVars
        \/ \E s \in Sessions : LoginSucceeds(s) \/ LoginFails(s) \/ Logout(s) \/ MarkDead(s)
                               \/ LinkLost(s, "out")
    BY <1>3, BdxAssumption
    DEF Bdx, BdxStep, BdxRead, BdxOverflow, BdxForcedLogout, BdxParse, BdxParseAgain,
        BdxSessionLost, BdxReconnectLogout, BdxRelogin, BdxLeave
  <2>2. password' \in [Sessions -> {"valid", "expired", "replaced"}]
    BY <2>1, PasswordType DEF sessVars, Flags
  <2>3. QED BY <1>3, <2>2 DEF Bdx, workerVars, threadVars, handlerVars, Flags
<1>4. CASE Trading \/ UNCHANGED vars
  BY <1>4 DEF Trading, vars, sessVars, workerVars, threadVars, handlerVars, Flags
<1>5. CASE \E s \in Disturbed : Disturb(s)
  <2>1. password' \in [Sessions -> {"valid", "expired", "replaced"}]
    BY <1>5, PasswordType DEF Disturb, Flags
  <2>2. QED BY <1>5, <2>1 DEF Disturb, workerVars, threadVars, handlerVars, Flags
<1>6. QED BY <1>1, <1>2, <1>3, <1>4, <1>5, WorkerFlags, HandlerFlags DEF Next

\* A subscription, from wherever the session was on the tape.
LEMMA SubscribeFits ==
  ASSUME BdxPlaces, Len(tape) \in Nat, Subscribe
  PROVE  next' = Len(tape) + 1 /\ skipped' \subseteq 1..Len(tape)
<1>1. next \in 1..(Len(tape) + 1) /\ skipped \subseteq 1..(next - 1)
  BY DEF BdxPlaces
<1>2. skipped \subseteq 1..Len(tape) /\ next..Len(tape) \subseteq 1..Len(tape)
  BY <1>1
<1>3. QED BY <1>2 DEF Subscribe

\* The BDX thread's place on the tape.
LEMMA BdxPlacesKept ==
  ASSUME BdxPlaces, tape \in Seq(Seq(SubItem(Orders, NumbersOf(book)))), Len(tape') \in Nat,
         Grows(tape, tape'), [Next]_vars
  PROVE  BdxPlaces'
<1>1. Len(tape) \in Nat
  OBVIOUS
<1>2. CASE UNCHANGED <<bpc, bactive, next, unread, skipped>>
  BY <1>1, <1>2 DEF BdxPlaces, Grows
<1>3. CASE StartBdx
  <2>1. tape' = tape /\ unread' = unread
    BY <1>3 DEF StartBdx, BdxStart, exchVars
  <2>2. unread = 0
    BY <1>3 DEF StartBdx, BdxStart, BdxPlaces
  <2>3. CASE Subscribe /\ bactive' = TRUE /\ bpc' = "run"
    <3>1. next' = Len(tape) + 1 /\ skipped' \subseteq 1..Len(tape)
      BY <1>1, <2>3, SubscribeFits
    <3>2. skipped' \subseteq 1..(next' - 1)
      BY <1>1, <3>1
    <3>3. QED BY <1>1, <2>1, <2>2, <2>3, <3>1, <3>2 DEF BdxPlaces
  <2>4. CASE UNCHANGED <<next, skipped, bactive, bpc>>
    BY <2>1, <2>4 DEF BdxPlaces
  <2>5. QED BY <1>3, <2>3, <2>4 DEF StartBdx, BdxStart
<1>4. CASE StopBdx
  BY <1>4 DEF StopBdx, BdxRequestStop, exchVars, BdxPlaces
<1>5. CASE JoinBdx
  BY <1>5 DEF JoinBdx, BdxJoin, exchVars, BdxPlaces
<1>6. CASE Handler
  <2>1. CASE CopySeries \/ StartWorker \/ StartWaited \/ StopWorker \/ JoinWorker
    BY <1>2, <2>1 DEF CopySeries, StartWorker, StartWaited, StopWorker, JoinWorker, bdxVars
  <2>2. CASE SendCheck \/ SendTry \/ SendEnqueue
    BY <1>2, <2>2 DEF SendCheck, SendTry, SendEnqueue, SendUnchanged, bdxVars
  <2>3. CASE PollBegin \/ PollWorker \/ PollBdx
    BY <1>2, <2>3 DEF PollBegin, PollWorker, PollBdx, bdxVars
  <2>4. QED BY <1>3, <1>4, <1>5, <1>6, <2>1, <2>2, <2>3 DEF Handler
<1>7. CASE Client \/ StopBegin
  BY <1>2, <1>7 DEF Client, SendBegin, SendUnchanged, StopBegin, bdxVars
<1>8. CASE Bdx
  <2>1. tape' = tape
    BY <1>8 DEF Bdx, BdxStep, BdxRead, BdxOverflow, BdxForcedLogout, BdxParse, BdxParseAgain,
                BdxSessionLost, BdxReconnectLogout, BdxRelogin, BdxLeave, exchVars
  <2>2. CASE BdxRead
    <3>1. unread' \in 0..Pending /\ bpc = "run" /\ UNCHANGED <<bpc, bactive, next, skipped>>
      BY <2>2 DEF BdxRead, Received, Polls
    <3>2. QED BY <1>1, <2>1, <3>1 DEF Pending, BdxPlaces
  <2>3. CASE BdxOverflow
    <3>1. PICK k \in 1..Pending : next' = next + k /\ skipped' = skipped \cup next..(next + k - 1)
      BY <2>3 DEF BdxOverflow
    <3>2. UNCHANGED <<bpc, bactive, unread>> /\ unread = 0
      BY <2>3 DEF BdxOverflow, Polls, BufferDone
    <3>3. k \in Nat /\ next + k <= Len(tape) + 1 /\ next \in Nat /\ next >= 1
      BY <1>1, <3>1 DEF Pending, BdxPlaces
    <3>4. next' \in 1..(Len(tape) + 1) /\ unread \in 0..(Len(tape) + 1 - next')
      BY <1>1, <3>1, <3>2, <3>3
    <3>5. skipped' \subseteq 1..(next' - 1)
      BY <3>1, <3>3 DEF BdxPlaces
    <3>6. QED BY <2>1, <3>2, <3>4, <3>5 DEF BdxPlaces
  <2>4. CASE BdxForcedLogout
    <3>1. unread' \in 0..Pending /\ bpc = "run" /\ bactive' = FALSE
          /\ UNCHANGED <<bpc, next, skipped>>
      BY <2>4 DEF BdxForcedLogout, Received, Polls
    <3>2. QED BY <1>1, <2>1, <3>1 DEF Pending, BdxPlaces
  <2>5. CASE BdxParse
    <3>1. next' = next + 1 /\ unread' = unread - 1 /\ UNCHANGED <<bpc, bactive, skipped>>
          /\ unread > 0 /\ bpc = "run"
      BY <2>5 DEF BdxParse
    <3>2. QED BY <1>1, <2>1, <3>1 DEF BdxPlaces
  <2>6. CASE BdxSessionLost
    BY <2>1, <2>6 DEF BdxSessionLost, Polls, BufferDone, BdxPlaces
  <2>7. CASE BdxReconnectLogout \/ BdxLeave
    BY <2>1, <2>7 DEF BdxReconnectLogout, BdxLeave, BufferDone, BdxPlaces
  <2>8. CASE BdxRelogin
    <3>1. unread = 0 /\ bpc' = "run" /\ UNCHANGED <<unread, bactive>>
      BY <2>8 DEF BdxRelogin, BdxPlaces
    <3>2. CASE Subscribe
      <4>1. next' = Len(tape) + 1 /\ skipped' \subseteq 1..Len(tape)
        BY <1>1, <3>2, SubscribeFits
      <4>2. skipped' \subseteq 1..(next' - 1)
        BY <1>1, <4>1
      <4>3. QED BY <1>1, <2>1, <3>1, <4>1, <4>2 DEF BdxPlaces
    <3>3. CASE UNCHANGED <<next, skipped>>
      BY <1>1, <2>1, <3>1, <3>3 DEF BdxPlaces
    <3>4. QED BY <2>8, <3>2, <3>3 DEF BdxRelogin
  <2>9. CASE BdxParseAgain
    BY <2>1, <2>9 DEF BdxParseAgain, BdxPlaces
  <2>10. QED BY <1>8, <2>2, <2>3, <2>4, <2>5, <2>6, <2>7, <2>8, <2>9 DEF Bdx, BdxStep
<1>9. CASE Trading \/ UNCHANGED vars \/ (\E s \in Disturbed : Disturb(s))
           \/ (\E w \in Workers : Worker(w))
  BY <1>2, <1>9 DEF Trading, vars, Disturb, Worker, bdxVars
<1>10. QED BY <1>6, <1>7, <1>8, <1>9 DEF Next

\* What is left of the buffer behind new broadcasts.
LEMMA BehindType ==
  ASSUME NEW S, evbuf \in Seq(S), NEW k \in Nat PROVE Behind(k) \in Seq(S)
<1>1. \A i \in 2 .. Len(evbuf) : evbuf[i] \in S
  BY LenProperties
<1>2. 2 \in Int /\ Len(evbuf) \in Int
  BY LenProperties
<1>3. SubSeq(evbuf, 2, Len(evbuf)) \in Seq(S)
  BY <1>1, <1>2, SubSeqProperties
<1>4. QED BY <1>3 DEF Behind

\* What a read leaves in the buffer, and has parsed again.
LEMMA ReceivedType ==
  ASSUME BufferPlaces, BdxPlaces, Len(tape) \in Nat, DOMAIN tape = 1..Len(tape),
         NEW k \in 0..Pending, Received(k)
  PROVE  evbuf' \in Seq(DOMAIN tape) /\ again' \in Seq(DOMAIN tape) /\ stale' = stale
<1> DEFINE S == DOMAIN tape
           new == [i \in 1..k |-> next + i - 1]
           old == Behind(k)
<1>1. /\ stale' = stale
      /\ \/ again' = <<>> /\ evbuf' = new \o old
         \/ /\ \E first \in DOMAIN old : again' = SubSeq(old, first, Len(old))
            /\ evbuf' = new \o again'
  BY DEF Received
<1>2. k \in Nat /\ next \in Nat /\ next >= 1 /\ next + k <= Len(tape) + 1
  BY DEF BdxPlaces, Pending
<1>3. new \in Seq(S)
  <2>1. \A i \in 1..k : next + i - 1 \in S
    BY <1>2
  <2>2. QED BY <1>2, <2>1
<1>4. old \in Seq(S)
  BY <1>2, BehindType DEF BufferPlaces
<1>5. \A first \in DOMAIN old : SubSeq(old, first, Len(old)) \in Seq(S)
  <2> HIDE DEF old, S
  <2>1. ASSUME NEW first \in DOMAIN old PROVE SubSeq(old, first, Len(old)) \in Seq(S)
    <3>1. first \in Int /\ Len(old) \in Int /\ \A i \in first .. Len(old) : old[i] \in S
      BY <1>4, <2>1, LenProperties
    <3>2. QED BY <3>1, SubSeqProperties
  <2>2. QED BY <2>1
<1> HIDE DEF new, old, S
<1>6. again' \in Seq(S)
  <2>1. <<>> \in Seq(S)
    BY EmptySeq
  <2>2. QED BY <1>1, <1>5, <2>1
<1>7. new \o old \in Seq(S) /\ new \o again' \in Seq(S)
  BY <1>3, <1>4, <1>6, ConcatProperties
<1>9. evbuf' \in Seq(S)
  BY <1>1, <1>7
<1>10. QED BY <1>1, <1>6, <1>9 DEF S

\* A step leaves the buffer full of what is on the tape.
LEMMA BufferKept ==
  ASSUME BdxPlaces, BufferPlaces, tape \in Seq(Seq(SubItem(Orders, NumbersOf(book)))),
         Len(tape') \in Nat, DOMAIN tape' = 1..Len(tape'), Grows(tape, tape'), [Next]_vars
  PROVE  BufferPlaces'
<1> DEFINE S == DOMAIN tape
<1>1. Len(tape) \in Nat /\ DOMAIN tape = 1..Len(tape)
  BY LenProperties
<1>2. evbuf' \in Seq(S) /\ again' \in Seq(S) /\ stale' \in Seq(S)
  <2>1. CASE UNCHANGED bufferVars
    BY <2>1 DEF bufferVars, BufferPlaces
  <2>2. CASE BdxRead \/ BdxForcedLogout
    <3>1. PICK k \in 0..Pending : Received(k)
      BY <2>2 DEF BdxRead, BdxForcedLogout
    <3>2. QED BY <1>1, <3>1, ReceivedType DEF BufferPlaces
  <2>3. CASE BdxParseAgain
    <3>1. /\ again # <<>> /\ again \in Seq(S) /\ stale \in Seq(S)
          /\ evbuf' = evbuf /\ evbuf \in Seq(S)
          /\ stale' = Append(stale, Head(again)) /\ again' = Tail(again)
      BY <2>3 DEF BdxParseAgain, BufferPlaces
    <3> HIDE DEF S
    <3>2. QED BY <3>1, HeadTailProperties, AppendProperties
  <2>4. CASE Handler
    <3>1. CASE CopySeries \/ StartWorker \/ StartWaited \/ StopWorker \/ JoinWorker
      BY <2>1, <3>1 DEF CopySeries, StartWorker, StartWaited, StopWorker, JoinWorker, bdxVars
    <3>2. CASE SendCheck \/ SendTry \/ SendEnqueue
      BY <2>1, <3>2 DEF SendCheck, SendTry, SendEnqueue, SendUnchanged, bdxVars
    <3>3. CASE PollBegin \/ PollWorker \/ PollBdx
      BY <2>1, <3>3 DEF PollBegin, PollWorker, PollBdx, bdxVars
    <3>4. CASE StartBdx \/ StopBdx \/ JoinBdx
      BY <2>1, <3>4 DEF StartBdx, BdxStart, StopBdx, BdxRequestStop, JoinBdx, BdxJoin
    <3>5. QED BY <2>4, <3>1, <3>2, <3>3, <3>4 DEF Handler
  <2>5. CASE Client \/ StopBegin
    BY <2>1, <2>5 DEF Client, SendBegin, SendUnchanged, StopBegin, bdxVars
  <2>6. CASE Bdx
    <3>1. CASE BdxOverflow \/ BdxParse \/ BdxSessionLost \/ BdxReconnectLogout \/ BdxRelogin
               \/ BdxLeave
      BY <2>1, <3>1 DEF BdxOverflow, BdxParse, BdxSessionLost, BdxReconnectLogout, BdxRelogin,
                        BdxLeave
    <3>2. QED BY <2>2, <2>3, <2>6, <3>1 DEF Bdx, BdxStep
  <2>7. CASE Trading \/ UNCHANGED vars \/ (\E s \in Disturbed : Disturb(s))
             \/ (\E w \in Workers : Worker(w))
    BY <2>1, <2>7 DEF Trading, vars, Disturb, Worker, bdxVars
  <2>8. QED BY <2>4, <2>5, <2>6, <2>7 DEF Next
<1>3. S \subseteq DOMAIN tape'
  BY <1>1 DEF Grows
<1> HIDE DEF S
<1>4. Seq(S) \subseteq Seq(DOMAIN tape')
  BY <1>3, SeqMonotone
<1>5. QED BY <1>2, <1>4 DEF BufferPlaces

-----------------------------------------------------------------------------
(* What the handler is at, and what it tells the client. *)

\* What a delivery leaves behind.
LEMMA DeliverType ==
  ASSUME NEW N \in SUBSET Int, 0 \in N, known \in [Orders -> N], filled \in [Orders -> Nat],
         NEW o \in Pods(N) \cup Published(Orders, N), Deliver(o)
  PROVE  known' \in [Orders -> N] /\ filled' \in [Orders -> Nat]
<1>1. o.num \in N /\ o.last \in Nat
  <2>1. CASE o \in Pods(N)
    BY <2>1 DEF Pods, OrderPod
  <2>2. CASE o \in Published(Orders, N)
    <3>1. o.num \in N \cup {0} /\ o.last \in UInt32s
      BY <2>2 DEF Published
    <3>2. QED BY <3>1, UInt32sAreNat
  <2>3. QED BY <2>1, <2>2
<1>2. known' \in [Orders -> N]
  BY <1>1 DEF Deliver
<1>3. filled' \in [Orders -> Nat]
  <2> DEFINE k == o.req
  <2>1. k \in Orders => filled[k] + o.last \in Nat
    BY <1>1
  <2>2. \/ filled' = filled
        \/ k \in Orders /\ filled' = [filled EXCEPT ![k] = filled[k] + o.last]
    BY DEF Deliver
  <2>3. QED BY <2>1, <2>2
<1>4. QED BY <1>2, <1>3

\* What is taken from a queue is of its type.
LEMMA TakeType ==
  ASSUME NEW S, NEW q \in Seq(S), q # <<>>
  PROVE  Head(q) \in S /\ Tail(q) \in Seq(S) /\ Len(Tail(q)) = Len(q) - 1 /\ Len(q) \in Nat
BY HeadTailProperties

\* Every step leaves the places of the handler's thread, and what the client was told, typed.
LEMMA HandlerPlaces ==
  ASSUME NEW N \in SUBSET Int, 0 \in N, FlowTypes(N), Flags, ToldTypes(N), [Next]_vars,
         tape \in Seq(Seq(SubItem(Orders, N))), BdxPlaces, BufferPlaces
  PROVE  HandlerTypes(N)' /\ ToldTypes(N)'
<1> USE DEF FlowTypes
<1>1. CASE UNCHANGED <<gpc, at, firstTry, known, filled, bdxQ>>
  BY <1>1 DEF HandlerTypes, ToldTypes
<1>2. CASE UNCHANGED <<firstTry, known, filled, bdxQ>> /\ at' \in 0..WorkerCount
           /\ (gpc' \in {"start", "copy", "startWait", "enqueue"} => at' \in Workers)
  BY <1>2 DEF HandlerTypes, ToldTypes
<1>3. Workers = 0..(WorkerCount - 1) /\ WorkerCount \in Nat \ {0} /\ 0 \in 0..WorkerCount
  BY HandlerAssumption
<1>4. CASE CopySeries
  BY <1>2, <1>3, <1>4 DEF CopySeries, HandlerGoto, StartUnchanged, clientVars, bdxVars
<1>5. CASE StartWorker
  BY <1>2, <1>3, <1>5 DEF StartWorker, HandlerGoto, StartUnchanged, clientVars, bdxVars
<1>6. CASE StartWaited
  <2>1. \/ at + 1 < WorkerCount /\ gpc' = "copy" /\ at' = at + 1
        \/ gpc' \in {"startBdx", "run"} /\ at' = 0
    BY <1>6 DEF StartWaited, HandlerGoto
  <2>2. at' \in 0..WorkerCount /\ (gpc' = "copy" => at' \in Workers)
    <3>1. at + 1 < WorkerCount => at + 1 \in Workers /\ at + 1 \in 0..WorkerCount
      BY <1>3
    <3>2. QED BY <1>3, <2>1, <3>1
  <2>3. ~(gpc' \in {"start", "startWait", "enqueue"})
    BY <2>1
  <2>4. QED BY <1>2, <1>6, <2>2, <2>3 DEF StartWaited, StartUnchanged, clientVars, bdxVars
<1>7. CASE StartBdx
  BY <1>2, <1>3, <1>7 DEF StartBdx, BdxStart, HandlerGoto, StartUnchanged, clientVars
<1>8. CASE SendCheck
  <2>1. UNCHANGED <<known, filled, bdxQ>> /\ firstTry' \in Workers
    BY <1>8 DEF SendCheck, SendUnchanged, bdxVars, Flags
  <2>4. \/ at < WorkerCount /\ at' = at + 1
        \/ at' = 0
    BY <1>8 DEF SendCheck, Refuse, HandlerGoto
  <2>5. gpc' \in {"check", "try", "run"}
    BY <1>8 DEF SendCheck, Refuse, HandlerGoto
  <2>2. at' \in 0..WorkerCount /\ ~(gpc' \in {"start", "copy", "startWait", "enqueue"})
    BY <1>3, <2>4, <2>5
  <2>3. QED BY <2>1, <2>2 DEF HandlerTypes, ToldTypes
<1>9. CASE SendTry
  <2>1. \/ at < WorkerCount /\ at' = at + 1 /\ gpc' = "try"
        \/ at < WorkerCount /\ at' = at /\ gpc' = "enqueue"
        \/ at' = 0 /\ gpc' = "run"
    BY <1>9 DEF SendTry, Refuse, HandlerGoto
  <2>2. at' \in 0..WorkerCount /\ (gpc' = "enqueue" => at' \in Workers)
    <3>1. at < WorkerCount => at \in Workers /\ at + 1 \in 0..WorkerCount /\ at \in 0..WorkerCount
      BY <1>3
    <3>2. QED BY <1>3, <2>1, <3>1
  <2>3. ~(gpc' \in {"start", "copy", "startWait"})
    BY <2>1
  <2>4. QED BY <1>2, <1>9, <2>2, <2>3 DEF SendTry, SendUnchanged, bdxVars
<1>10. CASE SendEnqueue
  <2>1. (at' = at + 1 /\ gpc' = "try") \/ (at' = 0 /\ gpc' = "run")
    BY <1>10 DEF SendEnqueue, HandlerGoto
  <2>2. at \in Workers
    BY <1>10 DEF SendEnqueue
  <2>3. at' \in 0..WorkerCount
    BY <1>3, <2>1, <2>2
  <2>4. QED BY <1>2, <1>10, <2>1, <2>3 DEF SendEnqueue, SendUnchanged, bdxVars
<1>11. CASE PollBegin
  BY <1>2, <1>3, <1>11 DEF PollBegin, HandlerGoto, PollUnchanged, bdxVars
<1>12. CASE PollWorker
  <2>1. firstTry' = firstTry /\ bdxQ' = bdxQ
    BY <1>12 DEF PollWorker, PollUnchanged, bdxVars
  <2>2. at' \in 0..WorkerCount /\ ~(gpc' \in {"start", "copy", "startWait", "enqueue"})
    <3>1. (at' = at + 1 \/ at' = at) /\ gpc' = "poll" /\ at < WorkerCount
      BY <1>12 DEF PollWorker, HandlerGoto
    <3>2. QED BY <1>3, <3>1, SMTT(30)
  <2>3. known' \in [Orders -> N] /\ filled' \in [Orders -> Nat]
    <3>1. CASE UNCHANGED <<known, filled>>
      BY <3>1 DEF ToldTypes
    <3>2. CASE respQ[at] # <<>> /\ Deliver(Head(respQ[at]))
      <4>1. at \in Workers /\ respQ[at] \in Seq(Pods(N))
        BY <1>3, <1>12 DEF PollWorker
      <4>2. Head(respQ[at]) \in Pods(N)
        BY <3>2, <4>1, TakeType
      <4>3. QED BY <3>2, <4>2, DeliverType DEF ToldTypes
    <3>3. QED BY <1>12, <3>1, <3>2 DEF PollWorker
  <2>4. QED BY <2>1, <2>2, <2>3 DEF HandlerTypes, ToldTypes
<1>13. CASE PollBdx
  <2>1. firstTry' = firstTry
    BY <1>13 DEF PollBdx, PollUnchanged
  <2>2. at' \in 0..WorkerCount /\ ~(gpc' \in {"start", "copy", "startWait", "enqueue"})
    BY <1>3, <1>13 DEF PollBdx, HandlerGoto
  <2>3. CASE UNCHANGED <<bdxQ, known, filled>>
    BY <2>1, <2>2, <2>3 DEF HandlerTypes, ToldTypes
  <2>4. CASE bdxQ # <<>> /\ Deliver(Head(bdxQ)) /\ bdxQ' = Tail(bdxQ)
    <3>1. Head(bdxQ) \in Published(Orders, N) /\ Tail(bdxQ) \in Seq(Published(Orders, N))
          /\ Len(Tail(bdxQ)) <= BdxQueueBound
      BY <2>4, TakeType, BdxAssumption DEF ToldTypes
    <3>2. known' \in [Orders -> N] /\ filled' \in [Orders -> Nat]
      BY <2>4, <3>1, DeliverType DEF ToldTypes
    <3>3. QED BY <2>1, <2>2, <2>4, <3>1, <3>2 DEF HandlerTypes, ToldTypes
  <2>5. QED BY <1>13, <2>3, <2>4 DEF PollBdx
<1>14. CASE StopWorker
  BY <1>2, <1>3, <1>14 DEF StopWorker, HandlerGoto, StopUnchanged, clientVars, bdxVars
<1>15. CASE JoinWorker
  BY <1>2, <1>3, <1>15 DEF JoinWorker, HandlerGoto, StopUnchanged, clientVars, bdxVars
<1>16. CASE StopBdx
  BY <1>2, <1>3, <1>16 DEF StopBdx, BdxRequestStop, HandlerGoto, StopUnchanged, clientVars
<1>17. CASE JoinBdx
  BY <1>2, <1>3, <1>17 DEF JoinBdx, BdxJoin, HandlerGoto, StopUnchanged, clientVars
<1>18. CASE Client
  BY <1>2, <1>3, <1>18 DEF Client, SendBegin, HandlerGoto, SendUnchanged, bdxVars
<1>19. CASE StopBegin
  BY <1>2, <1>3, <1>19 DEF StopBegin, HandlerGoto, StopUnchanged, clientVars, bdxVars
<1>20. CASE Bdx
  <2>1. UNCHANGED <<gpc, at, firstTry, known, filled>>
    BY <1>20 DEF Bdx, handlerVars, clientVars
  <2>2. CASE bdxQ' = bdxQ
    BY <1>1, <2>1, <2>2
  <2>3. ASSUME NEW i \in DOMAIN tape, bdxQ' = Enqueued(bdxQ, ParseBO5(tape[i]))
        PROVE  HandlerTypes(N)' /\ ToldTypes(N)'
    <3> DEFINE items == tape[i]
    <3>1. items \in Seq(SubItem(Orders, N))
      BY <2>3, ElementOfSeq
    <3> HIDE DEF items
    <3>2. ParseBO5(items) \in Seq(Published(Orders, N)) /\ Len(ParseBO5(items)) <= 1
      BY <3>1, ParsedType
    <3> DEFINE ords == ParseBO5(items)
    <3>3. bdxQ' = Enqueued(bdxQ, ords)
      BY <2>3 DEF items
    <3> HIDE DEF ords
    <3>4. bdxQ' \in Seq(Published(Orders, N)) /\ Len(bdxQ') <= BdxQueueBound
      <4>1. ords \in Seq(Published(Orders, N)) /\ bdxQ \in Seq(Published(Orders, N))
            /\ Len(bdxQ) <= BdxQueueBound
        BY <3>2 DEF ToldTypes, ords
      <4>2. bdxQ \o ords \in Seq(Published(Orders, N)) /\ Len(bdxQ \o ords) = Len(bdxQ) + Len(ords)
        BY <4>1, ConcatProperties
      <4>3. QED BY <3>3, <4>1, <4>2 DEF Enqueued
    <3>5. QED BY <2>1, <3>4 DEF HandlerTypes, ToldTypes
  <2>4. CASE BdxParse
    <3>1. next \in DOMAIN tape
      <4>1. Len(tape) \in Nat /\ DOMAIN tape = 1..Len(tape)
        BY LenProperties
      <4>2. QED BY <2>4, <4>1 DEF BdxParse, BdxPlaces
    <3>2. QED BY <2>3, <2>4, <3>1 DEF BdxParse
  <2>5. CASE BdxParseAgain
    <3>1. Head(again) \in DOMAIN tape
      BY <2>5, HeadTailProperties DEF BdxParseAgain, BufferPlaces
    <3>2. QED BY <2>3, <2>5, <3>1 DEF BdxParseAgain
  <2>6. QED BY <1>20, <2>2, <2>4, <2>5 DEF Bdx, BdxStep, BdxRead, BdxOverflow, BdxForcedLogout,
             BdxSessionLost, BdxReconnectLogout, BdxRelogin, BdxLeave
<1>21. CASE Trading \/ UNCHANGED vars \/ (\E s \in Disturbed : Disturb(s))
            \/ (\E w \in Workers : Worker(w))
  BY <1>1, <1>21 DEF Trading, vars, Disturb, Worker, bdxVars, handlerVars, clientVars
<1>22. QED BY <1>4, <1>5, <1>6, <1>7, <1>8, <1>9, <1>10, <1>11, <1>12, <1>13, <1>14, <1>15, <1>16,
              <1>17, <1>18, <1>19, <1>20, <1>21 DEF Next, Handler

-----------------------------------------------------------------------------
(* The types, for every number of workers, orders and requests. *)

TypesInv ==
  /\ ExchTypes
  /\ FlowTypes(NumbersOf(book))
  /\ ToldTypes(NumbersOf(book))
  /\ Flags
  /\ BdxPlaces
  /\ BufferPlaces

\* The numbers of a book are integers, and 0 is one.
LEMMA NumbersType ==
  ASSUME NEW b \in Seq(Entries) PROVE NumbersOf(b) \in SUBSET Int /\ 0 \in NumbersOf(b)
<1>1. DOMAIN b \subseteq Int
  BY LenProperties
<1>2. QED BY <1>1 DEF NumbersOf, TxId

\* More numbers leave every type what it is.
LEMMA TypesLift ==
  ASSUME NEW M, NEW N, M \subseteq N, FlowTypes(M), ToldTypes(M)
  PROVE  FlowTypes(N) /\ ToldTypes(N)
<1> DEFINE A == Pods(M)
           B == Pods(N)
           C == Published(Orders, M)
           D == Published(Orders, N)
<1>1. A \subseteq B
  BY DEF Pods
<1>2. C \subseteq D
  BY MoreNumbers
<1>3. Seq(A) \subseteq Seq(B) /\ Seq(C) \subseteq Seq(D)
  <2> HIDE DEF A, B, C, D
  <2>1. QED BY <1>1, <1>2, SeqMonotone
<1>4. /\ orderQ \in [Workers -> Seq(B)] /\ respQ \in [Workers -> Seq(B)]
      /\ answers \in [Requests -> Seq(B)]
      /\ cur \in [Workers -> B \cup {NoOrder}] /\ inSend \in B \cup {NoOrder}
      /\ gpc \in SendPCs => inSend \in B
      /\ known \in [Orders -> N]
  <2>1. /\ orderQ \in [Workers -> Seq(A)] /\ respQ \in [Workers -> Seq(A)]
        /\ answers \in [Requests -> Seq(A)]
        /\ cur \in [Workers -> A \cup {NoOrder}] /\ inSend \in A \cup {NoOrder}
        /\ gpc \in SendPCs => inSend \in A
        /\ known \in [Orders -> M]
    BY DEF FlowTypes
  <2> HIDE DEF A, B
  <2>2. QED BY <1>1, <1>3, <2>1
<1>5. bdxQ \in Seq(D)
  <2>1. bdxQ \in Seq(C)
    BY DEF ToldTypes
  <2> HIDE DEF C, D
  <2>2. QED BY <1>3, <2>1
<1>6. FlowTypes(N)
  BY <1>4 DEF FlowTypes
<1>7. QED BY <1>5, <1>6 DEF ToldTypes

\* The initial states are typed.
LEMMA TypesAtStart == Init => TypesInv
<1> SUFFICES ASSUME Init PROVE TypesInv
  OBVIOUS
<1> USE DEF Init
<1>1. ExchTypes
  BY DEF ExchInit, ExchTypes
<1>2. 0 \in NumbersOf(book)
  BY DEF NumbersOf
<1>3. Refused \in Replies /\ Refused.ordid = 0
  BY DEF Refused, Replies
<1>4. \A S : <<>> \in Seq(S) /\ Len(<<>>) = 0
  BY EmptySeq
<1>5. 0 \in Workers /\ 0 \in 0..WorkerCount
  BY HandlerAssumption
<1>6. FlowTypes(NumbersOf(book))
  <2>1. /\ wpc \in [Workers -> PCs] /\ retry \in [Workers -> BOOLEAN]
        /\ reply \in [Workers -> Replies] /\ cur = [w \in Workers |-> NoOrder]
        /\ \A w \in Workers : HandPlace(w) /\ reply[w].ordid \in NumbersOf(book)
    BY <1>2, <1>3 DEF WorkerInit, PCs, HandPlace
  <2>2. /\ \A S : orderQ \in [Workers -> Seq(S)] /\ respQ \in [Workers -> Seq(S)]
        /\ \A S : answers \in [Requests -> Seq(S)]
        /\ heard \in [Workers -> Seq(Requests)] /\ dispatched \in [Workers -> Seq(Requests)]
        /\ \A w \in Workers : Len(orderQ[w]) = 0 /\ Len(respQ[w]) = 0
    BY <1>4 DEF WorkerInit
  <2>3. /\ dropped \in SUBSET Requests
        /\ lost \in SUBSET Requests /\ deferred \in SUBSET Requests
        /\ fate \in [Requests -> {"none", "refused", "queued"}]
        /\ inSend = NoOrder /\ gpc = "start" /\ at = 0 /\ firstTry \in Workers
        /\ known \in [Orders -> NumbersOf(book)]
    BY <1>2, <1>5 DEF WorkerInit
  <2>4. 0 <= OrderQueueBound /\ 0 <= ResponseQueueBound
    BY BoundsAssumption
  <2>5. QED BY <1>5, <2>1, <2>2, <2>3, <2>4 DEF FlowTypes, SendPCs
<1>7. ToldTypes(NumbersOf(book))
  BY <1>4, BdxAssumption DEF BdxInit, ToldTypes
<1>8. Flags
  BY <1>5 DEF WorkerInit, SessInit, HandlerPCs, Flags
<1>9. BdxPlaces
  <2>1. Len(tape) = 0
    BY <1>4 DEF ExchInit
  <2>2. bpc = "none" /\ bactive = FALSE /\ next = 1 /\ unread = 0 /\ skipped = {}
    BY DEF BdxInit
  <2>3. next \in 1..(Len(tape) + 1) /\ unread \in 0..(Len(tape) + 1 - next)
    BY <2>1, <2>2
  <2>4. QED BY <2>2, <2>3 DEF BdxPlaces
<1>10. BufferPlaces
  BY <1>4 DEF BdxInit, BufferPlaces
<1>11. QED BY <1>1, <1>6, <1>7, <1>8, <1>9, <1>10 DEF TypesInv

\* Every step leaves the types what they are, with the numbers of the book then.
LEMMA TypesKept == TypesInv /\ [Next]_vars => TypesInv'
<1> SUFFICES ASSUME TypesInv, [Next]_vars PROVE TypesInv'
  OBVIOUS
<1>1. /\ ExchTypes /\ FlowTypes(NumbersOf(book)) /\ ToldTypes(NumbersOf(book))
      /\ Flags /\ BdxPlaces /\ BufferPlaces
  BY DEF TypesInv
<1>2. ExchTypes' /\ Extends(book, book') /\ Grows(tape, tape')
  BY <1>1, BookStep
<1>3. PICK N : N = NumbersOf(book')
  OBVIOUS
<1>4. N \in SUBSET Int /\ 0 \in N /\ NumbersOf(book) \subseteq N
  <2>1. book' \in Seq(Entries)
    BY <1>2 DEF ExchTypes
  <2>2. QED BY <1>2, <1>3, <2>1, NumbersType, MoreNumbersInBook
<1>5. FlowTypes(N) /\ ToldTypes(N)
  BY <1>1, <1>4, TypesLift
<1>6. tape \in Seq(Seq(SubItem(Orders, N)))
  BY <1>1, <1>4, TapeLifts DEF ExchTypes
<1>7. HandlerTypes(N)' /\ ToldTypes(N)'
  BY <1>1, <1>4, <1>5, <1>6, HandlerPlaces
<1>8. FlowTypes(N)'
  <2>1. Flow
    BY <1>4, <1>5, NextFlow
  <2>2. ASSUME NEW w \in Workers, WorkerFlow(w) PROVE FlowTypes(N)'
    <3>1. Hears(w) => reply' \in [Workers -> Replies] /\ \A v \in Workers : reply'[v].ordid \in N
      BY <1>1, <1>3, HearsKeeps
    <3>2. QED BY <1>4, <1>5, <1>7, <2>2, <3>1, WorkerFlowTypes
  <2>3. QED BY <1>4, <1>5, <1>7, <2>1, <2>2, SendFlowTypes DEF Flow
<1>9. FlowTypes(NumbersOf(book))' /\ ToldTypes(NumbersOf(book))'
  BY <1>3, <1>7, <1>8 DEF FlowTypes, ToldTypes
<1>10. Flags'
  BY <1>1, NextFlags DEF BdxPlaces
<1>11. BdxPlaces'
  <2>1. Len(tape') \in Nat
    BY <1>2, LenProperties DEF ExchTypes
  <2>2. QED BY <1>1, <1>2, <2>1, BdxPlacesKept DEF ExchTypes
<1>12. BufferPlaces'
  <2>1. Len(tape') \in Nat /\ DOMAIN tape' = 1..Len(tape')
    BY <1>2, LenProperties DEF ExchTypes
  <2>2. QED BY <1>1, <1>2, <2>1, BufferKept DEF ExchTypes
<1>13. QED BY <1>2, <1>9, <1>10, <1>11, <1>12 DEF TypesInv

\* The types hold in every state.
LEMMA AlwaysTyped == Spec => []TypesInv
BY TypesAtStart, TypesKept, PTL DEF Spec

\* The handler's variables keep their types: the queues never hold more than
\* their bounds, a thread at its transaction has an order in hand, and the BDX
\* thread never reads past the end of the tape.
THEOREM TypesHold == Spec => []TypeOK
<1>1. ASSUME TypesInv, IInv, LinkInv PROVE TypeOK
  <2>1. SessTypeOK
    BY <1>1 DEF TypesInv, Flags, IInv, SessInv, LinkInv, SessTypeOK
  <2>2. WorkerTypeOK
    <3>1. \A w \in Workers : orderQ[w] \in Seq(OrderPod) /\ respQ[w] \in Seq(OrderPod)
      <4> DEFINE A == Pods(NumbersOf(book))
      <4>1. A \subseteq OrderPod
        BY DEF Pods
      <4>2. orderQ \in [Workers -> Seq(A)] /\ respQ \in [Workers -> Seq(A)]
        BY <1>1 DEF TypesInv, FlowTypes
      <4> HIDE DEF A
      <4>3. QED BY <4>1, <4>2, SeqMonotone
    <3>2. \A w \in Workers : cur[w] \in OrderPod \cup {NoOrder}
      BY <1>1 DEF TypesInv, FlowTypes, Pods
    <3>3. QED BY <1>1, <3>1, <3>2 DEF TypesInv, FlowTypes, Flags, HandPlace, IInv, ThreadPlaces,
                                     WorkerTypeOK
  <2>3. BdxTypeOK
    BY <1>1 DEF TypesInv, ToldTypes, BdxPlaces, BufferPlaces, BdxTypeOK
  <2>4. known \in [Orders -> Int]
    <3>1. known \in [Orders -> NumbersOf(book)] /\ NumbersOf(book) \subseteq Int
      BY <1>1, NumbersType DEF TypesInv, FlowTypes, ExchTypes
    <3>2. QED BY <3>1
  <2>5. /\ gpc \in HandlerPCs /\ at \in 0..WorkerCount /\ started \in BOOLEAN
        /\ nextWorker \in Workers /\ firstTry \in Workers
        /\ fate \in [Requests -> {"none", "refused", "queued"}] /\ filled \in [Orders -> Nat]
    BY <1>1 DEF TypesInv, FlowTypes, ToldTypes, Flags
  <2>6. QED BY <2>1, <2>2, <2>3, <2>4, <2>5 DEF HandlerPCs, TypeOK
<1>2. QED BY <1>1, AlwaysTyped, Invariance, LinkInvariance, PTL

-----------------------------------------------------------------------------
(* Where a request is. *)

Queued(r) == \E w \in Workers : \E i \in DOMAIN orderQ[w] : Request(orderQ[w][i]) = r
HeldBy(w, r) == cur[w] # NoOrder /\ Request(cur[w]) = r
Held(r) == \E w \in Workers : HeldBy(w, r)

QueuesDistinct ==
  \A v, w \in Workers : \A i \in DOMAIN orderQ[v], j \in DOMAIN orderQ[w] :
    Request(orderQ[v][i]) = Request(orderQ[w][j]) => v = w /\ i = j

HandsDistinct == \A r \in Requests : \A v, w \in Workers : HeldBy(v, r) /\ HeldBy(w, r) => v = w

\* A request is queued, held, answered, deferred or dropped, and never two of
\* them; it is one of them exactly if Send() took it.
OnePlace(r) ==
  /\ Queued(r) => ~Held(r)
  /\ Queued(r) \/ Held(r) => answers[r] = <<>> /\ r \notin deferred \cup dropped
  /\ Len(answers[r]) <= 1
  /\ answers[r] # <<>> => r \notin deferred \cup dropped
  /\ r \in deferred => r \notin dropped
  /\ (fate[r] = "queued")
       <=> (Queued(r) \/ Held(r) \/ answers[r] # <<>> \/ r \in deferred \cup dropped)

PlaceInv ==
  /\ QueuesDistinct /\ HandsDistinct
  /\ \A r \in Requests : OnePlace(r)
  /\ inSend # NoOrder => fate[Request(inSend)] = "none"

\* Steps that leave every request where it is.
LEMMA PlaceFrame ==
  ASSUME PlaceInv, UNCHANGED <<orderQ, cur, answers, dropped, deferred, fate>>,
         inSend' # NoOrder => fate[Request(inSend')] = "none"
  PROVE  PlaceInv'
BY DEF PlaceInv, QueuesDistinct, HandsDistinct, OnePlace, Queued, Held, HeldBy

\* The oldest order of a queue, and the rest.
LEMMA QueueTail ==
  ASSUME NEW S, NEW q \in Seq(S), q # <<>>
  PROVE  /\ Head(q) = q[1] /\ 1 \in DOMAIN q /\ Head(q) \in S
         /\ Len(q) \in Nat /\ DOMAIN q = 1..Len(q) /\ DOMAIN Tail(q) = 1..(Len(q) - 1)
         /\ \A i \in DOMAIN Tail(q) : i + 1 \in DOMAIN q /\ Tail(q)[i] = q[i + 1] /\ i + 1 # 1
         /\ \A i \in DOMAIN q : i # 1 => i - 1 \in DOMAIN Tail(q) /\ Tail(q)[i - 1] = q[i]
<1>1. /\ Tail(q) \in Seq(S) /\ Len(Tail(q)) = Len(q) - 1 /\ Len(q) \in Nat /\ Len(q) > 0
      /\ \A i \in 1..Len(Tail(q)) : Tail(q)[i] = q[i + 1]
      /\ Head(q) \in S /\ Head(q) = q[1]
  BY HeadTailProperties, EmptySeq
<1>2. DOMAIN q = 1..Len(q) /\ DOMAIN Tail(q) = 1..(Len(q) - 1)
  BY <1>1, LenProperties
<1>3. QED BY <1>1, <1>2

\* The oldest order leaves its queue: what is queued is what was queued, but
\* for that order.
LEMMA HeadLeaves ==
  ASSUME NEW N, FlowTypes(N), PlaceInv, NEW w \in Workers, orderQ[w] # <<>>,
         orderQ' = [orderQ EXCEPT ![w] = Tail(orderQ[w])]
  PROVE  /\ Request(Head(orderQ[w])) \in Requests /\ Queued(Request(Head(orderQ[w])))
         /\ Head(orderQ[w]) \in Pods(N)
         /\ QueuesDistinct'
         /\ \A r \in Requests : Queued(r)' <=> Queued(r) /\ r # Request(Head(orderQ[w]))
<1> DEFINE q == orderQ[w]
           h == Head(orderQ[w])
<1>1. orderQ \in [Workers -> Seq(Pods(N))] /\ q \in Seq(Pods(N))
  BY DEF FlowTypes
<1>2. /\ h = q[1] /\ 1 \in DOMAIN q /\ h \in Pods(N)
      /\ Len(q) \in Nat /\ DOMAIN q = 1..Len(q) /\ DOMAIN Tail(q) = 1..(Len(q) - 1)
      /\ \A i \in DOMAIN Tail(q) : i + 1 \in DOMAIN q /\ Tail(q)[i] = q[i + 1] /\ i + 1 # 1
      /\ \A i \in DOMAIN q : i # 1 => i - 1 \in DOMAIN Tail(q) /\ Tail(q)[i - 1] = q[i]
  BY <1>1, QueueTail
<1>3. Request(h) \in Requests
  BY <1>2, PodType
<1>4. orderQ'[w] = Tail(q) /\ \A v \in Workers : v # w => orderQ'[v] = orderQ[v]
  BY <1>1
<1>5. Queued(Request(h))
  BY <1>2 DEF Queued
<1>6. QueuesDistinct
  BY DEF PlaceInv
<1>7. QueuesDistinct'
  <2>1. ASSUME NEW u \in Workers, NEW v \in Workers,
               NEW i \in DOMAIN orderQ'[u], NEW j \in DOMAIN orderQ'[v],
               Request(orderQ'[u][i]) = Request(orderQ'[v][j])
        PROVE  u = v /\ i = j
    <3> DEFINE a == IF u = w THEN i + 1 ELSE i
               b == IF v = w THEN j + 1 ELSE j
    <3>1. a \in DOMAIN orderQ[u] /\ orderQ[u][a] = orderQ'[u][i]
      BY <1>2, <1>4, ZenonT(40)
    <3>2. b \in DOMAIN orderQ[v] /\ orderQ[v][b] = orderQ'[v][j]
      BY <1>2, <1>4, ZenonT(40)
    <3>3. u = v /\ a = b
      <4> HIDE DEF a, b
      <4> QED BY <1>6, <2>1, <3>1, <3>2 DEF QueuesDistinct
    <3>4. i = j
      <4>1. CASE u = w
        BY <1>2, <1>4, <3>3, <4>1
      <4>2. CASE u # w
        BY <3>3, <4>2
      <4>3. QED BY <4>1, <4>2
    <3>5. QED BY <3>3, <3>4
  <2>2. QED BY <2>1 DEF QueuesDistinct
<1>8. ASSUME NEW r \in Requests PROVE Queued(r)' <=> Queued(r) /\ r # Request(h)
  <2>1. ASSUME Queued(r)' PROVE Queued(r) /\ r # Request(h)
    <3>1. PICK v \in Workers : \E j \in DOMAIN orderQ'[v] : Request(orderQ'[v][j]) = r
      BY <2>1 DEF Queued
    <3>0. PICK i \in DOMAIN orderQ'[v] : Request(orderQ'[v][i]) = r
      BY <3>1
    <3> DEFINE a == IF v = w THEN i + 1 ELSE i
    <3>2. a \in DOMAIN orderQ[v] /\ orderQ[v][a] = orderQ'[v][i] /\ (v = w => a # 1)
      BY <1>2, <1>4
    <3> HIDE DEF a
    <3>3. Queued(r)
      BY <3>0, <3>2 DEF Queued
    <3>4. ~(v = w /\ a = 1)
      BY <3>2
    <3>5. r # Request(h)
      BY <1>2, <1>6, <3>0, <3>2, <3>4 DEF QueuesDistinct
    <3>6. QED BY <3>3, <3>5
  <2>2. ASSUME Queued(r), r # Request(h) PROVE Queued(r)'
    <3>1. PICK v \in Workers : \E j \in DOMAIN orderQ[v] : Request(orderQ[v][j]) = r
      BY <2>2 DEF Queued
    <3>0. PICK i \in DOMAIN orderQ[v] : Request(orderQ[v][i]) = r
      BY <3>1
    <3>2. CASE v = w
      <4>1. i # 1
        BY <1>2, <2>2, <3>0, <3>2
      <4>2. i - 1 \in DOMAIN orderQ'[w] /\ orderQ'[w][i - 1] = orderQ[w][i]
        BY <1>2, <1>4, <3>2, <4>1
      <4>3. QED BY <3>0, <3>2, <4>2 DEF Queued
    <3>3. CASE v # w
      BY <1>4, <3>0, <3>3 DEF Queued
    <3>4. QED BY <3>2, <3>3
  <2>3. QED BY <2>1, <2>2
<1>9. QED BY <1>2, <1>3, <1>5, <1>7, <1>8

\* An order enters the end of a queue.
LEMMA EndEnters ==
  ASSUME NEW N, FlowTypes(N), PlaceInv, NEW w \in Workers, NEW o \in Pods(N),
         ~Queued(Request(o)), orderQ' = [orderQ EXCEPT ![w] = Append(@, o)]
  PROVE  /\ QueuesDistinct'
         /\ \A r \in Requests : Queued(r)' <=> Queued(r) \/ r = Request(o)
<1> DEFINE q == orderQ[w]
           n == Len(q) + 1
<1>1. orderQ \in [Workers -> Seq(Pods(N))] /\ q \in Seq(Pods(N))
  BY DEF FlowTypes
<1>2. /\ Append(q, o) \in Seq(Pods(N)) /\ Len(Append(q, o)) = n /\ Len(q) \in Nat
      /\ \A i \in 1..Len(q) : Append(q, o)[i] = q[i]
      /\ Append(q, o)[n] = o
  BY <1>1, AppendProperties
<1>3. DOMAIN q = 1..Len(q) /\ DOMAIN Append(q, o) = 1..n
  BY <1>1, <1>2, LenProperties
<1>4. orderQ'[w] = Append(q, o) /\ \A v \in Workers : v # w => orderQ'[v] = orderQ[v]
  BY <1>1
<1>5. QueuesDistinct
  BY DEF PlaceInv
<1>6. ASSUME NEW v \in Workers, NEW i \in DOMAIN orderQ'[v]
      PROVE  \/ i \in DOMAIN orderQ[v] /\ orderQ'[v][i] = orderQ[v][i]
             \/ v = w /\ i = n /\ orderQ'[v][i] = o
  BY <1>2, <1>3, <1>4
<1>7. ASSUME NEW v \in Workers, NEW i \in DOMAIN orderQ[v]
      PROVE  i \in DOMAIN orderQ'[v] /\ orderQ'[v][i] = orderQ[v][i]
  BY <1>2, <1>3, <1>4
<1>8. n \in DOMAIN orderQ'[w] /\ orderQ'[w][n] = o
  BY <1>2, <1>3, <1>4
<1> HIDE DEF n, q
<1>9. QueuesDistinct'
  BY <1>5, <1>6 DEF QueuesDistinct, Queued
<1>10. ASSUME NEW r \in Requests PROVE Queued(r)' <=> Queued(r) \/ r = Request(o)
  <2>1. Queued(r)' => Queued(r) \/ r = Request(o)
    BY <1>6 DEF Queued
  <2>2. Queued(r) => Queued(r)'
    BY <1>7 DEF Queued
  <2>3. Queued(Request(o))'
    BY <1>8 DEF Queued
  <2>4. QED BY <2>1, <2>2, <2>3
<1>11. QED BY <1>9, <1>10

\* The answers to other requests stay what they are.
LEMMA AnswerLengths ==
  ASSUME NEW N, FlowTypes(N), NEW w \in Workers, NEW a \in Pods(N), Responds(w, a),
         answers[Request(a)] = <<>>
  PROVE  /\ Len(answers'[Request(a)]) = 1 /\ answers'[Request(a)] = <<a>>
         /\ answers'[Request(a)] # <<>>
         /\ \A r \in Requests : r # Request(a) => answers'[r] = answers[r]
<1>1. answers \in [Requests -> Seq(Pods(N))] /\ Request(a) \in Requests
  BY PodType DEF FlowTypes
<1>2. answers' = [answers EXCEPT ![Request(a)] = Append(<<>>, a)]
  BY <1>1 DEF Responds
<1>3. Append(<<>>, a) = <<a>> /\ Len(<<a>>) = 1 /\ <<a>> # <<>>
  OBVIOUS
<1>4. QED BY <1>1, <1>2, <1>3

\* The hand of a worker is emptied.
LEMMA HandEmpties ==
  ASSUME NEW N, FlowTypes(N), PlaceInv, NEW w \in Workers, cur[w] # NoOrder,
         cur' = [cur EXCEPT ![w] = NoOrder], UNCHANGED orderQ
  PROVE  /\ Request(cur[w]) \in Requests /\ cur[w] \in Pods(N)
         /\ QueuesDistinct' /\ HandsDistinct'
         /\ \A r \in Requests : /\ Queued(r)' <=> Queued(r)
                                /\ Held(r)' <=> Held(r) /\ r # Request(cur[w])
         /\ Held(Request(cur[w]))
<1>1. cur \in [Workers -> Pods(N) \cup {NoOrder}]
  BY DEF FlowTypes
<1>2. cur[w] \in Pods(N) /\ Request(cur[w]) \in Requests
  BY <1>1, PodType
<1>3. /\ \A v \in Workers : v # w => cur'[v] = cur[v]
      /\ cur'[w] = NoOrder
  BY <1>1
<1>4. QueuesDistinct' /\ \A r \in Requests : Queued(r)' <=> Queued(r)
  BY DEF PlaceInv, QueuesDistinct, Queued
<1>5. HandsDistinct
  BY DEF PlaceInv
<1>6. HandsDistinct'
  BY <1>3, <1>5 DEF HandsDistinct, HeldBy
<1>7. ASSUME NEW r \in Requests PROVE Held(r)' <=> Held(r) /\ r # Request(cur[w])
  <2>1. ASSUME Held(r)' PROVE Held(r) /\ r # Request(cur[w])
    <3>1. PICK v \in Workers : HeldBy(v, r)'
      BY <2>1 DEF Held
    <3>2. v # w /\ HeldBy(v, r)
      BY <1>3, <3>1 DEF HeldBy
    <3>3. QED BY <1>5, <3>2 DEF HandsDistinct, HeldBy, Held
  <2>2. ASSUME Held(r), r # Request(cur[w]) PROVE Held(r)'
    BY <1>3, <2>2 DEF Held, HeldBy
  <2>3. QED BY <2>1, <2>2
<1>8. Held(Request(cur[w]))
  BY DEF Held, HeldBy
<1>9. QED BY <1>2, <1>4, <1>6, <1>7, <1>8

\* A request that leaves its queue or its hand for an answer.
LEMMA AnswerPlaces ==
  ASSUME NEW N, FlowTypes(N), PlaceInv, NEW w \in Workers, NEW a \in Pods(N), Answer(w, a),
         QueuesDistinct', HandsDistinct',
         Queued(Request(a)) \/ Held(Request(a)),
         \A r \in Requests : /\ Queued(r)' <=> Queued(r) /\ r # Request(a)
                             /\ Held(r)' <=> Held(r) /\ r # Request(a),
         UNCHANGED <<deferred, fate, inSend>>
  PROVE  PlaceInv'
<1>1. Request(a) \in Requests
  BY PodType
<1>2. answers[Request(a)] = <<>> /\ Request(a) \notin deferred \cup dropped
  BY <1>1 DEF PlaceInv, OnePlace
<1>3. \/ /\ Len(answers'[Request(a)]) = 1 /\ answers'[Request(a)] # <<>>
         /\ dropped' = dropped
         /\ \A r \in Requests : r # Request(a) => answers'[r] = answers[r]
      \/ answers' = answers /\ dropped' = dropped \cup {Request(a)}
  <2>1. CASE Responds(w, a)
    BY <1>2, <2>1, AnswerLengths DEF Responds
  <2>2. CASE Drops(a)
    BY <2>2 DEF Drops
  <2>3. QED BY <2>1, <2>2, AnswerCases
<1>4. ASSUME NEW r \in Requests PROVE OnePlace(r)'
  <2>1. OnePlace(r)
    BY DEF PlaceInv
  <2>2. CASE r = Request(a)
    <3>1. ~Queued(r)' /\ ~Held(r)' /\ r \notin deferred'
      BY <1>1, <1>2, <2>2
    <3>2. fate'[r] = "queued"
      BY <2>1, <2>2 DEF OnePlace
    <3>3. CASE Len(answers'[r]) = 1 /\ answers'[r] # <<>> /\ dropped' = dropped
      BY <1>2, <2>2, <3>1, <3>2, <3>3 DEF OnePlace
    <3>4. CASE answers' = answers /\ dropped' = dropped \cup {r}
      BY <1>2, <2>1, <2>2, <3>1, <3>2, <3>4 DEF OnePlace
    <3>5. QED BY <1>3, <2>2, <3>3, <3>4
  <2>3. CASE r # Request(a)
    <3>1. /\ (Queued(r)' <=> Queued(r)) /\ (Held(r)' <=> Held(r))
          /\ answers'[r] = answers[r] /\ (r \in dropped' <=> r \in dropped)
      BY <1>3, <2>3
    <3>2. QED BY <2>1, <3>1 DEF OnePlace
  <2>4. QED BY <2>2, <2>3
<1>5. QED BY <1>4 DEF PlaceInv

\* What a worker does leaves every request in one place.
LEMMA WorkerFlowPlaces ==
  ASSUME NEW N \in SUBSET Int, FlowTypes(N), PlaceInv, NEW w \in Workers, WorkerFlow(w)
  PROVE  PlaceInv'
<1>1. inSend # NoOrder => fate[Request(inSend)] = "none"
  BY DEF PlaceInv
<1>2. CASE (\E pc \in PCs : Moves(w, pc)) \/ Repeats(w) \/ Loses(w)
  BY <1>1, <1>2, PlaceFrame DEF Moves, Repeats, Loses, SendVars, queueVars
<1>3. CASE Hears(w)
  BY <1>1, <1>3, PlaceFrame DEF Hears, SendVars, queueVars
<1>4. CASE Takes(w)
  <2> DEFINE h == Head(orderQ[w])
  <2>1. /\ orderQ[w] # <<>> /\ orderQ' = [orderQ EXCEPT ![w] = Tail(orderQ[w])]
        /\ cur' = [cur EXCEPT ![w] = h] /\ wpc[w] = "loop"
        /\ UNCHANGED <<answers, dropped, deferred, fate, inSend>>
    BY <1>4 DEF Takes, SendVars
  <2>2. /\ Request(h) \in Requests /\ Queued(Request(h)) /\ h \in Pods(N)
        /\ QueuesDistinct'
        /\ \A r \in Requests : Queued(r)' <=> Queued(r) /\ r # Request(h)
    BY <2>1, HeadLeaves
  <2>3. h # NoOrder
    BY <2>2, PodType
  <2>4. cur[w] = NoOrder
    BY <2>1 DEF FlowTypes, HandPlace, HeldPCs
  <2>5. cur'[w] = h /\ \A v \in Workers : v # w => cur'[v] = cur[v]
    BY <2>1 DEF FlowTypes
  <2> HIDE DEF h
  <2>6. ~Held(Request(h))
    BY <2>2 DEF PlaceInv, OnePlace
  <2>7. ASSUME NEW r \in Requests PROVE Held(r)' <=> Held(r) \/ r = Request(h)
    BY <2>3, <2>4, <2>5 DEF Held, HeldBy
  <2>8. HandsDistinct'
    <3>1. HandsDistinct
      BY DEF PlaceInv
    <3>2. ASSUME NEW r \in Requests, NEW u \in Workers, NEW v \in Workers,
                 HeldBy(u, r)', HeldBy(v, r)'
          PROVE  u = v
      <4>1. CASE u # w /\ v # w
        BY <2>5, <3>1, <3>2, <4>1 DEF HandsDistinct, HeldBy
      <4>2. CASE (u = w /\ v # w) \/ (u # w /\ v = w)
        BY <2>3, <2>5, <2>6, <3>2, <4>2 DEF Held, HeldBy
      <4>3. QED BY <4>1, <4>2
    <3>3. QED BY <3>2 DEF HandsDistinct
  <2>9. ASSUME NEW r \in Requests PROVE OnePlace(r)'
    <3>1. OnePlace(r)
      BY DEF PlaceInv
    <3>2. CASE r = Request(h)
      <4>1. ~Queued(r)' /\ Held(r)' /\ Queued(r)
        BY <2>2, <2>7, <3>2
      <4>2. QED BY <2>1, <3>1, <4>1 DEF OnePlace
    <3>3. CASE r # Request(h)
      <4>1. (Queued(r)' <=> Queued(r)) /\ (Held(r)' <=> Held(r))
        BY <2>2, <2>7, <3>3
      <4>2. QED BY <2>1, <3>1, <4>1 DEF OnePlace
    <3>4. QED BY <3>2, <3>3
  <2>10. QED BY <1>1, <2>1, <2>2, <2>8, <2>9 DEF PlaceInv
<1>5. CASE TurnsDown(w)
  <2> DEFINE h == Head(orderQ[w])
             a == Rejected(h)
  <2>1. /\ orderQ[w] # <<>> /\ orderQ' = [orderQ EXCEPT ![w] = Tail(orderQ[w])]
        /\ cur' = [cur EXCEPT ![w] = NoOrder] /\ wpc[w] = "loop"
        /\ UNCHANGED <<deferred, fate, inSend>> /\ Answer(w, a)
    BY <1>5 DEF TurnsDown, SendVars
  <2>2. /\ Request(h) \in Requests /\ Queued(Request(h)) /\ h \in Pods(N)
        /\ QueuesDistinct'
        /\ \A r \in Requests : Queued(r)' <=> Queued(r) /\ r # Request(h)
    BY <2>1, HeadLeaves
  <2>3. h \in OrderPod /\ h.num \in N
    BY <2>2, PodType
  <2>4. Request(a) = Request(h) /\ a \in Pods(N)
    <3>1. a \in OrderPod /\ Request(a) = Request(h)
      BY <2>3, RejectedType
    <3>2. a.num = h.num
      BY <2>3 DEF Rejected, Status, OrderPod
    <3>3. QED BY <2>3, <3>1, <3>2 DEF Pods
  <2>5. cur[w] = NoOrder
    BY <2>1 DEF FlowTypes, HandPlace, HeldPCs
  <2>6. cur' = cur
    BY <2>1, <2>5 DEF FlowTypes
  <2> HIDE DEF h, a
  <2>7. HandsDistinct' /\ \A r \in Requests : Held(r)' <=> Held(r)
    BY <2>6 DEF PlaceInv, HandsDistinct, Held, HeldBy
  <2>8. ~Held(Request(h))
    BY <2>2 DEF PlaceInv, OnePlace
  <2>9. QED BY <2>1, <2>2, <2>4, <2>7, <2>8, AnswerPlaces
<1>6. CASE \E a \in OrderPod : Request(a) = Request(cur[w]) /\ Answers(w, a)
  <2>1. PICK a \in OrderPod : Request(a) = Request(cur[w]) /\ Answers(w, a)
    BY <1>6
  <2>2. a \in Pods(N)
    BY <2>1, AnswersType
  <2>3. /\ cur[w] # NoOrder /\ cur' = [cur EXCEPT ![w] = NoOrder] /\ UNCHANGED orderQ
        /\ Answer(w, a) /\ UNCHANGED <<deferred, fate, inSend>>
    BY <2>1 DEF Answers, SendVars
  <2>4. /\ Request(cur[w]) \in Requests
        /\ QueuesDistinct' /\ HandsDistinct'
        /\ \A r \in Requests : /\ Queued(r)' <=> Queued(r)
                               /\ Held(r)' <=> Held(r) /\ r # Request(cur[w])
        /\ Held(Request(cur[w]))
    BY <2>3, HandEmpties
  <2>5. ~Queued(Request(cur[w]))
    BY <2>4 DEF PlaceInv, OnePlace
  <2>6. QED BY <2>1, <2>2, <2>3, <2>4, <2>5, AnswerPlaces
<1>7. CASE Defers(w)
  <2>1. /\ cur' = [cur EXCEPT ![w] = NoOrder] /\ UNCHANGED orderQ
        /\ deferred' = deferred \cup {Request(cur[w])} /\ UNCHANGED <<answers, dropped, fate, inSend>>
    BY <1>7 DEF Defers, SendVars, queueVars
  <2>2. cur[w] # NoOrder
    BY <1>7 DEF Defers, FlowTypes, HandPlace
  <2>3. /\ Request(cur[w]) \in Requests
        /\ QueuesDistinct' /\ HandsDistinct'
        /\ \A r \in Requests : /\ Queued(r)' <=> Queued(r)
                               /\ Held(r)' <=> Held(r) /\ r # Request(cur[w])
        /\ Held(Request(cur[w]))
    BY <2>1, <2>2, HandEmpties
  <2>4. ASSUME NEW r \in Requests PROVE OnePlace(r)'
    <3>1. OnePlace(r)
      BY DEF PlaceInv
    <3>2. CASE r = Request(cur[w])
      <4>1. ~Queued(r) /\ ~Held(r)' /\ Held(r) /\ r \in deferred' /\ ~Queued(r)'
        BY <2>1, <2>3, <3>1, <3>2 DEF OnePlace
      <4>2. QED BY <2>1, <3>1, <4>1 DEF OnePlace
    <3>3. CASE r # Request(cur[w])
      <4>1. (Queued(r)' <=> Queued(r)) /\ (Held(r)' <=> Held(r))
            /\ (r \in deferred' <=> r \in deferred)
        BY <2>1, <2>3, <3>3
      <4>2. QED BY <2>1, <3>1, <4>1 DEF OnePlace
    <3>4. QED BY <3>2, <3>3
  <2>5. QED BY <1>1, <2>1, <2>3, <2>4 DEF PlaceInv
<1>8. QED BY <1>2, <1>3, <1>4, <1>5, <1>6, <1>7 DEF WorkerFlow

\* What Send does leaves every request in one place.
LEMMA SendFlowPlaces ==
  ASSUME NEW N \in SUBSET Int, FlowTypes(N), PlaceInv, Rests \/ SendFlow
  PROVE  PlaceInv'
<1>1. CASE Rests
  BY <1>1, PlaceFrame DEF Rests, HandVars, SendVars, PlaceInv
<1>2. ASSUME NEW o \in OrderPod, Begins(o) PROVE PlaceInv'
  BY <1>2, PlaceFrame DEF Begins, ClientMay, HandVars, queueVars
<1>3. CASE Refuses
  <2> DEFINE r0 == Request(inSend)
  <2>1. inSend \in Pods(N) /\ inSend # NoOrder
    BY <1>3, PodType DEF Refuses, FlowTypes
  <2>2. r0 \in Requests /\ fate[r0] = "none"
    BY <2>1, PodType DEF PlaceInv
  <2>3. /\ fate' = [fate EXCEPT ![r0] = "refused"] /\ inSend' = NoOrder
        /\ UNCHANGED <<orderQ, cur, answers, dropped, deferred>>
    BY <1>3 DEF Refuses, HandVars, queueVars
  <2>4. \A r \in Requests : (fate'[r] = "queued") <=> (fate[r] = "queued")
    BY <2>2, <2>3 DEF FlowTypes
  <2>5. QED BY <2>3, <2>4 DEF PlaceInv, QueuesDistinct, HandsDistinct, OnePlace, Queued, Held,
                              HeldBy
<1>4. ASSUME NEW w \in Workers, Queues(w) PROVE PlaceInv'
  <2> DEFINE r0 == Request(inSend)
  <2>1. inSend \in Pods(N) /\ inSend # NoOrder
    BY <1>4, PodType DEF Queues, FlowTypes
  <2>2. r0 \in Requests /\ fate[r0] = "none"
    BY <2>1, PodType DEF PlaceInv
  <2>3. /\ fate' = [fate EXCEPT ![r0] = "queued"] /\ inSend' = NoOrder
        /\ orderQ' = [orderQ EXCEPT ![w] = Append(@, inSend)]
        /\ UNCHANGED <<cur, answers, dropped, deferred>>
    BY <1>4 DEF Queues, HandVars
  <2>4. ~Queued(r0) /\ ~Held(r0) /\ answers[r0] = <<>> /\ r0 \notin deferred \cup dropped
    BY <2>2 DEF PlaceInv, OnePlace
  <2>5. QueuesDistinct' /\ \A r \in Requests : Queued(r)' <=> Queued(r) \/ r = r0
    BY <2>1, <2>3, <2>4, EndEnters
  <2>6. HandsDistinct' /\ \A r \in Requests : Held(r)' <=> Held(r)
    BY <2>3 DEF PlaceInv, HandsDistinct, Held, HeldBy
  <2> HIDE DEF r0
  <2>7. ASSUME NEW r \in Requests PROVE OnePlace(r)'
    <3>1. OnePlace(r)
      BY DEF PlaceInv
    <3>2. CASE r = r0
      <4>1. Queued(r)' /\ ~Held(r)' /\ answers'[r] = <<>> /\ r \notin deferred' \cup dropped'
            /\ fate'[r] = "queued"
            /\ Len(answers'[r]) <= 1
        BY <2>2, <2>3, <2>4, <2>5, <2>6, <3>1, <3>2 DEF FlowTypes, OnePlace
      <4>2. QED BY <4>1 DEF OnePlace
    <3>3. CASE r # r0
      <4>1. (Queued(r)' <=> Queued(r)) /\ (Held(r)' <=> Held(r)) /\ fate'[r] = fate[r]
        BY <2>2, <2>3, <2>5, <2>6, <3>3 DEF FlowTypes
      <4>2. QED BY <2>3, <3>1, <4>1 DEF OnePlace
    <3>4. QED BY <3>2, <3>3
  <2>8. QED BY <2>3, <2>5, <2>6, <2>7 DEF PlaceInv
<1>5. QED BY <1>1, <1>2, <1>3, <1>4 DEF SendFlow

\* At the start no request was made.
LEMMA PlacesAtStart == Init => PlaceInv
<1> SUFFICES ASSUME Init PROVE PlaceInv
  OBVIOUS
<1>1. /\ \A w \in Workers : orderQ[w] = <<>> /\ cur[w] = NoOrder
      /\ \A r \in Requests : answers[r] = <<>> /\ r \notin deferred \cup dropped /\ fate[r] = "none"
      /\ inSend = NoOrder
  BY DEF Init, WorkerInit
<1>2. \A w \in Workers : DOMAIN orderQ[w] = {}
  BY <1>1
<1>3. Len(<<>>) = 0
  OBVIOUS
<1>4. \A r \in Requests : ~Queued(r) /\ ~Held(r)
  BY <1>1, <1>2 DEF Queued, Held, HeldBy
<1>5. QueuesDistinct /\ HandsDistinct
  BY <1>1, <1>2 DEF QueuesDistinct, HandsDistinct, HeldBy
<1>6. \A r \in Requests : OnePlace(r)
  BY <1>1, <1>3, <1>4 DEF OnePlace
<1>7. QED BY <1>1, <1>5, <1>6 DEF PlaceInv

\* A step, as far as the orders go.
LEMMA FlowStep ==
  ASSUME TypesInv, [Next]_vars
  PROVE  /\ NumbersOf(book) \in SUBSET Int /\ FlowTypes(NumbersOf(book)) /\ Flow
<1>1. FlowTypes(NumbersOf(book)) /\ NumbersOf(book) \in SUBSET Int
  BY NumbersType DEF TypesInv, ExchTypes
<1>2. QED BY <1>1, NextFlow

\* Every step leaves every request in one place.
LEMMA PlacesKept == TypesInv /\ PlaceInv /\ [Next]_vars => PlaceInv'
<1> SUFFICES ASSUME TypesInv, PlaceInv, [Next]_vars PROVE PlaceInv'
  OBVIOUS
<1>1. NumbersOf(book) \in SUBSET Int /\ FlowTypes(NumbersOf(book)) /\ Flow
  BY FlowStep
<1>2. QED BY <1>1, WorkerFlowPlaces, SendFlowPlaces DEF Flow

\* Every request is in one place in every state.
LEMMA AlwaysPlaced == Spec => []PlaceInv
BY PlacesAtStart, PlacesKept, AlwaysTyped, PTL DEF Spec

\* A set of at most one element.
LEMMA OneAtMost ==
  ASSUME NEW S, \A x, y \in S : x = y
  PROVE  IF S = {} THEN Cardinality(S) = 0 ELSE Cardinality(S) = 1
<1>1. CASE S = {}
  BY <1>1, FS_EmptySet
<1>2. CASE S # {}
  <2>1. PICK x : x \in S
    BY <1>2
  <2>2. S = {x}
    BY <2>1
  <2>3. Cardinality({x}) = 1
    BY FS_Singleton
  <2>4. QED BY <1>2, <2>2, <2>3
<1>3. QED BY <1>1, <1>2

\* A request Send() took is always in exactly one place, whatever fails and
\* however many workers there are: in one order queue, in one worker's hand,
\* answered once, or left to the broadcasts.  One it refused is in none, and
\* neither is one whose answer was dropped by a full response queue.
THEOREM RequestsArePlaced == Spec => []RequestIsInOnePlace
<1>1. ASSUME TypesInv, PlaceInv PROVE RequestIsInOnePlace
  <2>1. ASSUME NEW r \in Requests
        PROVE  Places(r) = IF fate[r] = "queued" /\ r \notin dropped THEN 1 ELSE 0
    <3>1. OnePlace(r) /\ QueuesDistinct /\ HandsDistinct
      BY <1>1 DEF PlaceInv
    <3>2. \A w \in Workers : /\ DOMAIN orderQ[w] = 1..Len(orderQ[w]) /\ Len(orderQ[w]) \in Nat
                             /\ Len(orderQ[w]) <= OrderQueueBound
      <4>1. ASSUME NEW w \in Workers
            PROVE  orderQ[w] \in Seq(Pods(NumbersOf(book))) /\ Len(orderQ[w]) <= OrderQueueBound
        BY <1>1 DEF TypesInv, FlowTypes
      <4>2. QED BY <4>1, LenProperties
    <3>3. \A p \in InQueue(r) : /\ p = <<p[1], p[2]>> /\ p[1] \in Workers
                                /\ p[2] \in DOMAIN orderQ[p[1]] /\ Request(orderQ[p[1]][p[2]]) = r
      BY <3>2, BoundsAssumption DEF InQueue
    <3>4. ASSUME NEW w \in Workers, NEW i \in DOMAIN orderQ[w], Request(orderQ[w][i]) = r
          PROVE  <<w, i>> \in InQueue(r)
      <4>1. i \in 1..OrderQueueBound /\ i <= Len(orderQ[w])
        BY <3>2, BoundsAssumption
      <4>2. QED BY <3>4, <4>1 DEF InQueue
    <3>5. \A p, q \in InQueue(r) : p = q
      BY <3>1, <3>3 DEF QueuesDistinct
    <3>6. InQueue(r) # {} <=> Queued(r)
      BY <3>3, <3>4 DEF Queued
    <3>7. \A v, w \in InHand(r) : v = w
      BY <3>1 DEF HandsDistinct, HeldBy, InHand
    <3>8. InHand(r) # {} <=> Held(r)
      BY DEF Held, HeldBy, InHand
    <3>9. Cardinality(InQueue(r)) = IF Queued(r) THEN 1 ELSE 0
      BY <3>5, <3>6, OneAtMost
    <3>10. Cardinality(InHand(r)) = IF Held(r) THEN 1 ELSE 0
      BY <3>7, <3>8, OneAtMost
    <3>11. Len(answers[r]) = IF answers[r] # <<>> THEN 1 ELSE 0
      <4>1. answers[r] \in Seq(Pods(NumbersOf(book)))
        BY <1>1 DEF TypesInv, FlowTypes
      <4>2. Len(answers[r]) \in Nat /\ (answers[r] = <<>> <=> Len(answers[r]) = 0)
        BY <4>1, LenProperties, EmptySeq
      <4>3. QED BY <3>1, <4>2 DEF OnePlace
    <3> DEFINE a == Cardinality(InQueue(r))
               b == Cardinality(InHand(r))
               c == Len(answers[r])
               d == IF r \in deferred THEN 1 ELSE 0
    <3>12. Places(r) = a + b + c + d
      BY DEF Places
    <3>13. a + b + c + d = IF fate[r] = "queued" /\ r \notin dropped THEN 1 ELSE 0
      <4>1. CASE Queued(r)
        <5>1. a = 1 /\ b = 0 /\ c = 0 /\ d = 0 /\ fate[r] = "queued" /\ r \notin dropped
          BY <3>1, <3>9, <3>10, <3>11, <4>1 DEF OnePlace
        <5>2. QED BY <5>1
      <4>2. CASE Held(r)
        <5>1. a = 0 /\ b = 1 /\ c = 0 /\ d = 0 /\ fate[r] = "queued" /\ r \notin dropped
          BY <3>1, <3>9, <3>10, <3>11, <4>2 DEF OnePlace
        <5>2. QED BY <5>1
      <4>3. CASE ~Queued(r) /\ ~Held(r) /\ answers[r] # <<>>
        <5>1. a = 0 /\ b = 0 /\ c = 1 /\ d = 0 /\ fate[r] = "queued" /\ r \notin dropped
          BY <3>1, <3>9, <3>10, <3>11, <4>3 DEF OnePlace
        <5>2. QED BY <5>1
      <4>4. CASE ~Queued(r) /\ ~Held(r) /\ answers[r] = <<>>
        <5>1. /\ a = 0 /\ b = 0 /\ c = 0
              /\ r \in deferred => d = 1 /\ fate[r] = "queued" /\ r \notin dropped
              /\ r \notin deferred => d = 0 /\ (fate[r] # "queued" \/ r \in dropped)
          BY <3>1, <3>9, <3>10, <3>11, <4>4 DEF OnePlace
        <5> HIDE DEF a, b, c, d
        <5>2. CASE r \in deferred
          BY <5>1, <5>2
        <5>3. CASE r \notin deferred
          BY <5>1, <5>3
        <5>4. QED BY <5>2, <5>3
      <4>5. QED BY <4>1, <4>2, <4>3, <4>4
    <3> HIDE DEF a, b, c, d
    <3>14. QED BY <3>12, <3>13
  <2>2. QED BY <2>1 DEF RequestIsInOnePlace
<1>2. QED BY <1>1, AlwaysTyped, AlwaysPlaced, PTL

-----------------------------------------------------------------------------
(* The order of the requests of a worker. *)

\* How many of the orders queued for the worker it has taken: the last one it
\* took is the one in its hand, and the rest is its queue.
TakenBy(w) == Len(dispatched[w]) - Len(orderQ[w])

KeepsOrder(w) ==
  /\ TakenBy(w) \in Nat
  /\ \A i \in DOMAIN orderQ[w] : dispatched[w][TakenBy(w) + i] = Request(orderQ[w][i])
  /\ cur[w] # NoOrder => TakenBy(w) >= 1 /\ dispatched[w][TakenBy(w)] = Request(cur[w])
  /\ \A i, j \in DOMAIN heard[w] :
       i <= j => \E k, l \in 1..TakenBy(w) :
                   /\ k <= l
                   /\ dispatched[w][k] = heard[w][i]
                   /\ dispatched[w][l] = heard[w][j]

\* A worker that takes no order and is given none keeps the order.
LEMMA OrderFrame ==
  ASSUME NEW v \in Workers, KeepsOrder(v), orderQ'[v] = orderQ[v], dispatched'[v] = dispatched[v],
         heard'[v] = heard[v], cur'[v] = cur[v] \/ cur'[v] = NoOrder
  PROVE  KeepsOrder(v)'
BY DEF KeepsOrder, TakenBy

\* The worker has taken one order more.
LEMMA TakenOneMore ==
  ASSUME NEW N, FlowTypes(N), NEW w \in Workers, KeepsOrder(w), orderQ[w] # <<>>,
         orderQ' = [orderQ EXCEPT ![w] = Tail(orderQ[w])], UNCHANGED <<dispatched, heard>>,
         cur'[w] = Head(orderQ[w]) \/ cur'[w] = NoOrder
  PROVE  KeepsOrder(w)'
<1> DEFINE q == orderQ[w]
           d == dispatched[w]
           n == TakenBy(w)
<1>1. orderQ \in [Workers -> Seq(Pods(N))] /\ q \in Seq(Pods(N)) /\ d \in Seq(Requests)
  BY DEF FlowTypes
<1>2. /\ Head(q) = q[1] /\ 1 \in DOMAIN q /\ Len(q) \in Nat
      /\ DOMAIN Tail(q) = 1..(Len(q) - 1)
      /\ \A i \in DOMAIN Tail(q) : i + 1 \in DOMAIN q /\ Tail(q)[i] = q[i + 1]
  BY <1>1, QueueTail
<1>3. Len(Tail(q)) = Len(q) - 1 /\ Len(d) \in Nat
  BY <1>1, HeadTailProperties, LenProperties
<1>4. orderQ'[w] = Tail(q) /\ dispatched'[w] = d /\ heard'[w] = heard[w]
  BY <1>1
<1>5. TakenBy(w)' = n + 1
  <2>1. TakenBy(w)' = Len(dispatched'[w]) - Len(orderQ'[w]) /\ n = Len(d) - Len(q)
    BY DEF TakenBy
  <2>2. Len(orderQ'[w]) = Len(q) - 1 /\ Len(dispatched'[w]) = Len(d)
    BY <1>3, <1>4
  <2>3. QED
    <3>1. Len(q) \in Nat
      BY <1>2
    <3> HIDE DEF n, d, q
    <3> DEFINE a == Len(q)
               b == Len(d)
    <3>2. /\ a \in Nat /\ b \in Nat /\ n = b - a
          /\ TakenBy(w)' = b - (a - 1)
      BY <1>3, <2>1, <2>2, <3>1
    <3> HIDE DEF a, b
    <3>3. QED BY <3>2
<1>6. n \in Nat /\ \A i \in DOMAIN q : d[n + i] = Request(q[i])
  BY DEF KeepsOrder
<1>7. \A i \in DOMAIN Tail(q) : d[n + 1 + i] = Request(Tail(q)[i])
  <2>1. ASSUME NEW i \in DOMAIN Tail(q) PROVE d[n + 1 + i] = Request(Tail(q)[i])
    <3>1. i + 1 \in DOMAIN q /\ Tail(q)[i] = q[i + 1] /\ i \in Int
      BY <1>2
    <3>2. d[n + (i + 1)] = Request(q[i + 1])
      BY <1>6, <3>1
    <3>3. n + (i + 1) = n + 1 + i
      BY <1>6, <3>1
    <3>4. QED BY <3>1, <3>2, <3>3
  <2>2. QED BY <2>1
<1>8. d[n + 1] = Request(Head(q))
  BY <1>2, <1>6
<1>9. \A i, j \in DOMAIN heard[w] :
        i <= j => \E k, l \in 1..(n + 1) :
                    k <= l /\ d[k] = heard[w][i] /\ d[l] = heard[w][j]
  <2>1. 1..n \subseteq 1..(n + 1)
    BY <1>6
  <2>2. QED BY <2>1 DEF KeepsOrder
<1> HIDE DEF n, d, q
<1>10. (\A i \in DOMAIN orderQ[w] : dispatched[w][TakenBy(w) + i] = Request(orderQ[w][i]))'
  BY <1>4, <1>5, <1>7
<1>11. (cur[w] # NoOrder => TakenBy(w) >= 1 /\ dispatched[w][TakenBy(w)] = Request(cur[w]))'
  BY <1>4, <1>5, <1>6, <1>8 DEF q
<1>12. TakenBy(w)' \in Nat
  BY <1>5, <1>6
<1>13. (\A i, j \in DOMAIN heard[w] :
          i <= j => \E k, l \in 1..TakenBy(w) :
                      /\ k <= l
                      /\ dispatched[w][k] = heard[w][i]
                      /\ dispatched[w][l] = heard[w][j])'
  BY <1>4, <1>5, <1>9
<1>14. QED BY <1>10, <1>11, <1>12, <1>13 DEF KeepsOrder

\* Send() queues one order more for the worker.
LEMMA OneMoreQueued ==
  ASSUME NEW N, FlowTypes(N), NEW w \in Workers, NEW o \in Pods(N), KeepsOrder(w),
         orderQ' = [orderQ EXCEPT ![w] = Append(@, o)],
         dispatched' = [dispatched EXCEPT ![w] = Append(@, Request(o))],
         UNCHANGED <<heard, cur>>
  PROVE  KeepsOrder(w)'
<1> DEFINE q == orderQ[w]
           d == dispatched[w]
           n == TakenBy(w)
           c == Append(d, Request(o))
           p == Append(q, o)
<1>1. /\ orderQ \in [Workers -> Seq(Pods(N))] /\ q \in Seq(Pods(N)) /\ d \in Seq(Requests)
      /\ dispatched \in [Workers -> Seq(Requests)] /\ Request(o) \in Requests
  BY PodType DEF FlowTypes
<1>2. orderQ'[w] = p /\ dispatched'[w] = c /\ heard'[w] = heard[w]
  BY <1>1
<1>3. /\ Len(q) \in Nat /\ Len(p) = Len(q) + 1 /\ DOMAIN p = 1..(Len(q) + 1)
      /\ DOMAIN q = 1..Len(q) /\ \A i \in 1..Len(q) : p[i] = q[i]
      /\ p[Len(q) + 1] = o
  BY <1>1, AppendProperties, LenProperties
<1>4. /\ Len(d) \in Nat /\ Len(c) = Len(d) + 1 /\ \A i \in 1..Len(d) : c[i] = d[i]
      /\ c[Len(d) + 1] = Request(o)
  BY <1>1, AppendProperties
<1>5. n \in Nat /\ n + Len(q) = Len(d) /\ \A i \in DOMAIN q : d[n + i] = Request(q[i])
  <2>1. n \in Nat /\ n = Len(d) - Len(q) /\ \A i \in DOMAIN q : d[n + i] = Request(q[i])
    BY DEF KeepsOrder, TakenBy
  <2>2. QED
    <3> HIDE DEF n, d, q
    <3>1. QED BY <1>3, <1>4, <2>1
<1>6. TakenBy(w)' = n
  <2>1. TakenBy(w)' = Len(dispatched'[w]) - Len(orderQ'[w]) /\ n = Len(d) - Len(q)
    BY DEF TakenBy
  <2>2. Len(orderQ'[w]) = Len(q) + 1 /\ Len(dispatched'[w]) = Len(d) + 1
    BY <1>2, <1>3, <1>4
  <2>3. QED
    <3>1. Len(q) \in Nat /\ Len(d) \in Nat
      BY <1>3, <1>4
    <3> HIDE DEF n, d, q, c, p
    <3> DEFINE a == Len(q)
               b == Len(d)
               e == Len(orderQ'[w])
               f == Len(dispatched'[w])
    <3>2. a \in Nat /\ b \in Nat /\ n = b - a
      BY <2>1, <3>1
    <3>3. TakenBy(w)' = f - e
      BY <2>1
    <3>4. e = a + 1 /\ f = b + 1
      BY <2>2
    <3> HIDE DEF a, b, e, f
    <3>5. QED BY <3>2, <3>3, <3>4
<1>7. \A i \in DOMAIN p : c[n + i] = Request(p[i])
  <2>1. ASSUME NEW i \in 1..Len(q) PROVE c[n + i] = Request(p[i])
    <3>1. n + i \in 1..Len(d) /\ i \in DOMAIN q
      <4> HIDE DEF n, d, q
      <4>1. QED BY <1>3, <1>4, <1>5
    <3>2. c[n + i] = d[n + i] /\ p[i] = q[i]
      BY <1>3, <1>4, <3>1
    <3>3. QED BY <1>5, <3>1, <3>2
  <2>2. c[n + (Len(q) + 1)] = Request(p[Len(q) + 1])
    <3>1. n + (Len(q) + 1) = Len(d) + 1
      <4> HIDE DEF n, d, q
      <4>1. QED BY <1>3, <1>4, <1>5
    <3>2. QED BY <1>3, <1>4, <3>1
  <2>3. DOMAIN p = 1..Len(q) \cup {Len(q) + 1}
    BY <1>3
  <2> HIDE DEF p, c, n
  <2>4. QED BY <2>1, <2>2, <2>3
<1>8. \A k \in 1..n : c[k] = d[k]
  <2>1. 1..n \subseteq 1..Len(d)
    <3> HIDE DEF n, d, q
    <3>1. QED BY <1>3, <1>4, <1>5
  <2>2. QED BY <1>4, <2>1
<1>9. cur[w] # NoOrder => n >= 1 /\ d[n] = Request(cur[w])
  BY DEF KeepsOrder
<1>10. \A i, j \in DOMAIN heard[w] :
         i <= j => \E k, l \in 1..n : k <= l /\ d[k] = heard[w][i] /\ d[l] = heard[w][j]
  BY DEF KeepsOrder
<1>11. dispatched'[w] = c
  BY <1>2
<1> HIDE DEF n, d, q, c, p
<1>12. n >= 1 => c[n] = d[n]
  BY <1>5, <1>8
<1>13. (\A i \in DOMAIN orderQ[w] : dispatched[w][TakenBy(w) + i] = Request(orderQ[w][i]))'
  BY <1>2, <1>6, <1>7, <1>11
<1>14. (cur[w] # NoOrder => TakenBy(w) >= 1 /\ dispatched[w][TakenBy(w)] = Request(cur[w]))'
  BY <1>6, <1>9, <1>11, <1>12
<1>15. (\A i, j \in DOMAIN heard[w] :
          i <= j => \E k, l \in 1..TakenBy(w) :
                      /\ k <= l
                      /\ dispatched[w][k] = heard[w][i]
                      /\ dispatched[w][l] = heard[w][j])'
  <2>1. \A i, j \in DOMAIN heard[w] :
         i <= j => \E k, l \in 1..n : k <= l /\ c[k] = heard[w][i] /\ c[l] = heard[w][j]
    BY <1>8, <1>10
  <2>2. /\ heard'[w] = heard[w] /\ TakenBy(w)' = n /\ dispatched'[w] = c
    BY <1>2, <1>6, <1>11
  <2> DEFINE S(h, m, f) == \A i, j \in DOMAIN h :
               i <= j => \E k, l \in 1..m : k <= l /\ f[k] = h[i] /\ f[l] = h[j]
  <2>3. S(heard[w], n, c)
    BY <2>1
  <2> HIDE DEF S
  <2>4. S(heard'[w], TakenBy(w)', dispatched'[w])
    BY <2>2, <2>3
  <2> USE DEF S
  <2>5. S(heard'[w], TakenBy(w)', dispatched'[w])
          = (\A i, j \in DOMAIN heard[w] :
               i <= j => \E k, l \in 1..TakenBy(w) :
                           /\ k <= l
                           /\ dispatched[w][k] = heard[w][i]
                           /\ dispatched[w][l] = heard[w][j])'
    OBVIOUS
  <2> HIDE DEF S
  <2>6. QED BY <2>4, <2>5
<1>16. TakenBy(w)' \in Nat
  BY <1>5, <1>6
<1>17. QED BY <1>13, <1>14, <1>15, <1>16 DEF KeepsOrder

\* The exchange hears of the order the worker took last.
LEMMA HeardLast ==
  ASSUME NEW N, FlowTypes(N), NEW w \in Workers, KeepsOrder(w), cur[w] # NoOrder,
         heard' = [heard EXCEPT ![w] = Append(@, Request(cur[w]))],
         UNCHANGED <<orderQ, dispatched, cur>>
  PROVE  KeepsOrder(w)'
<1> DEFINE h == heard[w]
           d == dispatched[w]
           n == TakenBy(w)
           r == Request(cur[w])
           g == Append(h, r)
<1>1. heard \in [Workers -> Seq(Requests)] /\ h \in Seq(Requests) /\ r \in Requests
  BY PodType DEF FlowTypes
<1>2. heard'[w] = g
  BY <1>1
<1>3. /\ Len(h) \in Nat /\ DOMAIN g = 1..(Len(h) + 1) /\ DOMAIN h = 1..Len(h)
      /\ \A i \in 1..Len(h) : g[i] = h[i]
      /\ g[Len(h) + 1] = r
  BY <1>1, AppendProperties, LenProperties
<1>4. n \in Nat /\ n >= 1 /\ d[n] = r
  BY DEF KeepsOrder
<1>5. \A i, j \in DOMAIN h : i <= j => \E k, l \in 1..n : k <= l /\ d[k] = h[i] /\ d[l] = h[j]
  BY DEF KeepsOrder
<1> HIDE DEF n, d, r, h, g
<1>6. ASSUME NEW i \in DOMAIN g, NEW j \in DOMAIN g, i <= j
      PROVE  \E k, l \in 1..n : k <= l /\ d[k] = g[i] /\ d[l] = g[j]
  <2>1. CASE j \in DOMAIN h
    <3>1. i \in DOMAIN h
      BY <1>3, <1>6, <2>1
    <3>2. QED BY <1>3, <1>5, <1>6, <2>1, <3>1
  <2>2. CASE j = Len(h) + 1 /\ i \in DOMAIN h
    <3>1. i <= i
      BY <1>3, <2>2
    <3>2. PICK k \in 1..n : d[k] = h[i]
      BY <1>5, <2>2, <3>1
    <3>3. k <= n /\ n \in 1..n
      BY <1>4, <3>2
    <3>4. QED BY <1>3, <1>4, <2>2, <3>2, <3>3
  <2>3. CASE j = Len(h) + 1 /\ i = Len(h) + 1
    <3>1. n \in 1..n /\ n <= n
      BY <1>4
    <3>2. QED BY <1>3, <1>4, <2>3, <3>1
  <2>4. QED BY <1>3, <2>1, <2>2, <2>3
<1>7. TakenBy(w)' = n
  BY DEF TakenBy, n
<1>8. (\A i, j \in DOMAIN heard[w] :
         i <= j => \E k, l \in 1..TakenBy(w) :
                     /\ k <= l
                     /\ dispatched[w][k] = heard[w][i]
                     /\ dispatched[w][l] = heard[w][j])'
  BY <1>2, <1>6, <1>7 DEF d
<1>9. /\ TakenBy(w)' \in Nat
      /\ (\A i \in DOMAIN orderQ[w] : dispatched[w][TakenBy(w) + i] = Request(orderQ[w][i]))'
      /\ (cur[w] # NoOrder => TakenBy(w) >= 1 /\ dispatched[w][TakenBy(w)] = Request(cur[w]))'
  BY <1>7 DEF KeepsOrder, n
<1>10. QED BY <1>8, <1>9 DEF KeepsOrder

\* Every step keeps the order of what each worker was given.
LEMMA OrderKept ==
  ASSUME NEW N \in SUBSET Int, FlowTypes(N), \A w \in Workers : KeepsOrder(w), Flow
  PROVE  \A w \in Workers : KeepsOrder(w)'
<1>1. CASE Rests
  BY <1>1, OrderFrame DEF Rests, HandVars, SendVars
<1>2. ASSUME NEW o \in OrderPod, Begins(o) PROVE \A w \in Workers : KeepsOrder(w)'
  BY <1>2, OrderFrame DEF Begins, HandVars, queueVars
<1>3. CASE Refuses
  BY <1>3, OrderFrame DEF Refuses, HandVars, queueVars
<1>4. ASSUME NEW w \in Workers, Queues(w) PROVE \A v \in Workers : KeepsOrder(v)'
  <2>1. inSend \in Pods(N)
    BY <1>4 DEF Queues, FlowTypes
  <2>2. /\ orderQ' = [orderQ EXCEPT ![w] = Append(@, inSend)]
        /\ dispatched' = [dispatched EXCEPT ![w] = Append(@, Request(inSend))]
        /\ UNCHANGED <<heard, cur>>
    BY <1>4 DEF Queues, HandVars
  <2>3. KeepsOrder(w)'
    BY <2>1, <2>2, OneMoreQueued
  <2>4. ASSUME NEW v \in Workers, v # w PROVE KeepsOrder(v)'
    <3>1. orderQ'[v] = orderQ[v] /\ dispatched'[v] = dispatched[v]
      BY <2>2, <2>4 DEF FlowTypes
    <3>2. QED BY <2>2, <3>1, OrderFrame
  <2>5. QED BY <2>3, <2>4
<1>5. ASSUME NEW w \in Workers, WorkerFlow(w) PROVE \A v \in Workers : KeepsOrder(v)'
  <2>1. CASE (\E pc \in PCs : Moves(w, pc)) \/ Repeats(w) \/ Loses(w)
    BY <2>1, OrderFrame DEF Moves, Repeats, Loses, SendVars, queueVars
  <2>2. CASE Hears(w)
    <3>1. cur[w] # NoOrder
      BY <2>2 DEF Hears, FlowTypes, HandPlace
    <3>2. /\ heard' = [heard EXCEPT ![w] = Append(@, Request(cur[w]))]
          /\ UNCHANGED <<orderQ, dispatched, cur>>
      BY <2>2 DEF Hears, SendVars, queueVars
    <3>3. KeepsOrder(w)'
      BY <3>1, <3>2, HeardLast
    <3>4. ASSUME NEW v \in Workers, v # w PROVE KeepsOrder(v)'
      <4>1. heard'[v] = heard[v]
        BY <3>2, <3>4 DEF FlowTypes
      <4>2. QED BY <3>2, <4>1, OrderFrame
    <3>5. QED BY <3>3, <3>4
  <2>3. CASE Takes(w) \/ TurnsDown(w)
    <3>1. /\ orderQ[w] # <<>> /\ orderQ' = [orderQ EXCEPT ![w] = Tail(orderQ[w])]
          /\ UNCHANGED <<dispatched, heard>>
          /\ \/ cur' = [cur EXCEPT ![w] = Head(orderQ[w])]
             \/ cur' = [cur EXCEPT ![w] = NoOrder]
      BY <2>3 DEF Takes, TurnsDown, SendVars
    <3>2. KeepsOrder(w)'
      <4>1. cur'[w] = Head(orderQ[w]) \/ cur'[w] = NoOrder
        BY <3>1 DEF FlowTypes
      <4>2. QED BY <3>1, <4>1, TakenOneMore
    <3>3. ASSUME NEW v \in Workers, v # w PROVE KeepsOrder(v)'
      <4>1. orderQ'[v] = orderQ[v] /\ cur'[v] = cur[v]
        BY <3>1, <3>3 DEF FlowTypes
      <4>2. QED BY <3>1, <4>1, OrderFrame
    <3>4. QED BY <3>2, <3>3
  <2>4. CASE Defers(w) \/ \E a \in OrderPod : Request(a) = Request(cur[w]) /\ Answers(w, a)
    <3>1. cur' = [cur EXCEPT ![w] = NoOrder] /\ UNCHANGED <<orderQ, dispatched, heard>>
      BY <2>4 DEF Defers, Answers, SendVars, queueVars
    <3>2. \A v \in Workers : cur'[v] = cur[v] \/ cur'[v] = NoOrder
      BY <3>1 DEF FlowTypes
    <3>3. QED BY <3>1, <3>2, OrderFrame
  <2>5. QED BY <1>5, <2>1, <2>2, <2>3, <2>4 DEF WorkerFlow
<1>6. QED BY <1>1, <1>2, <1>3, <1>4, <1>5 DEF Flow, SendFlow

\* However many orders a worker is given, and however often its session is
\* lost: it carries them to the exchange in the order Send() queued them.
THEOREM WorkersInOrder == Spec => []WorkersKeepOrder
<1>1. Init => \A w \in Workers : KeepsOrder(w)
  <2> SUFFICES ASSUME Init, NEW w \in Workers PROVE KeepsOrder(w)
    OBVIOUS
  <2>1. orderQ[w] = <<>> /\ dispatched[w] = <<>> /\ heard[w] = <<>> /\ cur[w] = NoOrder
    BY DEF Init, WorkerInit
  <2>2. Len(<<>>) = 0 /\ DOMAIN <<>> = {}
    OBVIOUS
  <2>3. TakenBy(w) = 0
    BY <2>1, <2>2 DEF TakenBy
  <2>4. QED BY <2>1, <2>2, <2>3 DEF KeepsOrder
<1>2. TypesInv /\ (\A w \in Workers : KeepsOrder(w)) /\ [Next]_vars
        => (\A w \in Workers : KeepsOrder(w))'
  BY FlowStep, OrderKept
<1>3. TypesInv /\ (\A w \in Workers : KeepsOrder(w)) => WorkersKeepOrder
  <2> SUFFICES ASSUME TypesInv, \A w \in Workers : KeepsOrder(w),
                      NEW w \in Workers, NEW i \in DOMAIN heard[w], NEW j \in DOMAIN heard[w], i < j
               PROVE  \E k, l \in DOMAIN dispatched[w] :
                        k <= l /\ dispatched[w][k] = heard[w][i] /\ dispatched[w][l] = heard[w][j]
    BY DEF WorkersKeepOrder
  <2>1. orderQ[w] \in Seq(Pods(NumbersOf(book))) /\ dispatched[w] \in Seq(Requests)
        /\ heard[w] \in Seq(Requests)
    BY DEF TypesInv, FlowTypes
  <2>2. /\ Len(orderQ[w]) \in Nat /\ Len(dispatched[w]) \in Nat
        /\ DOMAIN dispatched[w] = 1..Len(dispatched[w]) /\ DOMAIN heard[w] = 1..Len(heard[w])
        /\ Len(heard[w]) \in Nat
    BY <2>1, LenProperties
  <2>3. i <= j
    BY <2>2
  <2>4. KeepsOrder(w)
    OBVIOUS
  <2>5. PICK k, l \in 1..TakenBy(w) :
          k <= l /\ dispatched[w][k] = heard[w][i] /\ dispatched[w][l] = heard[w][j]
    BY <2>3, <2>4 DEF KeepsOrder
  <2>6. 1..TakenBy(w) \subseteq DOMAIN dispatched[w]
    <3>1. TakenBy(w) \in Nat /\ TakenBy(w) = Len(dispatched[w]) - Len(orderQ[w])
      BY <2>4 DEF KeepsOrder, TakenBy
    <3> DEFINE n == TakenBy(w)
               a == Len(orderQ[w])
               b == Len(dispatched[w])
    <3>2. n \in Nat /\ a \in Nat /\ b \in Nat /\ n = b - a /\ DOMAIN dispatched[w] = 1..b
      BY <2>2, <3>1
    <3> HIDE DEF n, a, b
    <3>3. 1..n \subseteq 1..b
      BY <3>2
    <3>4. QED BY <3>2, <3>3 DEF n
  <2>7. QED BY <2>5, <2>6
<1>4. QED BY <1>1, <1>2, <1>3, AlwaysTyped, PTL DEF Spec

-----------------------------------------------------------------------------
(* How often the exchange hears of a request. *)

AtMostOne(S) == \A x, y \in S : x = y
AtMostTwo(S) == \A x, y, z \in S : x = y \/ x = z \/ y = z

Reached(r) == Held(r) \/ Answered(r) \/ r \in deferred \cup dropped

\* Twice at most, and twice only after a loss.  Where a worker with the request
\* in hand is says how often it may have been heard of by now.
HeardOf(r) ==
  /\ AtMostTwo(Hearings(r))
  /\ AtMostOne(Hearings(r)) \/ r \in lost
  /\ Hearings(r) # {} => Reached(r)
  /\ \A w \in Workers :
       HeldBy(w, r) =>
         /\ wpc[w] = "transmit" /\ ~retry[w] => Hearings(r) = {}
         /\ wpc[w] # "wait" \/ ~retry[w] => AtMostOne(Hearings(r))
         /\ wpc[w] # "wait" => Hearings(r) = {} \/ r \in lost

HeardInv == \A r \in Requests : HeardOf(r)

\* What a hearing of a request is.
LEMMA HearingsAre ==
  ASSUME NEW r
  PROVE  \A p : p \in Hearings(r)
                  <=> \E w \in Workers : \E i \in DOMAIN heard[w] : heard[w][i] = r /\ p = <<w, i>>
BY DEF Hearings

\* Steps that carry nothing to the exchange.
LEMMA HeardFrame ==
  ASSUME HeardInv, heard' = heard, lost \subseteq lost',
         \A r \in Requests : Reached(r) => Reached(r)',
         \A r \in Requests, w \in Workers :
           HeldBy(w, r)' =>
             \/ Hearings(r) = {}
             \/ /\ HeldBy(w, r)
                /\ wpc'[w] = wpc[w] /\ retry'[w] = retry[w]
             \/ /\ HeldBy(w, r)
                /\ wpc[w] # "wait" \/ (~retry[w] /\ r \in lost')
                /\ wpc'[w] # "transmit" \/ retry'[w]
  PROVE  HeardInv'
<1> SUFFICES ASSUME NEW r \in Requests PROVE HeardOf(r)'
  BY DEF HeardInv
<1>1. Hearings(r)' = Hearings(r)
  BY DEF Hearings
<1>2. HeardOf(r)
  BY DEF HeardInv
<1>3. /\ AtMostTwo(Hearings(r))' /\ (AtMostOne(Hearings(r)) \/ r \in lost)'
      /\ (Hearings(r) # {} => Reached(r))'
  <2>1. AtMostTwo(Hearings(r)') /\ (AtMostOne(Hearings(r)') \/ r \in lost')
    BY <1>1, <1>2 DEF HeardOf
  <2>2. Hearings(r)' # {} => Reached(r)'
    BY <1>1, <1>2 DEF HeardOf
  <2>3. QED BY <2>1, <2>2 DEF AtMostOne, AtMostTwo
<1>4. ASSUME NEW w \in Workers, HeldBy(w, r)'
      PROVE  /\ wpc'[w] = "transmit" /\ ~retry'[w] => Hearings(r)' = {}
             /\ wpc'[w] # "wait" \/ ~retry'[w] => AtMostOne(Hearings(r)')
             /\ wpc'[w] # "wait" => Hearings(r)' = {} \/ r \in lost'
  <2>1. CASE Hearings(r) = {}
    BY <1>1, <2>1 DEF AtMostOne
  <2>2. CASE HeldBy(w, r) /\ wpc'[w] = wpc[w] /\ retry'[w] = retry[w]
    BY <1>1, <1>2, <2>2 DEF HeardOf
  <2>3. CASE /\ HeldBy(w, r)
             /\ wpc[w] # "wait" \/ (~retry[w] /\ r \in lost')
             /\ wpc'[w] # "transmit" \/ retry'[w]
    BY <1>1, <1>2, <2>3 DEF HeardOf
  <2>4. QED BY <1>4, <2>1, <2>2, <2>3
<1>5. (\A w \in Workers :
         HeldBy(w, r) =>
           /\ wpc[w] = "transmit" /\ ~retry[w] => Hearings(r) = {}
           /\ wpc[w] # "wait" \/ ~retry[w] => AtMostOne(Hearings(r))
           /\ wpc[w] # "wait" => Hearings(r) = {} \/ r \in lost)'
  BY <1>4 DEF AtMostOne
<1>6. QED BY <1>3, <1>5 DEF HeardOf

\* The exchange hears of the order in hand.
LEMMA HeardOnce ==
  ASSUME NEW N, FlowTypes(N), PlaceInv, HeardInv, NEW w \in Workers, Hears(w)
  PROVE  HeardInv'
<1>1. cur[w] # NoOrder /\ cur[w] \in Pods(N)
  BY DEF FlowTypes, HandPlace, Hears
<1>0. PICK r0 \in Requests : r0 = Request(cur[w])
  BY <1>1, PodType
<1>14. PICK n : n = Len(heard[w]) + 1
  OBVIOUS
<1> DEFINE p == <<w, n>>
<1>2. r0 \in Requests /\ HeldBy(w, r0)
  BY <1>0, <1>1 DEF HeldBy
<1>3. /\ wpc[w] = "transmit" /\ wpc' = [wpc EXCEPT ![w] = "wait"]
      /\ heard' = [heard EXCEPT ![w] = Append(@, r0)]
      /\ UNCHANGED <<cur, retry, answers, dropped, lost, deferred>>
  BY <1>0 DEF Hears
<1>4. /\ wpc'[w] = "wait" /\ \A v \in Workers : v # w => wpc'[v] = wpc[v]
  BY <1>3 DEF FlowTypes
<1>5. /\ \A v \in Workers : v # w => heard'[v] = heard[v]
      /\ heard'[w] = Append(heard[w], r0) /\ heard[w] \in Seq(Requests)
  BY <1>3 DEF FlowTypes
<1>6. /\ DOMAIN heard'[w] = DOMAIN heard[w] \cup {n}
      /\ \A i \in DOMAIN heard[w] : heard'[w][i] = heard[w][i]
      /\ heard'[w][n] = r0
  <2>1. /\ Len(heard[w]) \in Nat /\ Len(heard'[w]) = n /\ heard'[w][n] = r0
        /\ \A i \in 1..Len(heard[w]) : heard'[w][i] = heard[w][i]
        /\ DOMAIN heard'[w] = 1..n /\ DOMAIN heard[w] = 1..Len(heard[w])
    BY <1>2, <1>5, <1>14, AppendProperties, LenProperties
  <2>2. QED BY <1>14, <2>1
<1>7. \A r : r # r0 => Hearings(r)' = Hearings(r)
  <2> SUFFICES ASSUME NEW r, r # r0 PROVE Hearings(r)' = Hearings(r)
    OBVIOUS
  <2>1. ASSUME NEW v \in Workers
        PROVE  {i \in DOMAIN heard'[v] : heard'[v][i] = r}
               = {i \in DOMAIN heard[v] : heard[v][i] = r}
    <3>1. CASE v = w
      BY <1>6, <3>1
    <3>2. CASE v # w
      BY <1>5, <3>2
    <3>3. QED BY <3>1, <3>2
  <2>2. QED BY <2>1 DEF Hearings
<1>8. Hearings(r0)' = Hearings(r0) \cup {p}
  <2>1. \A x : x \in Hearings(r0)'
               <=> \E v \in Workers : \E i \in DOMAIN heard'[v] : heard'[v][i] = r0 /\ x = <<v, i>>
    BY DEF Hearings
  <2>2. \A x : x \in Hearings(r0)
               <=> \E v \in Workers : \E i \in DOMAIN heard[v] : heard[v][i] = r0 /\ x = <<v, i>>
    BY HearingsAre
  <2>3. ASSUME NEW x \in Hearings(r0)' PROVE x \in Hearings(r0) \cup {p}
    <3>1. PICK v \in Workers : \E i \in DOMAIN heard'[v] : heard'[v][i] = r0 /\ x = <<v, i>>
      BY <2>1
    <3>2. PICK i \in DOMAIN heard'[v] : heard'[v][i] = r0 /\ x = <<v, i>>
      BY <3>1
    <3>3. QED BY <1>5, <1>6, <2>2, <3>2
  <2>4. ASSUME NEW x \in Hearings(r0) PROVE x \in Hearings(r0)'
    <3>1. PICK v \in Workers : \E i \in DOMAIN heard[v] : heard[v][i] = r0 /\ x = <<v, i>>
      BY <2>2
    <3>2. PICK i \in DOMAIN heard[v] : heard[v][i] = r0 /\ x = <<v, i>>
      BY <3>1
    <3>3. i \in DOMAIN heard'[v] /\ heard'[v][i] = r0
      BY <1>5, <1>6, <3>2
    <3>4. QED BY <2>1, <3>2, <3>3
  <2>5. p \in Hearings(r0)'
    BY <1>6, <2>1
  <2>6. QED BY <2>3, <2>4, <2>5
<1> HIDE DEF p
<1>9. \A r \in Requests, v \in Workers : HeldBy(v, r)' <=> HeldBy(v, r)
  BY <1>3 DEF HeldBy
<1>10. \A r \in Requests : Reached(r)' <=> Reached(r)
  BY <1>3 DEF HeldBy, Reached, Held, Answered
<1>11. HeardOf(r0)'
  <2>1. HeardOf(r0)
    BY <1>2 DEF HeardInv
  <2>2. AtMostOne(Hearings(r0)) /\ (~retry[w] => Hearings(r0) = {})
        /\ (Hearings(r0) = {} \/ r0 \in lost)
    BY <1>2, <1>3, <2>1 DEF HeardOf
  <2>3. AtMostTwo(Hearings(r0)') /\ (AtMostOne(Hearings(r0)') \/ r0 \in lost')
        /\ (~retry'[w] => AtMostOne(Hearings(r0)'))
    BY <1>3, <1>8, <2>2 DEF AtMostOne, AtMostTwo
  <2>4. Reached(r0)'
    BY <1>2, <1>10 DEF Reached, Held
  <2>5. \A v \in Workers : HeldBy(v, r0)' => v = w
    BY <1>2, <1>9 DEF PlaceInv, HandsDistinct
  <2>6. QED BY <1>4, <2>3, <2>4, <2>5 DEF HeardOf, AtMostOne, AtMostTwo
<1>12. ASSUME NEW r \in Requests, r # r0 PROVE HeardOf(r)'
  <2>1. HeardOf(r)
    BY DEF HeardInv
  <2>2. Hearings(r)' = Hearings(r) /\ (Reached(r)' <=> Reached(r)) /\ lost' = lost
    BY <1>3, <1>7, <1>10, <1>12
  <2>3. \A v \in Workers : HeldBy(v, r)' =>
          HeldBy(v, r) /\ wpc'[v] = wpc[v] /\ retry'[v] = retry[v]
    BY <1>0, <1>3, <1>4, <1>9, <1>12 DEF HeldBy
  <2>4. QED BY <2>1, <2>2, <2>3 DEF HeardOf, AtMostOne, AtMostTwo
<1>13. QED BY <1>11, <1>12 DEF HeardInv

\* A request that was answered stays so, and one whose answer was dropped.
LEMMA AnswersGrow ==
  ASSUME NEW N, FlowTypes(N), NEW w \in Workers, NEW a \in OrderPod, Answer(w, a)
  PROVE  /\ \A r \in Requests : answers[r] # <<>> => answers'[r] # <<>>
         /\ dropped \subseteq dropped'
         /\ answers'[Request(a)] # <<>> \/ Request(a) \in dropped'
<1>1. answers \in [Requests -> Seq(Pods(N))] /\ Request(a) \in Requests
  BY PodIsOrder DEF FlowTypes
<1>2. CASE Responds(w, a)
  <2>1. answers' = [answers EXCEPT ![Request(a)] = Append(@, a)] /\ dropped' = dropped
    BY <1>2 DEF Responds
  <2>2. Append(answers[Request(a)], a) # <<>>
    <3>1. answers[Request(a)] \in Seq(Pods(N) \cup {a})
      <4>1. Pods(N) \subseteq Pods(N) \cup {a}
        OBVIOUS
      <4>2. QED BY <1>1, <4>1, SeqMonotone
    <3>2. Len(Append(answers[Request(a)], a)) = Len(answers[Request(a)]) + 1
          /\ Len(answers[Request(a)]) \in Nat
      BY <3>1, AppendProperties, LenProperties
    <3>3. Len(<<>>) = 0
      OBVIOUS
    <3>4. QED BY <3>2, <3>3
  <2>3. QED BY <1>1, <2>1, <2>2
<1>3. CASE Drops(a)
  BY <1>3 DEF Drops
<1>4. QED BY <1>2, <1>3, AnswerCases

\* Every step keeps the account of what the exchange heard.
LEMMA HeardKept ==
  ASSUME NEW N \in SUBSET Int, FlowTypes(N), PlaceInv, HeardInv, Flow
  PROVE  HeardInv'
<1>1. CASE Rests \/ Refuses \/ (\E o \in OrderPod : Begins(o)) \/ \E w \in Workers : Queues(w)
  <2>1. UNCHANGED <<HandVars, heard>>
    BY <1>1 DEF Rests, Refuses, Begins, Queues
  <2>2. HandVars = <<wpc, cur, retry, reply, answers, dropped, lost, deferred>>
    BY DEF HandVars
  <2>3. \A r \in Requests : Reached(r)' <=> Reached(r)
    BY <2>1, <2>2 DEF HandVars, Reached, Held, HeldBy, Answered
  <2>4. \A r \in Requests, w \in Workers : HeldBy(w, r)' <=> HeldBy(w, r)
    BY <2>1 DEF HandVars, HeldBy
  <2>5. heard' = heard /\ lost' = lost /\ wpc' = wpc /\ retry' = retry
    BY <2>1 DEF HandVars
  <2>6. QED BY <2>3, <2>4, <2>5, HeardFrame
<1>2. ASSUME NEW w \in Workers, WorkerFlow(w) PROVE HeardInv'
  <2>1. ASSUME NEW pc \in PCs, Moves(w, pc) PROVE HeardInv'
    <3>1. /\ wpc' = [wpc EXCEPT ![w] = pc]
          /\ UNCHANGED <<cur, retry, answers, dropped, lost, deferred, heard>>
      BY <2>1 DEF Moves
    <3>2. \A r \in Requests : Reached(r)' <=> Reached(r)
      BY <3>1 DEF Reached, Held, HeldBy, Answered
    <3>3. /\ wpc'[w] = pc /\ \A v \in Workers : v # w => wpc'[v] = wpc[v]
      BY <3>1 DEF FlowTypes
    <3>4. ASSUME NEW r \in Requests, NEW v \in Workers, HeldBy(v, r)'
          PROVE  /\ HeldBy(v, r) /\ retry'[v] = retry[v]
                 /\ \/ wpc'[v] = wpc[v]
                    \/ wpc[v] # "wait" /\ wpc'[v] # "transmit"
      <4>1. HeldBy(v, r) /\ retry'[v] = retry[v] /\ cur[v] # NoOrder
        BY <3>1, <3>4 DEF HeldBy
      <4>2. CASE v = w
        BY <2>1, <3>3, <4>1, <4>2 DEF Moves
      <4>3. CASE v # w
        BY <3>3, <4>1, <4>3
      <4>4. QED BY <4>1, <4>2, <4>3
    <3>5. QED BY <3>1, <3>2, <3>4, HeardFrame
  <2>2. CASE Takes(w)
    <3>1. /\ orderQ[w] # <<>> /\ wpc[w] = "loop"
          /\ cur' = [cur EXCEPT ![w] = Head(orderQ[w])]
          /\ wpc' = [wpc EXCEPT ![w] = "transmit"]
          /\ UNCHANGED <<retry, answers, dropped, lost, deferred, heard>>
      BY <2>2 DEF Takes
    <3>2. PICK h : h = Head(orderQ[w])
      OBVIOUS
    <3>3. h \in Pods(N) /\ Request(h) \in Requests /\ Queued(Request(h))
      <4>1. orderQ[w] \in Seq(Pods(N))
        BY DEF FlowTypes
      <4>2. h = orderQ[w][1] /\ 1 \in DOMAIN orderQ[w] /\ h \in Pods(N)
        BY <3>1, <3>2, <4>1, QueueTail
      <4>3. QED BY <4>2, PodType DEF Queued
    <3>4. Hearings(Request(h)) = {}
      <4>1. HeardOf(Request(h)) /\ OnePlace(Request(h))
        BY <3>3 DEF HeardInv, PlaceInv
      <4>2. QED BY <3>3, <4>1 DEF HeardOf, OnePlace, Reached, Answered
    <3>5. /\ cur[w] = NoOrder /\ cur'[w] = h
          /\ \A v \in Workers : v # w => cur'[v] = cur[v] /\ wpc'[v] = wpc[v]
      BY <3>1, <3>2 DEF FlowTypes, HandPlace, HeldPCs
    <3>6. \A r \in Requests : Reached(r) => Reached(r)'
      BY <3>1, <3>5 DEF Reached, Held, HeldBy, Answered
    <3>7. ASSUME NEW r \in Requests, NEW v \in Workers, HeldBy(v, r)'
          PROVE  \/ Hearings(r) = {}
                 \/ HeldBy(v, r) /\ wpc'[v] = wpc[v] /\ retry'[v] = retry[v]
      BY <3>1, <3>4, <3>5, <3>7 DEF HeldBy
    <3>8. QED BY <3>1, <3>6, <3>7, HeardFrame
  <2>3. CASE TurnsDown(w)
    <3> DEFINE a == Rejected(Head(orderQ[w]))
    <3>1. /\ wpc[w] = "loop" /\ wpc' = [wpc EXCEPT ![w] = "loop"] /\ Answer(w, a)
          /\ cur' = [cur EXCEPT ![w] = NoOrder] /\ retry' = [retry EXCEPT ![w] = FALSE]
          /\ UNCHANGED <<lost, deferred, heard>>
      BY <2>3 DEF TurnsDown
    <3>2. cur[w] = NoOrder /\ ~retry[w] /\ retry[w] \in BOOLEAN
      BY <3>1 DEF FlowTypes, HandPlace, HeldPCs
    <3>3. cur' = cur /\ retry' = retry /\ wpc' = wpc
      <4>1. wpc \in [Workers -> PCs] /\ cur \in [Workers -> Pods(N) \cup {NoOrder}]
            /\ retry \in [Workers -> BOOLEAN]
        BY DEF FlowTypes
      <4>2. cur' = cur /\ wpc' = wpc
        BY <3>1, <3>2, <4>1
      <4>3. retry[w] = FALSE
        BY <3>2
      <4>4. retry' = retry
        BY <3>1, <4>1, <4>3
      <4>5. QED BY <4>2, <4>4
    <3> HIDE DEF a
    <3>4. /\ \A r \in Requests : answers[r] # <<>> => answers'[r] # <<>>
          /\ dropped \subseteq dropped'
      <4>1. orderQ[w] \in Seq(Pods(N)) /\ orderQ[w] # <<>>
        BY <2>3 DEF FlowTypes, TurnsDown
      <4>2. Head(orderQ[w]) \in OrderPod
        BY <4>1, QueueTail, PodType
      <4>3. a \in OrderPod
        BY <4>2, RejectedType DEF a
      <4>4. QED BY <3>1, <4>3, AnswersGrow
    <3>5. \A r \in Requests : Reached(r) => Reached(r)'
      BY <3>1, <3>3, <3>4 DEF Reached, Held, HeldBy, Answered
    <3>6. \A r \in Requests, v \in Workers : HeldBy(v, r)' => HeldBy(v, r)
      BY <3>3 DEF HeldBy
    <3>7. QED BY <3>1, <3>3, <3>5, <3>6, HeardFrame
  <2>4. CASE Hears(w)
    BY <2>4, HeardOnce
  <2>5. CASE Repeats(w)
    <3>1. /\ wpc[w] = "requery" /\ wpc' = [wpc EXCEPT ![w] = "transmit"]
          /\ retry' = [retry EXCEPT ![w] = TRUE]
          /\ UNCHANGED <<cur, answers, dropped, lost, deferred, heard>>
      BY <2>5 DEF Repeats
    <3>2. \A r \in Requests : Reached(r)' <=> Reached(r)
      BY <3>1 DEF Reached, Held, HeldBy, Answered
    <3>3. /\ retry'[w] = TRUE
          /\ \A v \in Workers : v # w => wpc'[v] = wpc[v] /\ retry'[v] = retry[v]
      BY <3>1 DEF FlowTypes
    <3>4. ASSUME NEW r \in Requests, NEW v \in Workers, HeldBy(v, r)'
          PROVE  /\ HeldBy(v, r)
                 /\ \/ wpc'[v] = wpc[v] /\ retry'[v] = retry[v]
                    \/ wpc[v] # "wait" /\ retry'[v]
      <4>1. HeldBy(v, r)
        BY <3>1, <3>4 DEF HeldBy
      <4>2. CASE v = w
        BY <3>1, <3>3, <4>1, <4>2
      <4>3. CASE v # w
        BY <3>3, <4>1, <4>3
      <4>4. QED BY <4>1, <4>2, <4>3
    <3>5. QED BY <3>1, <3>2, <3>4, HeardFrame
  <2>6. CASE \E a \in OrderPod : Request(a) = Request(cur[w]) /\ Answers(w, a)
    <3>1. PICK a \in OrderPod : Request(a) = Request(cur[w]) /\ Answers(w, a)
      BY <2>6
    <3>2. /\ cur[w] # NoOrder /\ cur' = [cur EXCEPT ![w] = NoOrder] /\ Answer(w, a)
          /\ wpc' = [wpc EXCEPT ![w] = "loop"] /\ retry' = [retry EXCEPT ![w] = FALSE]
          /\ lost \subseteq lost' /\ UNCHANGED <<deferred, heard>>
      BY <3>1 DEF Answers, ExchangeSays, GivenUp
    <3>3. /\ \A r \in Requests : answers[r] # <<>> => answers'[r] # <<>>
          /\ dropped \subseteq dropped'
      BY <3>2, AnswersGrow
    <3>4. answers'[Request(a)] # <<>> \/ Request(a) \in dropped'
      BY <3>1, <3>2, AnswersGrow, PodIsOrder
    <3>5. /\ cur'[w] = NoOrder
          /\ \A v \in Workers : v # w => /\ cur'[v] = cur[v] /\ wpc'[v] = wpc[v]
                                         /\ retry'[v] = retry[v]
      BY <3>2 DEF FlowTypes
    <3>6. \A r \in Requests : Reached(r) => Reached(r)'
      BY <3>1, <3>2, <3>3, <3>4, <3>5 DEF Reached, Held, HeldBy, Answered
    <3>7. \A r \in Requests, v \in Workers :
            HeldBy(v, r)' => HeldBy(v, r) /\ wpc'[v] = wpc[v] /\ retry'[v] = retry[v]
      BY <3>5 DEF HeldBy
    <3>8. QED BY <3>2, <3>6, <3>7, HeardFrame
  <2>7. CASE Defers(w)
    <3>1. /\ cur' = [cur EXCEPT ![w] = NoOrder] /\ deferred' = deferred \cup {Request(cur[w])}
          /\ wpc' = [wpc EXCEPT ![w] = "loop"] /\ UNCHANGED <<retry, answers, dropped, lost, heard>>
      BY <2>7 DEF Defers
    <3>2. /\ cur'[w] = NoOrder
          /\ \A v \in Workers : v # w => cur'[v] = cur[v] /\ wpc'[v] = wpc[v]
      BY <3>1 DEF FlowTypes
    <3>3. \A r \in Requests : Reached(r) => Reached(r)'
      BY <3>1, <3>2 DEF Reached, Held, HeldBy, Answered
    <3>4. \A r \in Requests, v \in Workers :
            HeldBy(v, r)' => HeldBy(v, r) /\ wpc'[v] = wpc[v] /\ retry'[v] = retry[v]
      BY <3>1, <3>2 DEF HeldBy
    <3>5. QED BY <3>1, <3>3, <3>4, HeardFrame
  <2>8. CASE Loses(w)
    <3>1. /\ wpc[w] = "wait" /\ ~retry[w] /\ lost' = lost \cup {Request(cur[w])}
          /\ wpc' = [wpc EXCEPT ![w] = "logout"]
          /\ UNCHANGED <<cur, retry, answers, dropped, deferred, heard>>
      BY <2>8 DEF Loses
    <3>2. \A r \in Requests : Reached(r)' <=> Reached(r)
      BY <3>1 DEF Reached, Held, HeldBy, Answered
    <3>3. /\ wpc'[w] = "logout" /\ \A v \in Workers : v # w => wpc'[v] = wpc[v]
      BY <3>1 DEF FlowTypes
    <3>4. ASSUME NEW r \in Requests, NEW v \in Workers, HeldBy(v, r)'
          PROVE  /\ HeldBy(v, r)
                 /\ \/ wpc'[v] = wpc[v] /\ retry'[v] = retry[v]
                    \/ ~retry[v] /\ r \in lost' /\ wpc'[v] # "transmit"
      <4>1. HeldBy(v, r)
        BY <3>1, <3>4 DEF HeldBy
      <4>2. CASE v = w
        BY <3>1, <3>3, <4>1, <4>2 DEF HeldBy
      <4>3. CASE v # w
        BY <3>1, <3>3, <4>1, <4>3
      <4>4. QED BY <4>1, <4>2, <4>3
    <3>5. lost \subseteq lost' /\ heard' = heard
      BY <3>1
    <3>6. QED BY <3>2, <3>4, <3>5, HeardFrame
  <2>9. QED BY <1>2, <2>1, <2>2, <2>3, <2>4, <2>5, <2>6, <2>7, <2>8 DEF WorkerFlow
<1>3. QED BY <1>1, <1>2 DEF Flow, SendFlow

\* The account of what the exchange heard holds in every state.
LEMMA AlwaysHeard == Spec => []HeardInv
<1>1. Init => HeardInv
  <2> SUFFICES ASSUME Init, NEW r \in Requests PROVE HeardOf(r)
    BY DEF HeardInv
  <2>1. \A w \in Workers : heard[w] = <<>> /\ cur[w] = NoOrder
    BY DEF Init, WorkerInit
  <2>2. \A w \in Workers : DOMAIN heard[w] = {}
    BY <2>1
  <2>3. Hearings(r) = {}
    BY <2>2 DEF Hearings
  <2>4. QED BY <2>1, <2>3 DEF HeardOf, AtMostOne, AtMostTwo, HeldBy
<1>2. TypesInv /\ PlaceInv /\ HeardInv /\ [Next]_vars => HeardInv'
  BY FlowStep, HeardKept
<1>3. QED BY <1>1, <1>2, AlwaysTyped, AlwaysPlaced, PTL DEF Spec

\* A set of at most two elements.
LEMMA TwoAtMost ==
  ASSUME NEW S, AtMostTwo(S)
  PROVE  Cardinality(S) <= 2 /\ Cardinality(S) \in Nat /\ (AtMostOne(S) => Cardinality(S) <= 1)
<1>1. CASE AtMostOne(S)
  BY <1>1, OneAtMost DEF AtMostOne
<1>2. CASE ~AtMostOne(S)
  <2>1. PICK x \in S : \E y \in S : x # y
    BY <1>2 DEF AtMostOne
  <2>2. PICK y \in S : x # y
    BY <2>1
  <2>3. S = {x} \cup {y}
    BY <2>1, <2>2 DEF AtMostTwo
  <2>4. IsFiniteSet({x}) /\ Cardinality({x}) = 1
    BY FS_Singleton
  <2>5. Cardinality({x} \cup {y}) = Cardinality({x}) + 1
    BY <2>2, <2>4, FS_AddElement
  <2>6. QED BY <1>2, <2>3, <2>4, <2>5
<1>3. QED BY <1>1, <1>2

\* However many sessions are lost and however often: a request reaches the
\* exchange a second time only because an answer to it was lost, and it never
\* does a third time.
THEOREM RetriesAreBounded == Spec => []ResentOnlyAfterLoss
<1>1. HeardInv => ResentOnlyAfterLoss
  <2> SUFFICES ASSUME HeardInv, NEW r \in Requests
               PROVE  TimesHeard(r) <= 2 /\ (TimesHeard(r) = 2 => r \in lost)
    BY DEF ResentOnlyAfterLoss
  <2>1. AtMostTwo(Hearings(r)) /\ (AtMostOne(Hearings(r)) \/ r \in lost)
    BY DEF HeardInv, HeardOf
  <2>2. /\ TimesHeard(r) <= 2 /\ TimesHeard(r) \in Nat
        /\ AtMostOne(Hearings(r)) => TimesHeard(r) <= 1
    BY <2>1, TwoAtMost DEF TimesHeard
  <2>3. CASE r \in lost
    BY <2>2, <2>3
  <2>4. CASE AtMostOne(Hearings(r))
    BY <2>2, <2>4
  <2>5. QED BY <2>1, <2>3, <2>4
<1>2. QED BY <1>1, AlwaysHeard, PTL

-----------------------------------------------------------------------------
(* What the answers say of the book and the tape. *)

Names(n, req) == n \in DOMAIN book /\ book[n].req = req
Gone(n) == n \in {0, TxId} \/ (n \in DOMAIN book /\ book[n].leaves = 0)
OnTape(req) == \E i \in DOMAIN tape : Trades(tape[i], req)

Acks == {"NEW", "PARTIALLY_FILLED", "FILLED"}

\* An acknowledged order has its number, and a canceled one is gone.
Truthful(a) ==
  /\ a.act = "NEW" /\ a.status \in Acks => Names(a.num, a.req)
  /\ a.act = "CXL" /\ a.status = "CANCELED" => Gone(a.num)

\* So it is when the exchange has acted and the worker does not know it yet.
WaitsTruly(w) ==
  wpc[w] = "wait" =>
    /\ cur[w].act = "NEW" /\ reply[w].ok =>
         \/ reply[w].txstatus = 1
         \/ /\ reply[w].txstatus \in {2, 3, 4, 6}
            /\ Names(reply[w].ordid, cur[w].req)
            /\ reply[w].txstatus # 4 => OnTape(cur[w].req)
    /\ cur[w].act = "CXL" => Gone(cur[w].num)

TruthInv ==
  /\ \A w \in Workers : WaitsTruly(w)
  /\ \A r \in Requests : \A i \in DOMAIN answers[r] :
       Request(answers[r][i]) = r /\ Truthful(answers[r][i])
  /\ \A r \in deferred : OnTape(r[1])

\* What is true of the book and the tape stays true.
LEMMA TruthStays ==
  ASSUME ExchTypes, ExchTypes', Extends(book, book'), Grows(tape, tape')
  PROVE  /\ \A n, req : Names(n, req) => Names(n, req)'
         /\ \A n : Gone(n) => Gone(n)'
         /\ \A req : OnTape(req) => OnTape(req)'
         /\ \A a : Truthful(a) => Truthful(a)'
<1>1. \A n, req : Names(n, req) => Names(n, req)'
  BY DEF Names, Extends
<1>2. \A n : Gone(n) => Gone(n)'
  BY DEF Gone, Extends
<1>3. \A i \in DOMAIN tape : i \in DOMAIN tape' /\ tape'[i] = tape[i]
  <2>1. /\ DOMAIN tape = 1..Len(tape) /\ DOMAIN tape' = 1..Len(tape')
        /\ Len(tape) \in Nat /\ Len(tape') \in Nat
    BY LenProperties DEF ExchTypes
  <2>2. QED BY <2>1 DEF Grows
<1>4. \A req : OnTape(req) => OnTape(req)'
  BY <1>3 DEF OnTape
<1>5. QED BY <1>1, <1>2, <1>4 DEF Truthful

\* An order that is gone is not in the market.
LEMMA GoneIsNotLive ==
  ASSUME ExchTypes, NEW n, Gone(n) PROVE ~Live(n)
<1>1. DOMAIN book = 1..Len(book) /\ Len(book) \in Nat
  BY LenProperties DEF ExchTypes
<1>2. 0 \notin DOMAIN book /\ TxId \notin DOMAIN book
  BY <1>1 DEF TxId
<1>3. QED BY <1>2 DEF Gone, Live

\* A worker that still waits waits for what it waited for.
LEMMA WaitLifts ==
  ASSUME ExchTypes, ExchTypes', Extends(book, book'), Grows(tape, tape'),
         NEW w \in Workers, WaitsTruly(w),
         wpc'[w] = "wait" => wpc[w] = "wait" /\ cur'[w] = cur[w] /\ reply'[w] = reply[w]
  PROVE  WaitsTruly(w)'
<1> SUFFICES ASSUME wpc'[w] = "wait" PROVE WaitsTruly(w)'
  BY DEF WaitsTruly
<1>1. wpc[w] = "wait" /\ cur'[w] = cur[w] /\ reply'[w] = reply[w]
  OBVIOUS
<1>2. PICK o, r : o = cur[w] /\ r = reply[w]
  OBVIOUS
<1>3. /\ o.act = "NEW" /\ r.ok =>
           \/ r.txstatus = 1
           \/ /\ r.txstatus \in {2, 3, 4, 6}
              /\ Names(r.ordid, o.req)'
              /\ r.txstatus # 4 => OnTape(o.req)'
      /\ o.act = "CXL" => Gone(o.num)'
  BY <1>1, <1>2, TruthStays DEF WaitsTruly
<1>4. cur'[w] = o /\ reply'[w] = r
  BY <1>1, <1>2
<1>5. QED BY <1>3, <1>4 DEF WaitsTruly, Names, Gone, OnTape

\* Answers that are true now were true when they were given.
LEMMA AnswersLift ==
  ASSUME ExchTypes, ExchTypes', Extends(book, book'), Grows(tape, tape'),
         \A r \in Requests : \A i \in DOMAIN answers'[r] :
           Request(answers'[r][i]) = r /\ Truthful(answers'[r][i])
  PROVE  (\A r \in Requests : \A i \in DOMAIN answers[r] :
            Request(answers[r][i]) = r /\ Truthful(answers[r][i]))'
<1>1. ASSUME NEW r \in Requests, NEW i \in DOMAIN answers'[r]
      PROVE  (Request(answers[r][i]) = r /\ Truthful(answers[r][i]))'
  <2>1. PICK a : a = answers'[r][i]
    OBVIOUS
  <2>2. Request(a) = r /\ Truthful(a)'
    BY <2>1, TruthStays
  <2>3. QED BY <2>1, <2>2 DEF Request, Truthful, Names, Gone
<1>2. QED BY <1>1

\* Steps that answer nothing, and after which nobody waits that did not wait.
LEMMA TruthFrame ==
  ASSUME TruthInv, ExchTypes, ExchTypes', Extends(book, book'), Grows(tape, tape'),
         UNCHANGED <<answers, deferred>>,
         \A w \in Workers :
           wpc'[w] = "wait" =>
             wpc[w] = "wait" /\ cur'[w] = cur[w] /\ reply'[w] = reply[w]
  PROVE  TruthInv'
<1>1. \A w \in Workers : WaitsTruly(w)'
  BY WaitLifts DEF TruthInv
<1>2. \A r \in Requests : \A i \in DOMAIN answers'[r] :
        Request(answers'[r][i]) = r /\ Truthful(answers'[r][i])
  BY DEF TruthInv
<1>3. (\A r \in Requests : \A i \in DOMAIN answers[r] :
         Request(answers[r][i]) = r /\ Truthful(answers[r][i]))'
  BY <1>2, AnswersLift
<1>4. (\A r \in deferred : OnTape(r[1]))'
  BY TruthStays DEF TruthInv, OnTape
<1>5. QED BY <1>1, <1>3, <1>4 DEF TruthInv

\* A request is answered.
LEMMA TruthAnswered ==
  ASSUME NEW N, FlowTypes(N), TruthInv, ExchTypes, ExchTypes', Extends(book, book'),
         Grows(tape, tape'), NEW w \in Workers, NEW a \in Pods(N), Answer(w, a),
         answers[Request(a)] = <<>>, Truthful(a), deferred' = deferred,
         \A v \in Workers :
           wpc'[v] = "wait" =>
             wpc[v] = "wait" /\ cur'[v] = cur[v] /\ reply'[v] = reply[v]
  PROVE  TruthInv'
<1>7. CASE Drops(a)
  BY <1>7, TruthFrame DEF Drops
<1> SUFFICES ASSUME Responds(w, a) PROVE TruthInv'
  BY <1>7, AnswerCases
<1>1. /\ answers'[Request(a)] = <<a>>
      /\ \A r \in Requests : r # Request(a) => answers'[r] = answers[r]
  BY AnswerLengths
<1>2. \A v \in Workers : WaitsTruly(v)'
  BY WaitLifts DEF TruthInv
<1>3. ASSUME NEW r \in Requests, NEW i \in DOMAIN answers'[r]
      PROVE  Request(answers'[r][i]) = r /\ Truthful(answers'[r][i])
  <2>1. CASE r = Request(a)
    <3>1. answers'[r][i] = a
      BY <1>1, <2>1
    <3>2. QED BY <2>1, <3>1
  <2>2. CASE r # Request(a)
    BY <1>1, <2>2 DEF TruthInv
  <2>3. QED BY <2>1, <2>2
<1>4. (\A r \in Requests : \A i \in DOMAIN answers[r] :
         Request(answers[r][i]) = r /\ Truthful(answers[r][i]))'
  BY <1>3, AnswersLift
<1>5. (\A r \in deferred : OnTape(r[1]))'
  BY TruthStays DEF TruthInv, OnTape
<1>6. QED BY <1>2, <1>4, <1>5 DEF TruthInv

\* What a new order is answered with carries the number in the reply.
LEMMA NewAnswer ==
  ASSUME NEW o \in OrderPod, o.act = "NEW", NEW t \in Nat, NEW n \in Int,
         NEW a \in {FirstAnswer(o, t, n), RetryAnswer(o, t, n)}
  PROVE  a.num = n /\ (t = 1 => a.status = "CANCELED")
<1> DEFINE m == [o EXCEPT !.num = n]
           A(status) == [m EXCEPT !.status = status]
           B(status) == [[m EXCEPT !.status = status] EXCEPT !.last = o.qty, !.leaves = 0]
           C == [m EXCEPT !.status = "NEW", !.leaves = m.qty]
<1>1. m \in OrderPod /\ m.num = n
  BY DEF OrderPod
<1>2. CASE a = FirstAnswer(o, t, n)
  <2>1. \/ a = C /\ t = 4
        \/ a = A("CANCELED")
        \/ a = A("NEW") /\ t # 1
    BY <1>2 DEF FirstAnswer, Numbered, Whole, Status
  <2> HIDE DEF m
  <2>2. C.num = n /\ A("CANCELED").num = n /\ A("CANCELED").status = "CANCELED" /\ A("NEW").num = n
    BY <1>1 DEF OrderPod
  <2> HIDE DEF A, C
  <2>3. QED BY <2>1, <2>2
<1>3. CASE a = RetryAnswer(o, t, n)
  <2>1. CASE t = 2
    <3>1. a = B("FILLED")
      BY <1>3, <2>1 DEF RetryAnswer, Numbered, Status
    <3>2. QED BY <1>1, <2>1, <3>1 DEF OrderPod
  <2>2. CASE t # 2
    <3>1. \E status \in Statuses : a = A(status) /\ (t = 1 => status = "CANCELED")
      BY <1>3, <2>2 DEF RetryAnswer, Numbered, Status, Statuses
    <3>2. QED BY <1>1, <3>1 DEF OrderPod
  <2>3. QED BY <2>1, <2>2
<1>4. QED BY <1>2, <1>3

\* What a worker makes of the exchange's reply is true.
LEMMA AnswersTruly ==
  ASSUME NEW N \in SUBSET Int, FlowTypes(N), NEW w \in Workers, WaitsTruly(w),
         NEW a \in OrderPod, Request(a) = Request(cur[w]), Answers(w, a)
  PROVE  Truthful(a)
<1> DEFINE o == cur[w]
           t == reply[w].txstatus
           n == reply[w].ordid
<1>1. o \in OrderPod /\ o.act \in Acts
  <2>1. o \in Pods(N)
    BY DEF Answers, FlowTypes
  <2>2. QED BY <2>1, PodType
<1>4. Request(a) = Request(o)
  OBVIOUS
<1>5. t \in Nat /\ n \in Int
  BY DEF FlowTypes, Replies
<1>2. CASE a = Rejected(o)
  <2>1. a.status = "REJECTED"
    BY <1>1, <1>2 DEF Rejected, Status, OrderPod
  <2>2. QED BY <2>1 DEF Truthful, Acks
<1>3. CASE ExchangeSays(w, a)
  <2>1. wpc[w] = "wait" /\ reply[w].ok
    BY <1>3 DEF ExchangeSays
  <2>2. /\ o.act = "NEW" =>
             \/ t = 1
             \/ /\ t \in {2, 3, 4, 6}
                /\ Names(n, o.req)
        /\ o.act = "CXL" => Gone(o.num)
    BY <2>1 DEF WaitsTruly
  <2>3. CASE o.act = "CXL"
    <3>1. a.num = o.num
      BY <1>1, <1>3, <2>3 DEF ExchangeSays, FirstAnswer, RetryAnswer, Status, OrderPod
    <3>2. a.act = "CXL"
      BY <1>1, <1>3, <2>3 DEF ExchangeSays, FirstAnswer, RetryAnswer, Status, OrderPod
    <3>3. QED BY <2>2, <2>3, <3>1, <3>2 DEF Truthful
  <2>4. a.req = o.req /\ a.act = o.act
    BY <1>1, <1>4 DEF Request
  <2>5. a \in {FirstAnswer(o, t, n), RetryAnswer(o, t, n)}
    BY <1>3 DEF ExchangeSays
  <2>6. CASE o.act = "NEW"
    <3>1. a.num = n /\ (t = 1 => a.status = "CANCELED")
      <4> HIDE DEF o, t, n
      <4>1. QED BY <1>1, <1>5, <2>5, <2>6, NewAnswer
    <3>2. QED BY <2>2, <2>4, <2>6, <3>1 DEF Truthful, Acks
  <2>7. CASE o.act = "MOD"
    BY <2>4, <2>7 DEF Truthful
  <2>8. QED BY <1>1, <2>3, <2>6, <2>7 DEF Acts
<1>6. QED BY <1>2, <1>3 DEF Answers, GivenUp

\* The exchange acts on the order of a worker.
LEMMA TruthHeard ==
  ASSUME ExchTypes, FlowTypes(NumbersOf(book)), TruthInv, NEW w \in Workers, Hears(w)
  PROVE  TruthInv'
<1>1. /\ ExchTypes' /\ Extends(book, book') /\ Grows(tape, tape')
      /\ cur[w].act = "NEW" =>
           \E news \in Seq(Seq(SubItem(Orders, NumbersOf(book')))) :
             /\ EnteredAs(cur[w], reply'[w], book, book', news)
             /\ tape' = tape \o news
      /\ cur[w].act # "NEW" => DOMAIN book' = DOMAIN book
      /\ cur[w].act = "CXL" /\ cur[w].num \in DOMAIN book => book'[cur[w].num].leaves = 0
  BY HearsKeeps
<1>2. /\ wpc' = [wpc EXCEPT ![w] = "wait"] /\ wpc[w] = "transmit"
      /\ \E outcome \in Outcomes(cur[w]) : reply' = [reply EXCEPT ![w] = outcome.reply]
      /\ UNCHANGED <<cur, answers, deferred>>
  BY DEF Hears
<1>3. /\ \A v \in Workers : v # w => wpc'[v] = wpc[v] /\ reply'[v] = reply[v]
      /\ wpc'[w] = "wait"
  BY <1>2 DEF FlowTypes
<1>4. cur[w] \in Pods(NumbersOf(book)) /\ cur[w].num \in NumbersOf(book)
  <2>1. cur[w] \in Pods(NumbersOf(book))
    BY <1>2 DEF FlowTypes, HandPlace
  <2>2. QED BY <2>1, PodType
<1>5. /\ \A n, req : Names(n, req) => Names(n, req)'
      /\ \A n : Gone(n) => Gone(n)'
      /\ \A req : OnTape(req) => OnTape(req)'
      /\ \A b : Truthful(b) => Truthful(b)'
  BY <1>1, TruthStays
<1>6. PICK o : o = cur[w]
  OBVIOUS
<1>7. cur'[w] = o
  BY <1>2, <1>6
<1>6a. PICK r : r = reply'[w]
  OBVIOUS
<1>8. ASSUME o.act = "NEW", r.ok
      PROVE  \/ r.txstatus = 1
             \/ /\ r.txstatus \in {2, 3, 4, 6}
                /\ Names(r.ordid, o.req)'
                /\ r.txstatus # 4 => OnTape(o.req)'
  <2>1. PICK news \in Seq(Seq(SubItem(Orders, NumbersOf(book')))) :
             EnteredAs(o, r, book, book', news) /\ tape' = tape \o news
    BY <1>1, <1>6, <1>8, <1>6a
  <2>3. \/ r.txstatus = 1
        \/ /\ r.txstatus \in {2, 3, 4, 6}
           /\ r.ordid \in DOMAIN book' /\ book'[r.ordid].req = o.req
           /\ r.txstatus # 4 => news # <<>> /\ Trades(news[1], o.req)
    BY <1>8, <2>1 DEF EnteredAs
  <2>4. ASSUME news # <<>>, Trades(news[1], o.req)
        PROVE  OnTape(o.req)'
    <3> DEFINE T == Seq(SubItem(Orders, NumbersOf(book')))
    <3>1. news \in Seq(T) /\ tape' \in Seq(T)
      BY <1>1 DEF ExchTypes
    <3>2. tape \in Seq(Seq(SubItem(Orders, NumbersOf(book))))
      BY DEF ExchTypes
    <3>3. tape \in Seq(T)
      BY <1>1, <3>2, MoreNumbersInBook, TapeLifts
    <3> HIDE DEF T
    <3>4. Len(news) > 0 /\ Len(news) \in Nat
      BY <2>4, <3>1, EmptySeq, LenProperties
    <3>5. /\ Len(tape \o news) = Len(tape) + Len(news) /\ Len(tape) \in Nat
          /\ \A i \in 1..Len(news) : (tape \o news)[Len(tape) + i] = news[i]
      BY <3>1, <3>3, ConcatProperties
    <3>6. /\ Len(tape) + 1 \in DOMAIN tape' /\ tape'[Len(tape) + 1] = news[1]
      BY <2>1, <3>1, <3>4, <3>5, LenProperties
    <3>7. QED BY <2>4, <3>6 DEF OnTape
  <2>5. QED BY <2>3, <2>4 DEF Names
<1>9. o.act = "CXL" => Gone(o.num)'
  BY <1>1, <1>4, <1>6 DEF Extends, NumbersOf, Gone
<1>10. ASSUME NEW v \in Workers PROVE WaitsTruly(v)'
  <2>1. CASE v = w
    BY <1>7, <1>8, <1>9, <1>6a, <2>1 DEF WaitsTruly, Names, Gone, OnTape
  <2>2. CASE v # w
    <3>1. WaitsTruly(v)
      BY DEF TruthInv
    <3>2. wpc'[v] = wpc[v] /\ cur'[v] = cur[v] /\ reply'[v] = reply[v]
      BY <1>2, <1>3, <2>2
    <3>3. QED BY <1>1, <3>1, <3>2, WaitLifts
  <2>3. QED BY <2>1, <2>2
<1>11. (\A q \in Requests : \A i \in DOMAIN answers[q] :
          Request(answers[q][i]) = q /\ Truthful(answers[q][i]))'
  <2>1. \A q \in Requests : \A i \in DOMAIN answers'[q] :
          Request(answers'[q][i]) = q /\ Truthful(answers'[q][i])
    BY <1>2 DEF TruthInv
  <2>2. QED BY <1>1, <2>1, AnswersLift
<1>12. (\A q \in deferred : OnTape(q[1]))'
  BY <1>2, <1>5 DEF TruthInv, OnTape
<1>13. QED BY <1>10, <1>11, <1>12 DEF TruthInv

\* Every step keeps the answers true.
LEMMA TruthKept == TypesInv /\ PlaceInv /\ TruthInv /\ [Next]_vars => TruthInv'
<1> SUFFICES ASSUME TypesInv, PlaceInv, TruthInv, [Next]_vars PROVE TruthInv'
  OBVIOUS
<1>1. /\ ExchTypes /\ FlowTypes(NumbersOf(book))
      /\ ExchTypes' /\ Extends(book, book') /\ Grows(tape, tape')
  BY BookStep DEF TypesInv
<1>2. PICK N \in SUBSET Int : N = NumbersOf(book)
  BY <1>1, NumbersType DEF ExchTypes
<1>3. FlowTypes(N) /\ Flow
  BY <1>1, <1>2, FlowStep
<1>4. CASE Rests \/ Refuses \/ (\E o \in OrderPod : Begins(o)) \/ \E w \in Workers : Queues(w)
  <2>1. UNCHANGED HandVars
    BY <1>4 DEF Rests, Refuses, Begins, Queues
  <2>2. UNCHANGED <<wpc, cur, reply, answers, deferred>>
    BY <2>1 DEF HandVars
  <2>3. QED BY <1>1, <2>2, TruthFrame
<1>5. ASSUME NEW w \in Workers, WorkerFlow(w) PROVE TruthInv'
  <2>1. ASSUME NEW pc \in PCs, Moves(w, pc) PROVE TruthInv'
    <3>1. wpc' = [wpc EXCEPT ![w] = pc] /\ pc # "wait"
          /\ UNCHANGED <<cur, reply, answers, deferred>>
      BY <2>1 DEF Moves
    <3>2. \A v \in Workers : wpc'[v] = "wait" => wpc[v] = "wait"
      BY <1>3, <3>1 DEF FlowTypes
    <3>3. QED BY <1>1, <3>1, <3>2, TruthFrame
  <2>2. CASE Takes(w)
    <3>1. /\ wpc' = [wpc EXCEPT ![w] = "transmit"]
          /\ cur' = [cur EXCEPT ![w] = Head(orderQ[w])]
          /\ UNCHANGED <<reply, answers, deferred>>
      BY <2>2 DEF Takes
    <3>2. \A v \in Workers : wpc'[v] = "wait" => wpc[v] = "wait" /\ cur'[v] = cur[v]
      BY <1>3, <3>1 DEF FlowTypes
    <3>3. QED BY <1>1, <3>1, <3>2, TruthFrame
  <2>3. CASE TurnsDown(w)
    <3>1. PICK h : h = Head(orderQ[w])
      OBVIOUS
    <3>2. /\ orderQ[w] # <<>> /\ wpc' = [wpc EXCEPT ![w] = "loop"]
          /\ cur' = [cur EXCEPT ![w] = NoOrder]
          /\ Answer(w, Rejected(h)) /\ UNCHANGED <<reply, deferred>>
      BY <2>3, <3>1 DEF TurnsDown
    <3>3. h \in Pods(N) /\ Queued(Request(h))
      <4>1. orderQ[w] \in Seq(Pods(N))
        BY <1>3 DEF FlowTypes
      <4>2. h = orderQ[w][1] /\ 1 \in DOMAIN orderQ[w] /\ h \in Pods(N)
        BY <3>1, <3>2, <4>1, QueueTail
      <4>3. QED BY <4>2 DEF Queued
    <3>4. h \in OrderPod /\ h.num \in N /\ Request(h) \in Requests
      BY <3>3, PodType
    <3>5. PICK a : a = Rejected(h)
      OBVIOUS
    <3>6. a \in Pods(N) /\ Request(a) = Request(h) /\ Truthful(a)
      <4>1. a \in OrderPod /\ Request(a) = Request(h)
        BY <3>4, <3>5, RejectedType
      <4>2. a.num = h.num /\ a.status = "REJECTED"
        BY <3>4, <3>5 DEF Rejected, Status, OrderPod
      <4>3. QED BY <3>4, <4>1, <4>2 DEF Pods, Truthful, Acks
    <3>7. answers[Request(a)] = <<>>
      BY <3>3, <3>4, <3>6 DEF PlaceInv, OnePlace
    <3>8. \A v \in Workers : wpc'[v] = "wait" => wpc[v] = "wait" /\ cur'[v] = cur[v]
      BY <1>3, <3>2 DEF FlowTypes
    <3>9. QED BY <1>1, <1>3, <3>2, <3>5, <3>6, <3>7, <3>8, TruthAnswered
  <2>4. CASE Hears(w)
    BY <1>1, <2>4, TruthHeard
  <2>5. CASE Repeats(w)
    <3>1. wpc' = [wpc EXCEPT ![w] = "transmit"] /\ UNCHANGED <<cur, reply, answers, deferred>>
      BY <2>5 DEF Repeats
    <3>2. \A v \in Workers : wpc'[v] = "wait" => wpc[v] = "wait"
      BY <1>3, <3>1 DEF FlowTypes
    <3>3. QED BY <1>1, <3>1, <3>2, TruthFrame
  <2>6. CASE \E a \in OrderPod : Request(a) = Request(cur[w]) /\ Answers(w, a)
    <3>1. PICK a \in OrderPod : Request(a) = Request(cur[w]) /\ Answers(w, a)
      BY <2>6
    <3>2. a \in Pods(N) /\ cur[w] \in Pods(N)
      BY <1>3, <3>1, AnswersType
    <3>3. Truthful(a)
      <4>1. WaitsTruly(w)
        BY DEF TruthInv
      <4>2. QED BY <1>3, <3>1, <4>1, AnswersTruly
    <3>4. /\ wpc' = [wpc EXCEPT ![w] = "loop"] /\ cur' = [cur EXCEPT ![w] = NoOrder]
          /\ Answer(w, a) /\ cur[w] # NoOrder /\ deferred' = deferred
          /\ reply' \in {reply, [reply EXCEPT ![w] = Refused]}
      BY <3>1 DEF Answers
    <3>5. answers[Request(a)] = <<>>
      <4>1. Held(Request(a)) /\ Request(a) \in Requests
        BY <3>1, <3>2, <3>4, PodType DEF Held, HeldBy
      <4>2. QED BY <4>1 DEF PlaceInv, OnePlace
    <3>6. \A v \in Workers :
            wpc'[v] = "wait" => wpc[v] = "wait" /\ cur'[v] = cur[v] /\ reply'[v] = reply[v]
      BY <1>3, <3>4 DEF FlowTypes
    <3>7. QED BY <1>1, <1>3, <3>2, <3>3, <3>4, <3>5, <3>6, TruthAnswered
  <2>7. CASE Defers(w)
    <3>1. /\ wpc[w] = "wait" /\ reply[w].ok /\ IsFillTx(cur[w], reply[w].txstatus)
          /\ deferred' = deferred \cup {Request(cur[w])}
          /\ wpc' = [wpc EXCEPT ![w] = "loop"] /\ cur' = [cur EXCEPT ![w] = NoOrder]
          /\ reply' = [reply EXCEPT ![w] = Refused] /\ UNCHANGED answers
      BY <2>7 DEF Defers
    <3>2. \A v \in Workers :
            wpc'[v] = "wait" => wpc[v] = "wait" /\ cur'[v] = cur[v] /\ reply'[v] = reply[v]
      BY <1>3, <3>1 DEF FlowTypes
    <3>3. Request(cur[w])[1] = cur[w].req /\ OnTape(cur[w].req)
      <4>1. WaitsTruly(w)
        BY DEF TruthInv
      <4>2. QED BY <3>1, <4>1 DEF WaitsTruly, IsFillTx, Request
    <3>4. /\ \A n, req : Names(n, req) => Names(n, req)'
          /\ \A n : Gone(n) => Gone(n)'
          /\ \A req : OnTape(req) => OnTape(req)'
          /\ \A b : Truthful(b) => Truthful(b)'
      BY <1>1, TruthStays
    <3>5. (\A r \in deferred : OnTape(r[1]))'
      <4>1. \A r \in deferred' : OnTape(r[1])
        BY <3>1, <3>3 DEF TruthInv
      <4>2. QED BY <3>4, <4>1 DEF OnTape
    <3>6. (\A r \in Requests : \A i \in DOMAIN answers[r] :
             Request(answers[r][i]) = r /\ Truthful(answers[r][i]))'
      <4>1. \A r \in Requests : \A i \in DOMAIN answers'[r] :
              Request(answers'[r][i]) = r /\ Truthful(answers'[r][i])
        BY <3>1 DEF TruthInv
      <4>2. QED BY <1>1, <4>1, AnswersLift
    <3>7. \A v \in Workers : WaitsTruly(v)'
      BY <1>1, <3>2, WaitLifts DEF TruthInv
    <3>8. QED BY <3>5, <3>6, <3>7 DEF TruthInv
  <2>8. CASE Loses(w)
    <3>1. /\ wpc' = [wpc EXCEPT ![w] = "logout"] /\ reply' = [reply EXCEPT ![w] = Refused]
          /\ UNCHANGED <<cur, answers, deferred>>
      BY <2>8 DEF Loses
    <3>2. \A v \in Workers : wpc'[v] = "wait" => wpc[v] = "wait" /\ reply'[v] = reply[v]
      BY <1>3, <3>1 DEF FlowTypes
    <3>3. QED BY <1>1, <3>1, <3>2, TruthFrame
  <2>9. QED BY <1>5, <2>1, <2>2, <2>3, <2>4, <2>5, <2>6, <2>7, <2>8 DEF WorkerFlow
<1>6. QED BY <1>3, <1>4, <1>5 DEF Flow, SendFlow

\* The answers are true in every state.
LEMMA AlwaysTrue == Spec => []TruthInv
<1>1. Init => TruthInv
  <2> SUFFICES ASSUME Init PROVE TruthInv
    OBVIOUS
  <2>1. /\ \A w \in Workers : wpc[w] = "none"
        /\ \A r \in Requests : answers[r] = <<>>
        /\ deferred = {}
    BY DEF Init, WorkerInit
  <2>2. \A r \in Requests : DOMAIN answers[r] = {}
    BY <2>1
  <2>3. QED BY <2>1, <2>2 DEF TruthInv, WaitsTruly
<1>2. QED BY <1>1, TruthKept, AlwaysTyped, AlwaysPlaced, PTL DEF Spec

\* The exchordid a new order is acknowledged with is the exchange's number of
\* that very order, whatever was lost and repeated on the way.
THEOREM AcksNameTheirOrder == Spec => []AckNamesTheOrder
<1>1. TruthInv => AckNamesTheOrder
  <2> SUFFICES ASSUME TruthInv, NEW o \in Orders, NEW i \in DOMAIN answers[<<o, "NEW">>],
                      answers[<<o, "NEW">>][i].status \in Acks
               PROVE  Names(answers[<<o, "NEW">>][i].num, o)
    BY DEF AckNamesTheOrder, Acks, Names
  <2>1. <<o, "NEW">> \in Requests
    BY DEF Requests, Acts
  <2>2. PICK a : a = answers[<<o, "NEW">>][i]
    OBVIOUS
  <2>3. Request(a) = <<o, "NEW">> /\ Truthful(a) /\ a.status \in Acks
    BY <2>1, <2>2 DEF TruthInv
  <2>4. QED BY <2>2, <2>3 DEF Request, Truthful
<1>2. QED BY <1>1, AlwaysTrue, PTL

\* When the client is told that a deletion is CANCELED, nothing is left in the
\* book under the number the deletion was sent with, and nothing ever comes
\* back there.
THEOREM CancelsAreFinal == Spec => []CanceledIsGone
<1>1. ExchTypes /\ TruthInv => CanceledIsGone
  <2> SUFFICES ASSUME ExchTypes, TruthInv, NEW o \in Orders,
                      NEW i \in DOMAIN answers[<<o, "CXL">>],
                      answers[<<o, "CXL">>][i].status = "CANCELED"
               PROVE  ~Live(answers[<<o, "CXL">>][i].num)
    BY DEF CanceledIsGone
  <2>1. <<o, "CXL">> \in Requests
    BY DEF Requests, Acts
  <2>2. PICK a : a = answers[<<o, "CXL">>][i]
    OBVIOUS
  <2>3. Request(a) = <<o, "CXL">> /\ Truthful(a) /\ a.status = "CANCELED"
    BY <2>1, <2>2 DEF TruthInv
  <2>4. Gone(a.num)
    BY <2>3 DEF Request, Truthful
  <2>5. QED BY <2>2, <2>4, GoneIsNotLive
<1>2. TypesInv => ExchTypes
  BY DEF TypesInv
<1>3. QED BY <1>1, <1>2, AlwaysTrue, AlwaysTyped, PTL

\* A new order whose answer is left to the broadcasts traded, and the tape has
\* the trade: the client is not left waiting for a broadcast that never was.
THEOREM DeferralsTraded == Spec => []DeferredHasTrade
<1>1. TruthInv => DeferredHasTrade
  BY DEF TruthInv, OnTape, Trades, DeferredHasTrade
<1>2. QED BY <1>1, AlwaysTrue, PTL

-----------------------------------------------------------------------------
(* Orders in the book. *)

Booked(o) == \E n \in DOMAIN book : book[n].req = o

Dead == {"REJECTED", "CANCELED"}

\* The worker is about to learn that the new order in its hand was booked.
LearnsOf(w, o) ==
  /\ HeldBy(w, <<o, "NEW">>) /\ wpc[w] = "wait"
  /\ reply[w].ok /\ reply[w].txstatus \in {2, 3, 4, 6}

\* That the order was booked is about to be learnt, or it was answered with
\* another status, or the answer is left to the broadcasts or was dropped.
Accounted(o) ==
  \/ \E w \in Workers : LearnsOf(w, o)
  \/ <<o, "NEW">> \in deferred \cup dropped
  \/ \E i \in DOMAIN answers[<<o, "NEW">>] : answers[<<o, "NEW">>][i].status \notin Dead

LiveInv == \A o \in Orders : Booked(o) /\ <<o, "NEW">> \notin lost => Accounted(o)

\* Steps that answer nothing and leave who waits waiting.
LEMMA AccountFrame ==
  ASSUME NEW o \in Orders, Accounted(o), UNCHANGED <<answers, dropped>>, deferred \subseteq deferred',
         \A w \in Workers : wpc[w] = "wait" => /\ wpc'[w] = "wait" /\ cur'[w] = cur[w]
                                               /\ reply'[w] = reply[w]
  PROVE  Accounted(o)'
<1>1. CASE \E w \in Workers : LearnsOf(w, o)
  <2>1. PICK w \in Workers : LearnsOf(w, o)
    BY <1>1
  <2>2. LearnsOf(w, o)'
    BY <2>1 DEF LearnsOf, HeldBy
  <2>3. QED BY <2>2 DEF Accounted
<1>2. CASE ~\E w \in Workers : LearnsOf(w, o)
  BY <1>2 DEF Accounted
<1>3. QED BY <1>1, <1>2

\* What the exchange says of an order it booked is not that it is dead.
LEMMA NewAnswerLives ==
  ASSUME NEW o \in OrderPod, o.act = "NEW", NEW t \in {2, 3, 4, 6}, NEW n \in Int,
         NEW a, \/ a = FirstAnswer(o, t, n) /\ ~IsFillTx(o, t)
                \/ a = RetryAnswer(o, t, n)
  PROVE  a.status \notin Dead
<1>1. CASE a = FirstAnswer(o, t, n) /\ ~IsFillTx(o, t)
  <2>1. t = 4
    BY <1>1 DEF IsFillTx
  <2>2. a = [[o EXCEPT !.num = n] EXCEPT !.status = "NEW", !.leaves = [o EXCEPT !.num = n].qty]
    BY <1>1, <2>1 DEF FirstAnswer, Numbered, Whole
  <2>3. a.status = "NEW"
    BY <2>2 DEF OrderPod
  <2>4. QED BY <2>3 DEF Dead
<1>2. CASE a = RetryAnswer(o, t, n)
  <2> DEFINE m == [o EXCEPT !.num = n]
  <2>1. m \in OrderPod
    BY DEF OrderPod
  <2>2. \/ a = [[m EXCEPT !.status = "FILLED"] EXCEPT !.last = o.qty, !.leaves = 0]
        \/ a = [m EXCEPT !.status = "NEW"]
        \/ a = [m EXCEPT !.status = "PARTIALLY_FILLED"]
    BY <1>2 DEF RetryAnswer, Numbered, Status
  <2> HIDE DEF m
  <2>3. a.status \in {"FILLED", "NEW", "PARTIALLY_FILLED"}
    BY <2>1, <2>2 DEF OrderPod
  <2>4. QED BY <2>3 DEF Dead
<1>3. QED BY <1>1, <1>2

\* A step leaves what is accounted for accounted for, unless it loses the
\* answer.
LEMMA AccountKept ==
  ASSUME NEW N \in SUBSET Int, FlowTypes(N), PlaceInv, Flow,
         NEW o \in Orders, Accounted(o), <<o, "NEW">> \notin lost'
  PROVE  Accounted(o)'
<1>1. CASE Rests \/ Refuses \/ (\E p \in OrderPod : Begins(p)) \/ \E w \in Workers : Queues(w)
  <2>1. UNCHANGED HandVars
    BY <1>1 DEF Rests, Refuses, Begins, Queues
  <2>2. UNCHANGED <<wpc, cur, reply, answers, dropped, deferred>>
    BY <2>1 DEF HandVars
  <2>3. QED BY <2>2, AccountFrame
<1>2. ASSUME NEW w \in Workers, WorkerFlow(w) PROVE Accounted(o)'
  <2>0. <<o, "NEW">> \in Requests
    BY DEF Requests, Acts
  <2>1. ASSUME NEW pc \in PCs, Moves(w, pc) PROVE Accounted(o)'
    <3>1. wpc' = [wpc EXCEPT ![w] = pc] /\ UNCHANGED <<cur, reply, answers, dropped, deferred>>
      BY <2>1 DEF Moves
    <3>2. wpc[w] # "wait"
      BY <2>1 DEF Moves, FlowTypes, HandPlace
    <3>3. \A v \in Workers : wpc[v] = "wait" => wpc'[v] = "wait"
      BY <3>1, <3>2 DEF FlowTypes
    <3>4. QED BY <3>1, <3>3, AccountFrame
  <2>2. CASE Takes(w)
    <3>1. /\ wpc[w] = "loop" /\ wpc' = [wpc EXCEPT ![w] = "transmit"]
          /\ cur' = [cur EXCEPT ![w] = Head(orderQ[w])]
          /\ UNCHANGED <<reply, answers, dropped, deferred>>
      BY <2>2 DEF Takes
    <3>2. \A v \in Workers : wpc[v] = "wait" => wpc'[v] = "wait" /\ cur'[v] = cur[v]
      BY <3>1 DEF FlowTypes
    <3>3. QED BY <3>1, <3>2, AccountFrame
  <2>3. CASE TurnsDown(w)
    <3>1. PICK h : h = Head(orderQ[w])
      OBVIOUS
    <3>2. /\ orderQ[w] # <<>> /\ wpc[w] = "loop" /\ wpc' = [wpc EXCEPT ![w] = "loop"]
          /\ cur' = [cur EXCEPT ![w] = NoOrder]
          /\ Answer(w, Rejected(h)) /\ UNCHANGED <<reply, deferred>>
      BY <2>3, <3>1 DEF TurnsDown
    <3>3. h \in Pods(N) /\ Queued(Request(h))
      <4>1. orderQ[w] \in Seq(Pods(N))
        BY DEF FlowTypes
      <4>2. h = orderQ[w][1] /\ 1 \in DOMAIN orderQ[w] /\ h \in Pods(N)
        BY <3>1, <3>2, <4>1, QueueTail
      <4>3. QED BY <4>2 DEF Queued
    <3>4. PICK a : a = Rejected(h)
      OBVIOUS
    <3>5. a \in Pods(N) /\ Request(a) = Request(h) /\ Request(h) \in Requests
      <4>1. h \in OrderPod /\ h.num \in N /\ Request(h) \in Requests
        BY <3>3, PodType
      <4>2. a \in OrderPod /\ Request(a) = Request(h)
        BY <3>4, <4>1, RejectedType
      <4>3. a.num = h.num
        BY <3>4, <4>1 DEF Rejected, Status, OrderPod
      <4>4. QED BY <4>1, <4>2, <4>3 DEF Pods
    <3>6. answers[Request(a)] = <<>> /\ ~Held(Request(a))
          /\ Request(a) \notin deferred \cup dropped
      BY <3>3, <3>5 DEF PlaceInv, OnePlace
    <3>7. <<o, "NEW">> # Request(a)
      <4>1. SUFFICES ASSUME <<o, "NEW">> = Request(a) PROVE FALSE
        OBVIOUS
      <4>2. DOMAIN answers[<<o, "NEW">>] = {}
        BY <3>6, <4>1
      <4>3. QED BY <3>6, <4>1, <4>2 DEF Accounted, LearnsOf, Held
    <3>13. /\ \A r \in Requests : r # Request(a) => answers'[r] = answers[r]
           /\ dropped \subseteq dropped'
      <4>1. CASE Responds(w, a)
        BY <3>5, <3>6, <4>1, AnswerLengths DEF Responds
      <4>2. CASE Drops(a)
        BY <4>2 DEF Drops
      <4>3. QED BY <3>2, <3>4, <4>1, <4>2, AnswerCases
    <3>8. answers'[<<o, "NEW">>] = answers[<<o, "NEW">>]
      BY <2>0, <3>7, <3>13
    <3>9. \A v \in Workers : wpc[v] = "wait" => wpc'[v] = "wait" /\ cur'[v] = cur[v]
      BY <3>2 DEF FlowTypes
    <3>10. CASE \E v \in Workers : LearnsOf(v, o)
      <4>1. PICK v \in Workers : LearnsOf(v, o)
        BY <3>10
      <4>2. LearnsOf(v, o)'
        BY <3>2, <3>9, <4>1 DEF LearnsOf, HeldBy
      <4>3. QED BY <4>2 DEF Accounted
    <3>11. CASE ~\E v \in Workers : LearnsOf(v, o)
      BY <3>2, <3>8, <3>11, <3>13 DEF Accounted
    <3>12. QED BY <3>10, <3>11
  <2>4. CASE Hears(w)
    <3>1. /\ wpc[w] = "transmit" /\ wpc' = [wpc EXCEPT ![w] = "wait"]
          /\ \E outcome \in Outcomes(cur[w]) : reply' = [reply EXCEPT ![w] = outcome.reply]
          /\ UNCHANGED <<cur, answers, dropped, deferred>>
      BY <2>4 DEF Hears
    <3>2. \A v \in Workers : wpc[v] = "wait" => wpc'[v] = "wait" /\ reply'[v] = reply[v]
      BY <3>1 DEF FlowTypes
    <3>3. QED BY <3>1, <3>2, AccountFrame
  <2>5. CASE Repeats(w)
    <3>1. /\ wpc[w] = "requery" /\ wpc' = [wpc EXCEPT ![w] = "transmit"]
          /\ UNCHANGED <<cur, reply, answers, dropped, deferred>>
      BY <2>5 DEF Repeats
    <3>2. \A v \in Workers : wpc[v] = "wait" => wpc'[v] = "wait"
      BY <3>1 DEF FlowTypes
    <3>3. QED BY <3>1, <3>2, AccountFrame
  <2>6. CASE \E a \in OrderPod : Request(a) = Request(cur[w]) /\ Answers(w, a)
    <3>1. PICK a \in OrderPod : Request(a) = Request(cur[w]) /\ Answers(w, a)
      BY <2>6
    <3>2. a \in Pods(N) /\ cur[w] \in Pods(N)
      BY <3>1, AnswersType
    <3>3. /\ wpc' = [wpc EXCEPT ![w] = "loop"] /\ cur' = [cur EXCEPT ![w] = NoOrder]
          /\ Answer(w, a) /\ cur[w] # NoOrder /\ deferred' = deferred
          /\ reply' \in {reply, [reply EXCEPT ![w] = Refused]}
          /\ ExchangeSays(w, a) \/ GivenUp(w, a)
      BY <3>1 DEF Answers
    <3>4. /\ Request(a) \in Requests /\ HeldBy(w, Request(a))
      BY <3>1, <3>2, <3>3, PodType DEF HeldBy
    <3>5. answers[Request(a)] = <<>> /\ Request(a) \notin deferred \cup dropped
      BY <3>4 DEF PlaceInv, OnePlace, Held
    <3>6. /\ answers'[Request(a)] = <<a>> \/ Request(a) \in dropped'
          /\ \A r \in Requests : r # Request(a) => answers'[r] = answers[r]
          /\ dropped \subseteq dropped'
      <4>1. CASE Responds(w, a)
        BY <3>2, <3>5, <4>1, AnswerLengths DEF Responds
      <4>2. CASE Drops(a)
        BY <4>2 DEF Drops
      <4>3. QED BY <3>3, <4>1, <4>2, AnswerCases
    <3>7. \A v \in Workers : v # w => /\ cur'[v] = cur[v] /\ wpc'[v] = wpc[v]
                                      /\ reply'[v] = reply[v]
      BY <3>3 DEF FlowTypes
    <3>8. CASE Request(a) = <<o, "NEW">>
      <4>1. LearnsOf(w, o)
        <5>1. DOMAIN answers[<<o, "NEW">>] = {}
          BY <3>5, <3>8
        <5>2. PICK v \in Workers : LearnsOf(v, o)
          BY <3>5, <3>8, <5>1 DEF Accounted
        <5>3. v = w
          BY <2>0, <3>4, <3>8, <5>2 DEF LearnsOf, PlaceInv, HandsDistinct
        <5>4. QED BY <5>2, <5>3
      <4>2. ExchangeSays(w, a)
        BY <3>1, <3>3, <3>8, <4>1 DEF LearnsOf, GivenUp
      <4>3. cur[w].act = "NEW" /\ cur[w] \in OrderPod
        BY <3>1, <3>2, <3>8, PodType DEF Request
      <4>4. PICK t, n : t = reply[w].txstatus /\ n = reply[w].ordid
        OBVIOUS
      <4>5. t \in {2, 3, 4, 6} /\ n \in Int
        BY <4>1, <4>4 DEF LearnsOf, FlowTypes, Replies
      <4>6. a.status \notin Dead
        BY <4>2, <4>3, <4>4, <4>5, NewAnswerLives DEF ExchangeSays
      <4>7. 1 \in DOMAIN <<a>> /\ <<a>>[1] = a
        OBVIOUS
      <4>8. QED BY <3>6, <3>8, <4>6, <4>7 DEF Accounted
    <3>9. CASE Request(a) # <<o, "NEW">>
      <4>1. answers'[<<o, "NEW">>] = answers[<<o, "NEW">>]
        BY <2>0, <3>6, <3>9
      <4>2. CASE \E v \in Workers : LearnsOf(v, o)
        <5>1. PICK v \in Workers : LearnsOf(v, o)
          BY <4>2
        <5>2. v # w
          BY <3>1, <3>9, <5>1 DEF LearnsOf, HeldBy
        <5>3. LearnsOf(v, o)'
          BY <3>7, <5>1, <5>2 DEF LearnsOf, HeldBy
        <5>4. QED BY <5>3 DEF Accounted
      <4>3. CASE ~\E v \in Workers : LearnsOf(v, o)
        BY <3>3, <3>6, <4>1, <4>3 DEF Accounted
      <4>4. QED BY <4>2, <4>3
    <3>10. QED BY <3>8, <3>9
  <2>7. CASE Defers(w)
    <3>1. /\ deferred' = deferred \cup {Request(cur[w])}
          /\ wpc' = [wpc EXCEPT ![w] = "loop"] /\ cur' = [cur EXCEPT ![w] = NoOrder]
          /\ reply' = [reply EXCEPT ![w] = Refused] /\ UNCHANGED <<answers, dropped>>
      BY <2>7 DEF Defers
    <3>2. CASE LearnsOf(w, o)
      BY <3>1, <3>2 DEF LearnsOf, HeldBy, Accounted
    <3>3. CASE ~LearnsOf(w, o)
      <4>1. \A v \in Workers : v # w => /\ cur'[v] = cur[v] /\ wpc'[v] = wpc[v]
                                        /\ reply'[v] = reply[v]
        BY <3>1 DEF FlowTypes
      <4>2. \A v \in Workers : LearnsOf(v, o) => LearnsOf(v, o)'
        BY <3>3, <4>1 DEF LearnsOf, HeldBy
      <4>3. QED BY <3>1, <4>2 DEF Accounted
    <3>4. QED BY <3>2, <3>3
  <2>8. CASE Loses(w)
    <3>1. /\ lost' = lost \cup {Request(cur[w])}
          /\ wpc' = [wpc EXCEPT ![w] = "logout"] /\ reply' = [reply EXCEPT ![w] = Refused]
          /\ UNCHANGED <<cur, answers, dropped, deferred>>
      BY <2>8 DEF Loses
    <3>2. ~LearnsOf(w, o)
      BY <3>1 DEF LearnsOf, HeldBy
    <3>3. \A v \in Workers : v # w => wpc'[v] = wpc[v] /\ reply'[v] = reply[v]
      BY <3>1 DEF FlowTypes
    <3>4. \A v \in Workers : LearnsOf(v, o) => LearnsOf(v, o)'
      BY <3>1, <3>2, <3>3 DEF LearnsOf, HeldBy
    <3>5. QED BY <3>1, <3>4 DEF Accounted
  <2>9. QED BY <1>2, <2>1, <2>2, <2>3, <2>4, <2>5, <2>6, <2>7, <2>8 DEF WorkerFlow
<1>3. QED BY <1>1, <1>2 DEF Flow, SendFlow

\* The book gets new orders from the workers' transactions alone.
LEMMA BookedBy ==
  ASSUME ExchTypes, FlowTypes(NumbersOf(book)), [Next]_vars, NEW o \in Orders, Booked(o)'
  PROVE  \/ Booked(o)
         \/ \E w \in Workers : LearnsOf(w, o)'
<1>1. Extends(book, book')
  BY BookStep
<1>2. CASE DOMAIN book' = DOMAIN book
  BY <1>1, <1>2 DEF Booked, Extends
<1>3. ASSUME NEW w \in Workers, Hears(w), DOMAIN book' # DOMAIN book
      PROVE  Booked(o) \/ LearnsOf(w, o)'
  <2>1. PICK r, p : r = reply'[w] /\ p = cur[w]
    OBVIOUS
  <2>2. p.act = "NEW"
    BY <1>3, <2>1, HearsKeeps
  <2>3. \E news : EnteredAs(p, r, book, book', news)
    BY <1>3, <2>1, <2>2, HearsKeeps
  <2>4. /\ r.ok /\ r.txstatus \in {2, 3, 4, 6}
        /\ book'[r.ordid].req = p.req /\ DOMAIN book' = DOMAIN book \cup {r.ordid}
    BY <1>3, <2>3 DEF EnteredAs
  <2>5. Booked(o) \/ p.req = o
    BY <1>1, <2>4 DEF Booked, Extends
  <2>6. wpc'[w] = "wait" /\ cur'[w] = p /\ p # NoOrder
    BY <1>3, <2>1 DEF Hears, FlowTypes, HandPlace
  <2>7. p.req = o => LearnsOf(w, o)'
    BY <2>1, <2>2, <2>4, <2>6 DEF LearnsOf, HeldBy, Request
  <2>8. QED BY <2>5, <2>7
<1>4. CASE Market
  <2>1. DOMAIN book' = DOMAIN book
    BY <1>4, MarketKeeps DEF ExchTypes
  <2>2. QED BY <1>2, <2>1
<1>5. CASE UNCHANGED exchVars
  <2>1. DOMAIN book' = DOMAIN book
    BY <1>5 DEF exchVars
  <2>2. QED BY <1>2, <2>1
<1>6. ASSUME NEW w \in Workers, Transmit(w), UNCHANGED <<bdxVars, handlerVars, clientVars>>
      PROVE  Hears(w)
  BY <1>6 DEF Transmit, Goto, Hears, queueVars, handlerVars, clientVars, SendVars
<1>7. QED BY <1>2, <1>3, <1>4, <1>5, <1>6, ExchMoves

\* What is lost stays lost.
LEMMA LostGrows == ASSUME Flow PROVE lost \subseteq lost'
<1>1. CASE Rests \/ SendFlow
  BY <1>1 DEF Rests, SendFlow, Begins, Refuses, Queues, HandVars
<1>2. ASSUME NEW w \in Workers, WorkerFlow(w) PROVE lost \subseteq lost'
  BY <1>2 DEF WorkerFlow, Moves, Takes, TurnsDown, Hears, Repeats, Answers, ExchangeSays, GivenUp,
              Defers, Loses
<1>3. QED BY <1>1, <1>2 DEF Flow

\* A new order the client is told is REJECTED or CANCELED was never booked or
\* traded at the exchange, unless the exchange acted and the answer to it was
\* lost with the session or to a timeout.
THEOREM DeadOrdersNeverLived == Spec => []DeadOrderNeverLived
<1>1. Init => LiveInv
  <2> SUFFICES ASSUME Init PROVE LiveInv
    OBVIOUS
  <2>1. DOMAIN book = {}
    BY DEF Init, ExchInit
  <2>2. QED BY <2>1 DEF LiveInv, Booked
<1>2. TypesInv /\ PlaceInv /\ LiveInv /\ [Next]_vars => LiveInv'
  <2> SUFFICES ASSUME TypesInv, PlaceInv, LiveInv, [Next]_vars,
                      NEW o \in Orders, Booked(o)', <<o, "NEW">> \notin lost'
               PROVE  Accounted(o)'
    BY DEF LiveInv
  <2>1. ExchTypes /\ FlowTypes(NumbersOf(book))
    BY DEF TypesInv
  <2>2. PICK N \in SUBSET Int : FlowTypes(N) /\ Flow
    BY FlowStep
  <2>3. CASE Booked(o)
    <3>1. lost \subseteq lost'
      BY <2>2, LostGrows
    <3>2. Accounted(o)
      BY <2>3, <3>1 DEF LiveInv
    <3>3. QED BY <2>2, <3>2, AccountKept
  <2>4. CASE \E w \in Workers : LearnsOf(w, o)'
    BY <2>4 DEF Accounted
  <2>5. QED BY <2>1, <2>3, <2>4, BookedBy
<1>3. PlaceInv /\ TypesInv /\ LiveInv => DeadOrderNeverLived
  <2> SUFFICES ASSUME PlaceInv, TypesInv, LiveInv, NEW o \in Orders,
                      NEW i \in DOMAIN answers[<<o, "NEW">>],
                      answers[<<o, "NEW">>][i].status \in Dead, <<o, "NEW">> \notin lost,
                      Booked(o)
               PROVE  FALSE
    BY DEF DeadOrderNeverLived, Booked, Dead
  <2>1. <<o, "NEW">> \in Requests
    BY DEF Requests, Acts
  <2>2. Accounted(o) /\ OnePlace(<<o, "NEW">>)
    BY <2>1 DEF LiveInv, PlaceInv
  <2>3. answers[<<o, "NEW">>] # <<>> /\ DOMAIN answers[<<o, "NEW">>] \subseteq {1}
    <3>1. answers[<<o, "NEW">>] \in Seq(Pods(NumbersOf(book)))
      BY <2>1 DEF TypesInv, FlowTypes
    <3>2. /\ DOMAIN answers[<<o, "NEW">>] = 1..Len(answers[<<o, "NEW">>])
          /\ Len(answers[<<o, "NEW">>]) \in Nat
      BY <3>1, LenProperties
    <3>3. QED BY <2>2, <3>1, <3>2, EmptySeq DEF OnePlace
  <2>4. <<o, "NEW">> \notin deferred \cup dropped /\ ~Held(<<o, "NEW">>)
    BY <2>2, <2>3 DEF OnePlace
  <2>5. \E j \in DOMAIN answers[<<o, "NEW">>] : answers[<<o, "NEW">>][j].status \notin Dead
    BY <2>2, <2>4 DEF Accounted, LearnsOf, Held
  <2>6. QED BY <2>3, <2>5
<1>4. QED BY <1>1, <1>2, <1>3, AlwaysTyped, AlwaysPlaced, PTL DEF Spec

-----------------------------------------------------------------------------
(* Fills: what the broadcasts tell of trades, and what the client counts.  *)

Fills == {"PARTIALLY_FILLED", "FILLED"}

\* What the parser makes of a trade's broadcast: the quantity named less what is
\* left.
TradedBy(items) == LastOf(items, 34005).qty - LastOf(items, 34902).left

\* A broadcast tells of one trade, of no more lots than that, or of none.
TellsOne(items) ==
  \/ WellFormedTrade(items) /\ LastOf(items, 34920).lots \in 0..TradedBy(items)
  \/ ~Has(items, 34920)

\* The trades of an order among the first m - 1 broadcasts of t, without s.
TradesIn(t, m, s, o) == {i \in 1..(m - 1) : i \notin s /\ Trades(t[i], o)}
TradedIn(t, m, s, o) == SumFunction([i \in TradesIn(t, m, s, o) |-> TradedBy(t[i])])

\* Those of the broadcasts st, parsed again, that are trades of the order.
RepeatsIn(t, st, o) == {k \in DOMAIN st : Trades(t[st[k]], o)}
RepeatedIn(t, st, o) == SumFunction([k \in RepeatsIn(t, st, o) |-> TradedBy(t[st[k]])])

\* The fills of an order in the queue q.
FillsIn(q, o) == {k \in DOMAIN q : q[k].req = o /\ q[k].status \in Fills}
FilledIn(q, o) == SumFunction([k \in FillsIn(q, o) |-> q[k].last])

\* What the broadcast of a trade says is a quantity.
LEMMA TradedType ==
  ASSUME NEW R, NEW M, NEW items \in Seq(SubItem(R, M)), WellFormedTrade(items)
  PROVE  LastOf(items, 34005).qty \in UInt32s /\ LastOf(items, 34902).left \in UInt32s
<1>1. ASSUME NEW s \in {34005, 34902}
      PROVE  \E i \in DOMAIN items : items[i].struct = s /\ LastOf(items, s) = items[i]
  <2>1. Has(items, s) /\ Once(items, s)
    BY DEF WellFormedTrade
  <2>2. PICK i \in DOMAIN items : items[i].struct = s
    BY <2>1 DEF Has
  <2>3. QED BY <2>1, <2>2, LastOfOnce
<1>2. \A i \in DOMAIN items : items[i] \in SubItem(R, M)
  OBVIOUS
<1>3. PICK i \in DOMAIN items : items[i].struct = 34005 /\ LastOf(items, 34005) = items[i]
  BY <1>1
<1>4. PICK j \in DOMAIN items : items[j].struct = 34902 /\ LastOf(items, 34902) = items[j]
  BY <1>1
<1>5. items[i].qty \in UInt32s
  BY <1>2, <1>3, SubItemCases
<1>6. items[j].left \in UInt32s
  BY <1>2, <1>4, SubItemCases
<1>7. QED BY <1>3, <1>4, <1>5, <1>6

\* What ParseBO5 makes of a broadcast that tells of one trade or of none.
LEMMA ParsedOne ==
  ASSUME NEW R, NEW M, NEW items \in Seq(SubItem(R, M)), TellsOne(items)
  PROVE  \/ ~Has(items, 34920) /\ ParseBO5(items) = <<>>
         \/ \E p \in Published(R, M) :
              /\ ParseBO5(items) = <<p>>
              /\ p.status \in Fills <=> Has(items, 34920)
              /\ Has(items, 34920) => /\ p.req = LastOf(items, 34005).req
                                      /\ p.last = TradedBy(items)
                                      /\ TradedBy(items) \in Int
<1>1. ParseBO5(items) \in {<<>>, <<Parsed(items)>>}
      /\ (ParseBO5(items) = <<>> <=> ~Publishes(Parsed(items)))
  BY DEF ParseBO5
<1>2. Publishes(Parsed(items)) => Parsed(items) \in Published(R, M)
  <2>1. SUFFICES ASSUME Publishes(Parsed(items)) PROVE Parsed(items) \in Published(R, M)
    OBVIOUS
  <2>2. <<Parsed(items)>> \in Seq(Published(R, M))
    BY <2>1, ParsedType DEF ParseBO5
  <2>3. QED BY <2>2
<1>3. CASE Has(items, 34920)
  <2>1. WellFormedTrade(items)
    BY <1>3 DEF TellsOne
  <2>2. LastOf(items, 34005).qty \in UInt32s /\ LastOf(items, 34902).left \in UInt32s
    BY <2>1, TradedType
  <2>3. /\ Publishes(Parsed(items))
        /\ Parsed(items).req = LastOf(items, 34005).req
        /\ Parsed(items).last + LastOf(items, 34902).left = LastOf(items, 34005).qty
        /\ Parsed(items).status = FillStatus(LastOf(items, 34902).left)
    BY <2>1, FillIsReportedAlways DEF FillIsReported
  <2>4. Parsed(items).status \in Fills
    BY <2>3 DEF FillStatus, Fills
  <2>5. Parsed(items).last \in UInt32s
    BY <1>2, <2>3 DEF Published
  <2>6. Parsed(items).last = TradedBy(items) /\ TradedBy(items) \in Int
    BY <2>2, <2>3, <2>5 DEF TradedBy, UInt32s
  <2>7. QED BY <1>1, <1>2, <1>3, <2>3, <2>4, <2>6
<1>4. CASE ~Has(items, 34920)
  <2>1. Parsed(items).status \notin Fills
    BY <1>4, EndOfParsed DEF Fills
  <2>2. QED BY <1>1, <1>2, <1>4, <2>1
<1>5. QED BY <1>3, <1>4

\* The tapes with numbers of M whose broadcasts tell of one trade or of none.
Tape(M) == {t \in Seq(Seq(SubItem(Orders, M))) : \A i \in DOMAIN t : TellsOne(t[i])}

\* What is traded according to the first broadcasts is a number.
LEMMA TradesType ==
  ASSUME NEW M, NEW t \in Tape(M), NEW m \in Nat, m <= Len(t) + 1, NEW s, NEW o
  PROVE  /\ IsFiniteSet(TradesIn(t, m, s, o))
         /\ \A i \in TradesIn(t, m, s, o) : i \in DOMAIN t /\ TradedBy(t[i]) \in Int
         /\ [i \in TradesIn(t, m, s, o) |-> TradedBy(t[i])] \in [TradesIn(t, m, s, o) -> Int]
         /\ TradedIn(t, m, s, o) \in Int
<1> DEFINE S == TradesIn(t, m, s, o)
           f == [i \in S |-> TradedBy(t[i])]
<1>1. DOMAIN t = 1..Len(t) /\ Len(t) \in Nat
  BY DEF Tape
<1>2. S \subseteq 1..(m - 1) /\ S \subseteq DOMAIN t
  BY <1>1 DEF TradesIn
<1>3. IsFiniteSet(1..(m - 1))
  <2>1. m - 1 \in Int /\ 1 \in Int
    OBVIOUS
  <2>2. QED BY <2>1, FS_Interval
<1>4. IsFiniteSet(S)
  BY <1>2, <1>3, FS_Subset
<1>5. ASSUME NEW i \in S PROVE TradedBy(t[i]) \in Int
  <2>1. i \in DOMAIN t /\ Has(t[i], 34920)
    BY <1>2 DEF TradesIn, Trades
  <2>2. t[i] \in Seq(SubItem(Orders, M)) /\ WellFormedTrade(t[i])
    BY <2>1 DEF Tape, TellsOne
  <2>3. LastOf(t[i], 34005).qty \in UInt32s /\ LastOf(t[i], 34902).left \in UInt32s
    BY <2>2, TradedType
  <2>4. QED BY <2>3 DEF TradedBy, UInt32s
<1>6. f \in [S -> Int] /\ DOMAIN f = S
  BY <1>5
<1>7. SumFunction(f) \in Int
  <2> HIDE DEF S, f
  <2>1. Summable(f, S)
    BY <1>4, <1>6 DEF Summable
  <2>2. QED BY <1>6, <2>1, SumType DEF SumFunction
<1>8. QED BY <1>2, <1>4, <1>5, <1>6, <1>7 DEF TradedIn

\* One broadcast more.
LEMMA TradedNext ==
  ASSUME NEW M, NEW t \in Tape(M), NEW m \in DOMAIN t, NEW s, m \notin s, NEW o
  PROVE  TradedIn(t, m + 1, s, o)
           = TradedIn(t, m, s, o) + IF Trades(t[m], o) THEN TradedBy(t[m]) ELSE 0
<1> DEFINE S == TradesIn(t, m, s, o)
           R == TradesIn(t, m + 1, s, o)
           f == [i \in S |-> TradedBy(t[i])]
           g == [i \in R |-> TradedBy(t[i])]
<1>1. DOMAIN t = 1..Len(t) /\ Len(t) \in Nat /\ m \in Nat /\ m + 1 <= Len(t) + 1
  BY DEF Tape
<1>2. /\ IsFiniteSet(S) /\ f \in [S -> Int] /\ g \in [R -> Int]
      /\ TradedIn(t, m, s, o) \in Int
  BY <1>1, TradesType
<1>3. CASE Trades(t[m], o)
  <2>1. R = S \cup {m} /\ m \notin S
    BY <1>1, <1>3 DEF TradesIn
  <2>2. (\A i \in S : g[i] = f[i]) /\ g[m] = TradedBy(t[m])
    BY <2>1
  <2> HIDE DEF S, R, f, g
  <2>3. SumFunction(g) = g[m] + SumFunction(f) /\ SumFunction(f) \in Int
    BY <1>2, <2>1, <2>2, SumGrows, ZenonT(40)
  <2>4. TradedIn(t, m + 1, s, o) = SumFunction(g) /\ TradedIn(t, m, s, o) = SumFunction(f)
    BY DEF TradedIn, S, R, f, g
  <2>5. g[m] \in Int
    BY <1>2, <2>1
  <2>6. QED BY <1>3, <2>2, <2>3, <2>4, <2>5
<1>4. CASE ~Trades(t[m], o)
  <2>1. R = S
    BY <1>1, <1>4 DEF TradesIn
  <2>2. TradedIn(t, m + 1, s, o) = TradedIn(t, m, s, o)
    BY <2>1 DEF TradedIn
  <2>3. QED BY <1>2, <1>4, <2>2
<1>5. QED BY <1>3, <1>4

\* Later broadcasts change nothing.
LEMMA TradedLater ==
  ASSUME NEW t, NEW u, Grows(t, u), Len(t) \in Nat, NEW m \in Nat, m <= Len(t) + 1, NEW s, NEW o
  PROVE  TradedIn(u, m, s, o) = TradedIn(t, m, s, o)
<1>1. \A i \in 1..(m - 1) : u[i] = t[i]
  BY DEF Grows
<1>2. TradesIn(u, m, s, o) = TradesIn(t, m, s, o)
  BY <1>1 DEF TradesIn
<1>3. \A i \in TradesIn(t, m, s, o) : u[i] = t[i]
  BY <1>1 DEF TradesIn
<1>4. [i \in TradesIn(u, m, s, o) |-> TradedBy(u[i])]
        = [i \in TradesIn(t, m, s, o) |-> TradedBy(t[i])]
  BY <1>2, <1>3
<1>5. QED BY <1>4 DEF TradedIn

\* Nor do broadcasts that the session is not given.
LEMMA TradedSkips ==
  ASSUME NEW t, NEW m \in Nat, NEW n \in Nat, m <= n, NEW s, NEW o
  PROVE  TradedIn(t, n, s \cup m..(n - 1), o) = TradedIn(t, m, s, o)
<1>1. TradesIn(t, n, s \cup m..(n - 1), o) = TradesIn(t, m, s, o)
  BY DEF TradesIn
<1>2. QED BY <1>1 DEF TradedIn

\* What was parsed again is a number.
LEMMA RepeatsType ==
  ASSUME NEW M, NEW t \in Tape(M), NEW st \in Seq(DOMAIN t), NEW o
  PROVE  /\ IsFiniteSet(RepeatsIn(t, st, o))
         /\ \A k \in RepeatsIn(t, st, o) : st[k] \in DOMAIN t /\ TradedBy(t[st[k]]) \in Int
         /\ [k \in RepeatsIn(t, st, o) |-> TradedBy(t[st[k]])] \in [RepeatsIn(t, st, o) -> Int]
         /\ RepeatedIn(t, st, o) \in Int
<1> DEFINE S == RepeatsIn(t, st, o)
           f == [k \in S |-> TradedBy(t[st[k]])]
<1>1. DOMAIN st = 1..Len(st) /\ Len(st) \in Nat
  BY LenProperties
<1>2. IsFiniteSet(S)
  <2>1. IsFiniteSet(1..Len(st)) /\ S \subseteq 1..Len(st)
    BY <1>1, FS_Interval DEF RepeatsIn
  <2>2. QED BY <2>1, FS_Subset
<1>3. ASSUME NEW k \in S PROVE st[k] \in DOMAIN t /\ TradedBy(t[st[k]]) \in Int
  <2>1. k \in DOMAIN st /\ Has(t[st[k]], 34920)
    BY DEF RepeatsIn, Trades
  <2>2. PICK i \in DOMAIN t : i = st[k]
    BY <2>1, ElementOfSeq, <1>1
  <2>3. t[i] \in Seq(SubItem(Orders, M)) /\ WellFormedTrade(t[i])
    BY <2>1, <2>2 DEF Tape, TellsOne
  <2>4. LastOf(t[i], 34005).qty \in UInt32s /\ LastOf(t[i], 34902).left \in UInt32s
    BY <2>3, TradedType
  <2>5. QED BY <2>2, <2>4 DEF TradedBy, UInt32s
<1>4. f \in [S -> Int] /\ DOMAIN f = S
  BY <1>3
<1>5. SumFunction(f) \in Int
  <2> HIDE DEF S, f
  <2>1. Summable(f, S)
    BY <1>2, <1>4 DEF Summable
  <2>2. QED BY <1>4, <2>1, SumType DEF SumFunction
<1>6. QED BY <1>2, <1>3, <1>4, <1>5 DEF RepeatedIn

\* One broadcast parsed again.
LEMMA RepeatedNext ==
  ASSUME NEW M, NEW t \in Tape(M), NEW st \in Seq(DOMAIN t), NEW i \in DOMAIN t, NEW o
  PROVE  RepeatedIn(t, Append(st, i), o)
           = RepeatedIn(t, st, o) + IF Trades(t[i], o) THEN TradedBy(t[i]) ELSE 0
<1> DEFINE n == Len(st) + 1
           ts == Append(st, i)
           S == RepeatsIn(t, st, o)
           R == RepeatsIn(t, ts, o)
           f == [k \in S |-> TradedBy(t[st[k]])]
           g == [k \in R |-> TradedBy(t[ts[k]])]
<1>1. /\ Len(st) \in Nat /\ DOMAIN st = 1..Len(st) /\ DOMAIN ts = 1..n
      /\ ts[n] = i /\ \A k \in DOMAIN st : ts[k] = st[k]
      /\ ts \in Seq(DOMAIN t)
  <2> DEFINE D == DOMAIN t
  <2> HIDE DEF D
  <2>1. st \in Seq(D) /\ i \in D
    BY DEF D
  <2>2. /\ Append(st, i) \in Seq(D) /\ Len(Append(st, i)) = Len(st) + 1
        /\ \A k \in 1..Len(st) : Append(st, i)[k] = st[k]
        /\ Append(st, i)[Len(st) + 1] = i
    BY <2>1, AppendProperties
  <2>3. Len(st) \in Nat /\ DOMAIN st = 1..Len(st) /\ DOMAIN Append(st, i) = 1..Len(Append(st, i))
    BY <2>1, <2>2, LenProperties
  <2>4. QED BY <2>2, <2>3 DEF D
<1>2. /\ IsFiniteSet(S) /\ f \in [S -> Int] /\ g \in [R -> Int]
      /\ RepeatedIn(t, st, o) \in Int
  <2>1. g \in [R -> Int]
    <3> HIDE DEF ts
    <3> QED BY <1>1, RepeatsType
  <2>2. QED BY <2>1, RepeatsType
<1>3. CASE Trades(t[i], o)
  <2>1. R = S \cup {n} /\ n \notin S
    <3> HIDE DEF ts
    <3> QED BY <1>1, <1>3 DEF RepeatsIn
  <2>2. (\A k \in S : g[k] = f[k]) /\ g[n] = TradedBy(t[i])
    <3>1. \A k \in S : k \in DOMAIN st
      BY DEF RepeatsIn
    <3> HIDE DEF ts, S, R
    <3>2. QED BY <1>1, <2>1, <3>1
  <2> HIDE DEF S, R, f, g, n
  <2>5. g[n] \in Int
    BY <1>2, <2>1
  <2>6. g \in [S \cup {n} -> Int]
    BY <1>2, <2>1
  <2>3. SumFunction(g) = g[n] + SumFunction(f) /\ SumFunction(f) \in Int
    BY <1>2, <2>1, <2>2, <2>6, SumGrows, ZenonT(40)
  <2>4. RepeatedIn(t, ts, o) = SumFunction(g) /\ RepeatedIn(t, st, o) = SumFunction(f)
    BY DEF RepeatedIn, S, R, f, g
  <2>7. QED BY <1>3, <2>2, <2>3, <2>4, <2>5
<1>4. CASE ~Trades(t[i], o)
  <2>1. R = S /\ \A k \in S : k \in DOMAIN st
    <3> HIDE DEF ts
    <3> QED BY <1>1, <1>4 DEF RepeatsIn
  <2>2. g = f
    <3> HIDE DEF ts, S, R
    <3> QED BY <1>1, <2>1
  <2>3. RepeatedIn(t, ts, o) = RepeatedIn(t, st, o)
    BY <2>2 DEF RepeatedIn
  <2>4. QED BY <1>2, <1>4, <2>3
<1>5. QED BY <1>3, <1>4

\* Later broadcasts do not change that either.
LEMMA RepeatedLater ==
  ASSUME NEW t, NEW u, Grows(t, u), DOMAIN t = 1..Len(t), NEW st \in Seq(DOMAIN t), NEW o
  PROVE  RepeatedIn(u, st, o) = RepeatedIn(t, st, o)
<1>1. \A k \in DOMAIN st : u[st[k]] = t[st[k]]
  <2>1. ASSUME NEW k \in DOMAIN st PROVE u[st[k]] = t[st[k]]
    <3>1. st[k] \in DOMAIN t
      BY ElementOfSeq, LenProperties
    <3>2. QED BY <3>1 DEF Grows
  <2>2. QED BY <2>1
<1>2. RepeatsIn(u, st, o) = RepeatsIn(t, st, o)
  BY <1>1 DEF RepeatsIn
<1>3. [k \in RepeatsIn(u, st, o) |-> TradedBy(u[st[k]])]
        = [k \in RepeatsIn(t, st, o) |-> TradedBy(t[st[k]])]
  <2>1. \A k \in RepeatsIn(t, st, o) : u[st[k]] = t[st[k]]
    BY <1>1 DEF RepeatsIn
  <2>2. QED BY <1>2, <2>1
<1>4. QED BY <1>3 DEF RepeatedIn

\* What a response says was traded is a number.
LEMMA LastType ==
  ASSUME NEW R, NEW M, NEW p \in Published(R, M) PROVE p.last \in Int
BY UInt32RangeAssumption DEF Published, UInt32s

\* One response more in the queue.
LEMMA FilledAppend ==
  ASSUME NEW R, NEW M, NEW q \in Seq(Published(R, M)), NEW p \in Published(R, M), NEW o
  PROVE  /\ FilledIn(q, o) \in Int
         /\ FilledIn(Append(q, p), o)
              = FilledIn(q, o) + IF p.req = o /\ p.status \in Fills THEN p.last ELSE 0
<1> DEFINE n == Len(q) + 1
           r == Append(q, p)
           S == FillsIn(q, o)
           T == FillsIn(r, o)
           f == [k \in S |-> q[k].last]
           g == [k \in T |-> r[k].last]
<1>1. /\ Len(q) \in Nat /\ DOMAIN q = 1..Len(q) /\ DOMAIN r = 1..n
      /\ r[n] = p /\ \A k \in DOMAIN q : r[k] = q[k]
      /\ r \in Seq(Published(R, M))
  BY AppendProperties, LenProperties
<1>2. IsFiniteSet(S)
  <2>1. IsFiniteSet(1..Len(q)) /\ S \subseteq 1..Len(q)
    BY <1>1, FS_Interval DEF FillsIn
  <2>2. QED BY <2>1, FS_Subset
<1>3. \A k \in S : q[k] \in Published(R, M) /\ q[k].last \in Int
  BY <1>1, LastType DEF FillsIn
<1>4. \A k \in T : r[k] \in Published(R, M) /\ r[k].last \in Int
  BY <1>1, LastType DEF FillsIn
<1>5. f \in [S -> Int] /\ g \in [T -> Int] /\ DOMAIN f = S
  BY <1>3, <1>4
<1>6. FilledIn(q, o) = SumFunction(f) /\ FilledIn(r, o) = SumFunction(g)
  BY DEF FilledIn
<1>7. SumFunction(f) \in Int
  <2> HIDE DEF S, f
  <2>1. Summable(f, S)
    BY <1>2, <1>5 DEF Summable
  <2>2. QED BY <1>5, <2>1, SumType DEF SumFunction
<1>8. CASE p.req = o /\ p.status \in Fills
  <2>1. T = S \cup {n} /\ n \notin S
    BY <1>1, <1>8 DEF FillsIn
  <2>2. (\A k \in S : g[k] = f[k]) /\ g[n] = p.last
    BY <1>1, <2>1 DEF FillsIn
  <2>3. g[n] \in Int
    BY <1>5, <2>1
  <2> HIDE DEF S, T, f, g, n, r
  <2>6. g \in [S \cup {n} -> Int]
    BY <1>5, <2>1
  <2>7. /\ IsFiniteSet(S) /\ f \in [S -> Int] /\ n \notin S
        /\ g \in [S \cup {n} -> Int] /\ \A k \in S : g[k] = f[k]
    BY <1>2, <1>5, <2>1, <2>2, <2>6
  <2>4. SumFunction(g) = g[n] + SumFunction(f) /\ SumFunction(f) \in Int
    BY <2>7, SumGrows
  <2>5. QED BY <1>6, <1>7, <1>8, <2>2, <2>3, <2>4 DEF r
<1>9. CASE ~(p.req = o /\ p.status \in Fills)
  <2>1. T = S
    BY <1>1, <1>9 DEF FillsIn
  <2>2. g = f
    BY <1>1, <2>1 DEF FillsIn
  <2> HIDE DEF S, T, f, g, n
  <2>3. QED BY <1>6, <1>7, <1>9, <2>2
<1>10. QED BY <1>6, <1>7, <1>8, <1>9

\* One response less.
LEMMA FilledTail ==
  ASSUME NEW R, NEW M, NEW q \in Seq(Published(R, M)), q # <<>>, NEW o
  PROVE  /\ FilledIn(q, o) \in Int /\ FilledIn(Tail(q), o) \in Int
         /\ FilledIn(q, o)
              = FilledIn(Tail(q), o)
                + IF Head(q).req = o /\ Head(q).status \in Fills THEN Head(q).last ELSE 0
<1> DEFINE r == Tail(q)
           p == Head(q)
           N == Len(r)
           S == FillsIn(r, o)
           T == FillsIn(q, o)
           later == {k \in T : k # 1}
           f == [k \in S |-> r[k].last]
           g == [k \in T |-> q[k].last]
           d == [k \in later |-> q[k].last]
           h == [k \in S |-> k + 1]
<1>1. /\ N \in Nat /\ DOMAIN r = 1..N /\ DOMAIN q = 1..(N + 1)
      /\ p = q[1] /\ \A k \in 1..N : r[k] = q[k + 1]
      /\ r \in Seq(Published(R, M)) /\ p \in Published(R, M)
  BY HeadTailProperties, LenProperties
<1>2. IsFiniteSet(S) /\ IsFiniteSet(later)
  <2>1. /\ IsFiniteSet(1..N) /\ IsFiniteSet(1..(N + 1))
        /\ S \subseteq 1..N /\ later \subseteq 1..(N + 1)
    BY <1>1, FS_Interval DEF FillsIn
  <2>2. QED BY <2>1, FS_Subset
<1>3. \A k \in S : r[k] \in Published(R, M) /\ r[k].last \in Int
  BY <1>1, LastType DEF FillsIn
<1>4. \A k \in T : q[k] \in Published(R, M) /\ q[k].last \in Int
  BY <1>1, LastType DEF FillsIn
<1>5. f \in [S -> Int] /\ g \in [T -> Int] /\ d \in [later -> Int] /\ DOMAIN f = S
  BY <1>3, <1>4
<1>6. FilledIn(r, o) = SumFunction(f) /\ FilledIn(q, o) = SumFunction(g)
  BY DEF FilledIn
<1>7. /\ h \in [S -> later]
      /\ \A x, y \in S : h[x] = h[y] => x = y
      /\ \A k \in later : \E x \in S : h[x] = k
  <2>1. DOMAIN h = S /\ h = [x \in S |-> h[x]] /\ \A x, y \in S : h[x] = h[y] => x = y
    BY <1>1 DEF FillsIn
  <2>2. ASSUME NEW x \in S PROVE h[x] \in later
    BY <1>1 DEF FillsIn
  <2>3. ASSUME NEW k \in later PROVE k - 1 \in S /\ h[k - 1] = k
    <3>1. k \in 1..(N + 1) /\ k # 1 /\ q[k].req = o /\ q[k].status \in Fills
      BY <1>1 DEF FillsIn
    <3>2. k - 1 \in 1..N /\ (k - 1) + 1 = k
      BY <1>1, <3>1
    <3>3. r[k - 1] = q[k]
      BY <1>1, <3>2
    <3>4. k - 1 \in S
      BY <1>1, <3>1, <3>2, <3>3 DEF FillsIn
    <3>5. QED BY <3>2, <3>4
  <2> HIDE DEF S, later, h
  <2>4. QED BY <2>1, <2>2, <2>3
<1>8. \A x \in S : d[h[x]] = f[x]
  BY <1>1, <1>7 DEF FillsIn
<1>9. SumFunction(d) = SumFunction(f) /\ SumFunction(d) \in Int
  <2> HIDE DEF S, T, later, f, d, h
  <2>4. h \in Bijection(S, later)
    BY <1>7 DEF Bijection, Injection, Surjection, IsInjective
  <2>5. /\ IsFiniteSet(S) /\ f \in [S -> Int] /\ d \in [later -> Int]
        /\ \A x \in S : d[h[x]] = f[x]
    BY <1>2, <1>5, <1>8
  <2>1. SumFunction(d) = SumFunction(f)
    BY <2>4, <2>5, SumRenamed
  <2>2. Summable(f, S)
    BY <1>2, <1>5 DEF Summable
  <2>3. QED BY <1>5, <2>1, <2>2, SumType DEF SumFunction
<1>10. CASE p.req = o /\ p.status \in Fills
  <2>1. T = later \cup {1} /\ 1 \notin later
    BY <1>1, <1>10 DEF FillsIn
  <2>2. (\A k \in later : g[k] = d[k]) /\ g[1] = p.last
    BY <1>1, <2>1
  <2>3. g[1] \in Int
    BY <1>5, <2>1
  <2> HIDE DEF S, T, later, f, g, d, h, r, p
  <2>6. g \in [later \cup {1} -> Int]
    BY <1>5, <2>1
  <2>7. /\ IsFiniteSet(later) /\ d \in [later -> Int] /\ 1 \notin later
        /\ g \in [later \cup {1} -> Int] /\ \A k \in later : g[k] = d[k]
    BY <1>2, <1>5, <2>1, <2>2, <2>6
  <2>4. SumFunction(g) = g[1] + SumFunction(d) /\ SumFunction(d) \in Int
    BY <2>7, SumGrows
  <2>5. QED BY <1>6, <1>9, <1>10, <2>2, <2>3, <2>4 DEF r, p
<1>11. CASE ~(p.req = o /\ p.status \in Fills)
  <2>1. T = later
    BY <1>1, <1>11 DEF FillsIn
  <2>2. g = d
    BY <2>1
  <2> HIDE DEF S, T, later, f, g, d, h, r, p
  <2>3. QED BY <1>6, <1>9, <1>11, <2>2 DEF r, p
<1>12. QED BY <1>10, <1>11

-----------------------------------------------------------------------------
(* What the exchange broadcasts: trades one by one, with no more left than  *)
(* was entered, and deletions.                                             *)

TapeTells(t) == \A i \in DOMAIN t : TellsOne(t[i])
BookFits(b) == \A n \in DOMAIN b : b[n].leaves <= b[n].qty

NewsInv == TapeTells(tape) /\ BookFits(book)

\* The broadcast of a trade tells of that one.
LEMMA TradeNewsTells ==
  ASSUME NEW n \in Int, NEW req \in Orders, NEW qty \in UInt32s, NEW left \in UInt32s,
         NEW lots \in Nat, lots <= qty - left
  PROVE  TellsOne(TradeNews(n, req, qty, left, lots))
<1> DEFINE items == TradeNews(n, req, qty, left, lots)
<1>0. qty \in Nat /\ left \in Nat /\ left <= qty
  <2>1. qty \in Nat /\ left \in Nat
    BY UInt32sAreNat
  <2>2. QED BY <2>1
<1>1. items \in Seq(SubItem(Orders, {n}))
  BY TradeNewsType
<1>2. /\ ReturnInfo(1, n).struct = 34904 /\ OrderTrans(req, qty).struct = 34005
      /\ OrderChange(left).struct = 34902 /\ TradeInfo(1, lots).struct = 34920
      /\ OrderTrans(req, qty).qty = qty /\ OrderChange(left).left = left
      /\ TradeInfo(1, lots).lots = lots
  BY DEF ReturnInfo, OrderTrans, OrderChange, TradeInfo
<1>3. items = <<ReturnInfo(1, n), OrderTrans(req, qty), OrderChange(left), TradeInfo(1, lots)>>
  BY DEF TradeNews
<1>4. /\ DOMAIN items = 1 .. 4
      /\ items[1].struct = 34904 /\ items[2].struct = 34005 /\ items[3].struct = 34902
      /\ items[4].struct = 34920 /\ items[2].qty = qty /\ items[3].left = left
      /\ items[4].lots = lots
  BY <1>2, <1>3
<1> HIDE DEF items
<1>5. \A s \in {34005, 34902, 34920} : Has(items, s) /\ Once(items, s)
  BY <1>4 DEF Has, Once
<1>6. Precedes(items, 34005, 34902) /\ Precedes(items, 34011, 34902) /\ ~Has(items, 34009)
  BY <1>4 DEF Precedes, Has
<1>7. /\ LastOf(items, 34005) = items[2] /\ LastOf(items, 34902) = items[3]
      /\ LastOf(items, 34920) = items[4]
  <2>1. Once(items, 34005) /\ Once(items, 34902) /\ Once(items, 34920)
    BY <1>5
  <2>2. LastOf(items, 34005) = items[2]
    BY <1>1, <1>4, <2>1, LastOfOnce
  <2>3. LastOf(items, 34902) = items[3]
    BY <1>1, <1>4, <2>1, LastOfOnce
  <2>5. LastOf(items, 34920) = items[4]
    BY <1>1, <1>4, <2>1, LastOfOnce
  <2>4. QED BY <2>2, <2>3, <2>5
<1>8. WellFormedTrade(items)
  BY <1>0, <1>4, <1>5, <1>6, <1>7 DEF WellFormedTrade
<1>10. LastOf(items, 34920).lots \in 0..TradedBy(items)
  BY <1>0, <1>4, <1>7 DEF TradedBy
<1>9. QED BY <1>8, <1>10 DEF TellsOne, items

\* That of a deletion tells of no trade.
LEMMA DeleteNewsTells ==
  ASSUME NEW n \in Int PROVE TellsOne(DeleteNews(n))
<1>1. ReturnInfo(1, n).struct = 34904 /\ DeleteTrans(n).struct = 34011
  BY DEF ReturnInfo, DeleteTrans
<1>2. DeleteNews(n) = <<ReturnInfo(1, n), DeleteTrans(n)>>
  BY DEF DeleteNews
<1>3. ~Has(DeleteNews(n), 34920)
  BY <1>1, <1>2 DEF Has
<1>4. QED BY <1>3 DEF TellsOne

\* An entry more, or another in its place.
LEMMA EntryFits ==
  ASSUME NEW b \in Seq(Entries), BookFits(b), NEW e \in Entries, e.leaves <= e.qty
  PROVE  /\ BookFits(Append(b, e))
         /\ \A n \in DOMAIN b : BookFits([b EXCEPT ![n] = e])
<1>1. /\ Len(Append(b, e)) = Len(b) + 1 /\ Len(b) \in Nat
      /\ \A i \in 1 .. Len(b) : Append(b, e)[i] = b[i]
      /\ Append(b, e)[Len(b) + 1] = e
      /\ DOMAIN Append(b, e) = 1 .. Len(b) + 1 /\ DOMAIN b = 1 .. Len(b)
  BY AppendProperties, LenProperties
<1>2. BookFits(Append(b, e))
  BY <1>1 DEF BookFits
<1>3. QED BY <1>2 DEF BookFits

\* A new order.
LEMMA EnterTells ==
  ASSUME book \in Seq(Entries), BookFits(book), NEW o \in OrderPod,
         NEW outcome \in EnterOutcomes(o)
  PROVE  TapeTells(outcome.news) /\ BookFits(outcome.book)
<1> DEFINE n == Len(book) + 1
           e == Entry(o, o.qty - 1)
           gone == [e EXCEPT !.leaves = 0]
           oneLot == TradeNews(n, o.req, o.qty, o.qty - 1, 1)
<1>1. o.req \in Orders /\ o.qty \in UInt32s /\ o.qty \in Nat /\ o.qty > 0
  BY QtyType DEF OrderPod
<1>2. n \in Int
  BY LenProperties
<1>3. 0 \in UInt32s /\ o.qty - 1 \in UInt32s
  BY <1>1, UInt32RangeAssumption DEF UInt32s
<1>4. ASSUME NEW q \in {0, o.qty - 1, o.qty} PROVE BookFits(Append(book, Entry(o, q)))
  <2>1. q \in UInt32s /\ q <= o.qty /\ o.qty - q \in Int
    BY <1>1, <1>3
  <2>2. Entry(o, q) \in Entries /\ Entry(o, q).leaves <= Entry(o, q).qty
    BY <1>1, <2>1 DEF Entry, Entries
  <2>3. QED BY <2>2, EntryFits
<1>5. BookFits(Append(book, gone))
  <2>1. gone = [req |-> o.req, qty |-> o.qty, leaves |-> 0, traded |-> o.qty - (o.qty - 1)]
    BY DEF Entry
  <2>2. o.qty - (o.qty - 1) \in Int
    BY <1>1
  <2> HIDE DEF gone
  <2>3. gone \in Entries /\ gone.leaves <= gone.qty
    <3>1. 0 <= o.qty
      BY <1>1
    <3>2. PICK t \in Int : t = o.qty - (o.qty - 1)
      BY <2>2
    <3>3. gone = [req |-> o.req, qty |-> o.qty, leaves |-> 0, traded |-> t]
      BY <2>1, <3>2
    <3>4. gone \in Entries
      BY <1>1, <1>3, <3>3 DEF Entries
    <3>5. gone.leaves = 0 /\ gone.qty = o.qty
      BY <3>3
    <3>6. QED BY <3>1, <3>4, <3>5
  <2>4. QED BY <2>3, EntryFits
<1>6. /\ TellsOne(TradeNews(n, o.req, o.qty, 0, o.qty)) /\ TellsOne(oneLot) /\ TellsOne(DeleteNews(n))
  <2>1. o.qty <= o.qty - 0 /\ 1 <= o.qty - (o.qty - 1)
    BY <1>1
  <2> HIDE DEF n
  <2>2. TellsOne(TradeNews(n, o.req, o.qty, 0, o.qty)) /\ TellsOne(DeleteNews(n))
    BY <1>1, <1>2, <1>3, <2>1, TradeNewsTells, DeleteNewsTells
  <2>3. PICK q : q = o.qty - 1
    OBVIOUS
  <2>4. TellsOne(TradeNews(n, o.req, o.qty, q, 1))
    <3>1. q \in UInt32s /\ 1 <= o.qty - q
      BY <1>3, <2>1, <2>3
    <3>2. QED BY <1>1, <1>2, <3>1, TradeNewsTells
  <2>5. QED BY <2>2, <2>3, <2>4
<1>7. /\ TapeTells(<<>>) /\ TapeTells(<<TradeNews(n, o.req, o.qty, 0, o.qty)>>)
      /\ TapeTells(<<oneLot>>) /\ TapeTells(<<oneLot, DeleteNews(n)>>)
  <2> DEFINE all == TradeNews(n, o.req, o.qty, 0, o.qty)
             end == DeleteNews(n)
  <2> HIDE DEF oneLot, all, end
  <2>1. TapeTells(<<>>) /\ TapeTells(<<all>>) /\ TapeTells(<<oneLot>>) /\ TapeTells(<<oneLot, end>>)
    <3>1. TellsOne(all) /\ TellsOne(oneLot) /\ TellsOne(end)
      BY <1>6 DEF all, oneLot, end
    <3>2. QED BY <3>1 DEF TapeTells
  <2>2. QED BY <2>1 DEF all, oneLot, end
<1>8. \/ outcome.news = <<>> /\ outcome.book \in {book, Append(book, Entry(o, o.qty))}
      \/ /\ outcome.news = <<TradeNews(n, o.req, o.qty, 0, o.qty)>>
         /\ outcome.book = Append(book, Entry(o, 0))
      \/ outcome.news = <<oneLot>> /\ outcome.book = Append(book, Entry(o, o.qty - 1))
      \/ outcome.news = <<oneLot, DeleteNews(n)>> /\ outcome.book = Append(book, gone)
  <2> HIDE DEF oneLot
  <2>1. outcome \in { Outcome(Done(4, n), Append(book, Entry(o, o.qty)), <<>>),
                      Outcome(Done(2, n), Append(book, Entry(o, 0)),
                              <<TradeNews(n, o.req, o.qty, 0, o.qty)>>),
                      Outcome(Done(1, 0), book, <<>>),
                      Outcome(Refused, book, <<>>),
                      Outcome(Done(6, n), Append(book, Entry(o, o.qty - 1)), <<oneLot>>),
                      Outcome(Done(3, n), Append(book, gone), <<oneLot, DeleteNews(n)>>) }
    BY DEF EnterOutcomes, oneLot
  <2> HIDE DEF gone, n
  <2>2. QED BY <2>1 DEF Outcome
<1> HIDE DEF oneLot, gone, n
<1>9. QED BY <1>4, <1>5, <1>7, <1>8

\* An alteration or a deletion.
LEMMA ChangeTells ==
  ASSUME book \in Seq(Entries), BookFits(book), NEW o \in OrderPod,
         NEW outcome \in AlterOutcomes(o) \cup DeleteOutcomes(o)
  PROVE  TapeTells(outcome.news) /\ BookFits(outcome.book)
<1>1. o.qty \in UInt32s /\ o.qty \in Nat /\ o.num \in Int
  BY QtyType DEF OrderPod
<1>2. TapeTells(<<>>)
  BY DEF TapeTells
<1>3. CASE outcome \in NotFound
  <2>1. outcome.book = book /\ outcome.news = <<>>
    BY <1>3 DEF NotFound, Outcome
  <2>2. QED BY <1>2, <2>1
<1>4. ASSUME NEW q \in UInt32s, NEW l \in {0, q}, Live(o.num)
      PROVE  /\ BookFits([book EXCEPT ![o.num].qty = q, ![o.num].leaves = q])
             /\ BookFits([book EXCEPT ![o.num].leaves = 0])
  <2> DEFINE n == o.num
             c == [book[n] EXCEPT !.qty = q, !.leaves = q]
             d == [book[n] EXCEPT !.leaves = 0]
  <2>1. n \in DOMAIN book /\ book[n] \in Entries
    BY <1>4, BookEntry DEF Live
  <2>2. q \in Nat /\ book[n].qty \in Nat /\ 0 \in UInt32s
    BY <2>1, BookEntry, UInt32sAreNat
  <2>3. c \in Entries /\ c.leaves <= c.qty
    <3>1. c \in Entries /\ c.leaves = q /\ c.qty = q
      BY <2>1, <2>2 DEF Entries
    <3>2. QED BY <2>2, <3>1
  <2>6. d \in Entries /\ d.leaves <= d.qty
    <3>1. d \in Entries /\ d.leaves = 0 /\ d.qty = book[n].qty
      BY <2>1, <2>2 DEF Entries
    <3>2. QED BY <2>2, <3>1
  <2>4. /\ [book EXCEPT ![n].qty = q, ![n].leaves = q] = [book EXCEPT ![n] = c]
        /\ [book EXCEPT ![n].leaves = 0] = [book EXCEPT ![n] = d]
    BY <2>1
  <2> HIDE DEF c, d
  <2>5. QED BY <2>1, <2>3, <2>4, <2>6, EntryFits, ZenonT(40)
<1>5. CASE Live(o.num)
  <2>1. \/ /\ outcome.book = [book EXCEPT ![o.num].qty = o.qty, ![o.num].leaves = o.qty]
           /\ outcome.news = <<>>
        \/ /\ outcome.book = [book EXCEPT ![o.num].leaves = 0]
           /\ outcome.news = <<DeleteNews(o.num)>>
    <3>1. CASE outcome \in DeleteOutcomes(o)
      <4>1. PICK txstatus \in {0, book[o.num].leaves} :
              outcome = Outcome(Done(txstatus, TxId),
                                [book EXCEPT ![o.num].leaves = 0], <<DeleteNews(o.num)>>)
        BY <1>5, <3>1 DEF DeleteOutcomes
      <4>2. QED BY <4>1 DEF Outcome
    <3>2. CASE outcome \in AlterOutcomes(o)
      <4>1. outcome = Outcome(Done(book[o.num].leaves, TxId),
                         [book EXCEPT ![o.num].qty = o.qty, ![o.num].leaves = o.qty], <<>>)
        BY <1>5, <3>2 DEF AlterOutcomes
      <4>2. QED BY <4>1 DEF Outcome
    <3>3. QED BY <3>1, <3>2
  <2>2. TapeTells(<<DeleteNews(o.num)>>)
    <3>1. TellsOne(DeleteNews(o.num))
      BY <1>1, DeleteNewsTells
    <3>2. QED BY <3>1 DEF TapeTells
  <2>3. QED BY <1>1, <1>2, <1>4, <1>5, <2>1, <2>2
<1>6. QED BY <1>3, <1>5 DEF AlterOutcomes, DeleteOutcomes

\* The market.
LEMMA MarketTells ==
  ASSUME ExchTypes, NewsInv, Market PROVE NewsInv'
<1>1. PICK n \in DOMAIN book : MarketTrade(n) \/ MarketDelete(n)
  BY DEF Market
<1>2. /\ book \in Seq(Entries) /\ book[n] \in Entries /\ n \in Int
      /\ book[n].leaves \in Nat /\ book[n].leaves > 0 /\ book[n].leaves \in UInt32s
      /\ book[n].qty \in UInt32s /\ book[n].req \in Orders /\ book[n].traded \in Int
      /\ book[n].leaves <= book[n].qty /\ book[n].qty \in Nat
  <2>1. book \in Seq(Entries) /\ book[n].leaves > 0 /\ book[n].leaves <= book[n].qty
    BY <1>1 DEF MarketTrade, MarketDelete, Live, ExchTypes, NewsInv, BookFits
  <2>2. QED BY <2>1, BookEntry, UInt32sAreNat
<1>3. ASSUME NEW items, TellsOne(items), tape' = Append(tape, items) PROVE TapeTells(tape')
  <2> DEFINE T == Seq(SubItem(Orders, NumbersOf(book))) \cup {items}
  <2>1. tape \in Seq(T)
    <3> DEFINE R == Seq(SubItem(Orders, NumbersOf(book)))
    <3>1. tape \in Seq(R) /\ R \subseteq T
      BY DEF ExchTypes
    <3> HIDE DEF R, T
    <3>2. QED BY <3>1, SeqMonotone
  <2>2. items \in T
    OBVIOUS
  <2> HIDE DEF T
  <2>3. /\ DOMAIN Append(tape, items) = 1 .. Len(tape) + 1 /\ DOMAIN tape = 1 .. Len(tape)
        /\ Append(tape, items)[Len(tape) + 1] = items /\ Len(tape) \in Nat
        /\ \A i \in 1 .. Len(tape) : Append(tape, items)[i] = tape[i]
    BY <2>1, <2>2, AppendProperties, LenProperties
  <2>4. QED BY <1>3, <2>3 DEF NewsInv, TapeTells
<1>4. CASE MarketTrade(n)
  <2>1. PICK traded \in {1, book[n].leaves}, named \in {book[n].qty, book[n].leaves} :
          LET left == book[n].leaves - traded IN
          /\ book' = [book EXCEPT ![n].leaves = left, ![n].traded = @ + traded]
          /\ tape' = Append(tape, TradeNews(n, book[n].req, named, left, traded))
    BY <1>4 DEF MarketTrade
  <2> DEFINE left == book[n].leaves - traded
             sum == book[n].traded + traded
             e == [book[n] EXCEPT !.leaves = left, !.traded = sum]
  <2>2. /\ left \in Nat /\ left <= book[n].leaves /\ left <= book[n].qty /\ sum \in Int
        /\ traded \in Nat /\ traded <= named - left /\ named \in UInt32s
    BY <1>2
  <2>3. left \in UInt32s
    <3> HIDE DEF left
    <3> QED BY <1>2, <2>2, UInt32sAreNat
  <2>4. /\ book' = [book EXCEPT ![n] = e]
        /\ tape' = Append(tape, TradeNews(n, book[n].req, named, left, traded))
    BY <1>2, <2>1
  <2> HIDE DEF left, sum
  <2>5. e \in Entries /\ e.leaves <= e.qty
    BY <1>2, <2>2, <2>3 DEF Entries
  <2> HIDE DEF e
  <2>6. BookFits(book')
    BY <1>2, <2>4, <2>5, EntryFits DEF NewsInv
  <2>7. TellsOne(TradeNews(n, book[n].req, named, left, traded))
    BY <1>2, <2>2, <2>3, TradeNewsTells
  <2>8. TapeTells(tape')
    BY <1>3, <2>4, <2>7
  <2>9. QED BY <2>6, <2>8 DEF NewsInv
<1>5. CASE MarketDelete(n)
  <2> DEFINE e == [book[n] EXCEPT !.leaves = 0]
  <2>1. book' = [book EXCEPT ![n] = e] /\ tape' = Append(tape, DeleteNews(n))
    BY <1>2, <1>5 DEF MarketDelete
  <2>2. e \in Entries /\ e.leaves <= e.qty
    <3>1. e \in Entries /\ e.leaves = 0 /\ e.qty = book[n].qty
      BY <1>2, UInt32sAreNat DEF Entries
    <3>2. QED BY <1>2, <3>1
  <2> HIDE DEF e
  <2>3. BookFits(book')
    BY <1>2, <2>1, <2>2, EntryFits DEF NewsInv
  <2>4. TellsOne(DeleteNews(n))
    BY <1>2, DeleteNewsTells
  <2>5. TapeTells(tape')
    BY <1>3, <2>1, <2>4
  <2>6. QED BY <2>3, <2>5 DEF NewsInv
<1>6. QED BY <1>1, <1>4, <1>5

\* A worker's transaction.
LEMMA HearsTells ==
  ASSUME TypesInv, NewsInv, NEW w \in Workers, Hears(w) PROVE NewsInv'
<1>1. PICK outcome \in Outcomes(cur[w]) : book' = outcome.book /\ tape' = tape \o outcome.news
  BY DEF Hears
<1>2. PICK o : o = cur[w]
  OBVIOUS
<1>3. o \in OrderPod /\ o.act \in Acts
  <2>1. o \in Pods(NumbersOf(book))
    BY <1>2 DEF Hears, TypesInv, FlowTypes, HandPlace
  <2>2. QED BY <2>1, PodType
<1>4. book \in Seq(Entries) /\ BookFits(book) /\ TapeTells(tape)
  BY DEF TypesInv, ExchTypes, NewsInv
<1>5. /\ outcome.news \in Seq(Seq(SubItem(Orders, NumbersOf(outcome.book))))
      /\ NumbersOf(book) \subseteq NumbersOf(outcome.book)
      /\ TapeTells(outcome.news) /\ BookFits(outcome.book)
  <2>1. CASE o.act = "NEW"
    <3>1. outcome \in EnterOutcomes(o)
      BY <1>1, <1>2, <2>1 DEF Outcomes
    <3>2. /\ outcome.news \in Seq(Seq(SubItem(Orders, NumbersOf(outcome.book))))
          /\ Extends(book, outcome.book)
      BY <1>3, <1>4, <3>1, EnterKeeps
    <3>3. TapeTells(outcome.news) /\ BookFits(outcome.book)
      BY <1>3, <1>4, <3>1, EnterTells
    <3>4. QED BY <3>2, <3>3, MoreNumbersInBook
  <2>2. CASE o.act # "NEW"
    <3>1. outcome \in AlterOutcomes(o) \cup DeleteOutcomes(o)
      BY <1>1, <1>2, <1>3, <2>2 DEF Outcomes, Acts
    <3>2. /\ outcome.news \in Seq(Seq(SubItem(Orders, NumbersOf(outcome.book))))
          /\ Extends(book, outcome.book)
      BY <1>3, <1>4, <3>1, ChangeKeeps
    <3>3. TapeTells(outcome.news) /\ BookFits(outcome.book)
      BY <1>3, <1>4, <3>1, ChangeTells
    <3>4. QED BY <3>2, <3>3, MoreNumbersInBook
  <2>3. QED BY <2>1, <2>2
<1>6. TapeTells(tape \o outcome.news)
  <2> DEFINE T == Seq(SubItem(Orders, NumbersOf(outcome.book)))
             news == outcome.news
  <2>1. tape \in Seq(T) /\ news \in Seq(T)
    BY <1>5, TapeLifts DEF TypesInv, ExchTypes
  <2>0. TapeTells(news)
    BY <1>5
  <2> HIDE DEF T, news
  <2>2. /\ tape \o news \in Seq(T) /\ Len(tape \o news) = Len(tape) + Len(news)
        /\ \A i \in 1 .. Len(tape) : (tape \o news)[i] = tape[i]
        /\ \A j \in 1 .. Len(news) : (tape \o news)[Len(tape) + j] = news[j]
        /\ Len(tape) \in Nat /\ Len(news) \in Nat
    BY <2>1, ConcatProperties
  <2>3. /\ DOMAIN (tape \o news) = 1 .. Len(tape) + Len(news)
        /\ DOMAIN tape = 1 .. Len(tape) /\ DOMAIN news = 1 .. Len(news)
    BY <2>1, <2>2, LenProperties
  <2>4. ASSUME NEW i \in DOMAIN (tape \o news) PROVE TellsOne((tape \o news)[i])
    <3>1. CASE i <= Len(tape)
      BY <1>4, <2>2, <2>3, <3>1 DEF TapeTells
    <3>2. CASE i > Len(tape)
      <4>1. i - Len(tape) \in 1 .. Len(news) /\ Len(tape) + (i - Len(tape)) = i
        BY <2>2, <2>3, <3>2
      <4>2. (tape \o news)[i] = news[i - Len(tape)]
        BY <2>2, <4>1
      <4>3. QED BY <2>0, <2>3, <4>1, <4>2 DEF TapeTells
    <3>3. QED BY <2>2, <2>3, <3>1, <3>2
  <2>5. QED BY <2>4 DEF TapeTells, news
<1>7. QED BY <1>1, <1>5, <1>6 DEF NewsInv

\* Every broadcast tells of one trade or of none, in every state.
LEMMA AlwaysTells == Spec => []NewsInv
<1>1. Init => NewsInv
  BY DEF Init, ExchInit, NewsInv, TapeTells, BookFits
<1>2. TypesInv /\ NewsInv /\ [Next]_vars => NewsInv'
  <2> SUFFICES ASSUME TypesInv, NewsInv, [Next]_vars PROVE NewsInv'
    OBVIOUS
  <2>1. CASE UNCHANGED exchVars
    BY <2>1 DEF exchVars, NewsInv
  <2>2. CASE Market
    BY <2>2, MarketTells DEF TypesInv
  <2>3. ASSUME NEW w \in Workers, Transmit(w), UNCHANGED <<bdxVars, handlerVars, clientVars>>
        PROVE  NewsInv'
    <3>1. Hears(w)
      BY <2>3 DEF Transmit, Goto, Hears, queueVars, handlerVars, clientVars, SendVars
    <3>2. QED BY <3>1, HearsTells
  <2>4. QED BY <2>1, <2>2, <2>3, ExchMoves
<1>3. QED BY <1>1, <1>2, AlwaysTyped, PTL DEF Spec

-----------------------------------------------------------------------------
(* The workers' responses are answers given, and what the client was told   *)
(* of an order stays told.                                                 *)

\* a is in the sequence q.
Among(a, q) == \E j \in DOMAIN q : q[j] = a
RespInv ==
  \A w \in Workers :
    \A i \in DOMAIN respQ[w] : Among(respQ[w][i], answers[Request(respQ[w][i])])

\* No answer to a request of the order is a fill.
Silent(o) ==
  \A act \in Acts :
    \A i \in DOMAIN answers[<<o, act>>] : ~IsFill(answers[<<o, act>>][i])

\* An answer given is added to those given before.
LEMMA AnswerAdds ==
  ASSUME NEW N, FlowTypes(N), NEW w \in Workers, NEW a \in OrderPod, Responds(w, a)
  PROVE  /\ \A r \in Requests : \A i \in DOMAIN answers[r] :
              i \in DOMAIN answers'[r] /\ answers'[r][i] = answers[r][i]
         /\ Among(a, answers'[Request(a)])
<1>1. answers \in [Requests -> Seq(Pods(N))] /\ Request(a) \in Requests
  BY PodIsOrder DEF FlowTypes
<1> DEFINE q == answers[Request(a)]
           p == Append(q, a)
<1>2. answers' = [answers EXCEPT ![Request(a)] = p]
  BY DEF Responds
<1>3. q \in Seq(Pods(N) \cup {a})
  <2>1. Pods(N) \subseteq Pods(N) \cup {a}
    OBVIOUS
  <2>2. QED BY <1>1, <2>1, SeqMonotone
<1>4. /\ DOMAIN p = 1 .. Len(q) + 1 /\ DOMAIN q = 1 .. Len(q) /\ Len(q) \in Nat
      /\ p[Len(q) + 1] = a /\ \A i \in 1 .. Len(q) : p[i] = q[i]
  <2> HIDE DEF q
  <2> QED BY <1>3, AppendProperties, LenProperties
<1>5. (\A i \in DOMAIN q : i \in DOMAIN p /\ p[i] = q[i]) /\ Among(a, p)
  <2> HIDE DEF q, p
  <2> QED BY <1>4 DEF Among
<1>6. answers'[Request(a)] = p /\ \A r \in Requests : r # Request(a) => answers'[r] = answers[r]
  <2> HIDE DEF p
  <2> QED BY <1>1, <1>2
<1> HIDE DEF p
<1>7. QED BY <1>1, <1>5, <1>6

\* What a step does to the responses and the answers.
LEMMA ResponsesMove ==
  ASSUME Flow
  PROVE  \/ UNCHANGED <<respQ, answers>>
         \/ /\ at \in Workers /\ respQ[at] # <<>>
            /\ respQ' = [respQ EXCEPT ![at] = Tail(@)] /\ UNCHANGED answers
         \/ \E w \in Workers : orderQ[w] # <<>> /\ Responds(w, Rejected(Head(orderQ[w])))
         \/ \E w \in Workers, a \in OrderPod : Responds(w, a)
<1>1. CASE Rests
  BY <1>1 DEF Rests, HandVars
<1>2. ASSUME NEW w \in Workers, WorkerFlow(w)
      PROVE  \/ UNCHANGED <<respQ, answers>>
             \/ orderQ[w] # <<>> /\ Responds(w, Rejected(Head(orderQ[w])))
             \/ \E a \in OrderPod : Responds(w, a)
  <2>1. CASE (\E pc \in PCs : Moves(w, pc)) \/ Takes(w) \/ Hears(w) \/ Repeats(w) \/ Defers(w)
             \/ Loses(w)
    BY <2>1 DEF Moves, Takes, Hears, Repeats, Defers, Loses, queueVars
  <2>2. CASE TurnsDown(w) \/ \E a \in OrderPod : Answers(w, a)
    BY <2>2, AnswerCases DEF TurnsDown, Answers, Drops
  <2>3. QED BY <1>2, <2>1, <2>2 DEF WorkerFlow
<1>3. CASE SendFlow
  BY <1>3 DEF SendFlow, Begins, Refuses, Queues, queueVars, HandVars
<1>4. QED BY <1>1, <1>2, <1>3 DEF Flow

\* An order of a queue is one that can be rejected.
LEMMA RejectedHead ==
  ASSUME NEW N, FlowTypes(N), NEW w \in Workers, orderQ[w] # <<>>
  PROVE  Rejected(Head(orderQ[w])) \in OrderPod
<1>1. orderQ[w] \in Seq(Pods(N))
  BY DEF FlowTypes
<1>2. Head(orderQ[w]) \in Pods(N)
  BY <1>1, TakeType
<1>3. Head(orderQ[w]) \in OrderPod
  BY <1>2, PodType
<1>4. QED BY <1>3, RejectedType

\* The same, whoever gives the answer.
LEMMA ResponsesFlow ==
  ASSUME NEW N, FlowTypes(N), Flow
  PROVE  \/ UNCHANGED <<respQ, answers>>
         \/ /\ at \in Workers /\ respQ[at] # <<>>
            /\ respQ' = [respQ EXCEPT ![at] = Tail(@)] /\ UNCHANGED answers
         \/ \E w \in Workers, a \in OrderPod : Responds(w, a)
<1>1. ASSUME NEW w \in Workers, orderQ[w] # <<>>, Responds(w, Rejected(Head(orderQ[w])))
      PROVE  \E a \in OrderPod : Responds(w, a)
  BY <1>1, RejectedHead
<1>2. QED BY <1>1, ResponsesMove

\* What was not told of a fill before was not told of one earlier.
LEMMA SilentBefore ==
  ASSUME NEW N, FlowTypes(N), Flow, NEW o \in Orders, Silent(o)' PROVE Silent(o)
<1>1. \A act \in Acts : <<o, act>> \in Requests
  BY DEF Requests
<1>2. CASE UNCHANGED answers
  BY <1>2 DEF Silent
<1>3. ASSUME NEW w \in Workers, NEW a \in OrderPod, Responds(w, a) PROVE Silent(o)
  <2>1. \A r \in Requests : \A i \in DOMAIN answers[r] :
              i \in DOMAIN answers'[r] /\ answers'[r][i] = answers[r][i]
    BY <1>3, AnswerAdds
  <2>2. ASSUME NEW act \in Acts, NEW i \in DOMAIN answers[<<o, act>>]
        PROVE  ~IsFill(answers[<<o, act>>][i])
    <3>1. PICK r \in Requests : r = <<o, act>>
      BY <1>1
    <3>2. i \in DOMAIN answers'[r] /\ answers'[r][i] = answers[r][i]
      BY <2>1, <3>1
    <3>3. ~IsFill(answers'[r][i])
      BY <3>1, <3>2 DEF Silent, IsFill
    <3>4. QED BY <3>1, <3>2, <3>3 DEF IsFill
  <2>3. QED BY <2>2 DEF Silent
<1>4. QED BY <1>2, <1>3, ResponsesFlow

\* Every step leaves the responses answers that were given.
LEMMA ResponsesKept ==
  ASSUME NEW N, FlowTypes(N), RespInv, Flow PROVE RespInv'
<1>1. /\ respQ \in [Workers -> Seq(Pods(N))]
      /\ \A v \in Workers : \A i \in DOMAIN respQ[v] : Request(respQ[v][i]) \in Requests
  <2>1. respQ \in [Workers -> Seq(Pods(N))]
    BY DEF FlowTypes
  <2>2. ASSUME NEW v \in Workers, NEW i \in DOMAIN respQ[v] PROVE Request(respQ[v][i]) \in Requests
    <3>1. respQ[v][i] \in Pods(N)
      BY <2>1
    <3>2. respQ[v][i] \in OrderPod
      BY <3>1, PodType
    <3>3. QED BY <3>2, PodIsOrder
  <2>3. QED BY <2>1, <2>2
<1>2. CASE UNCHANGED <<respQ, answers>>
  BY <1>2 DEF RespInv
<1>3. CASE /\ at \in Workers /\ respQ[at] # <<>>
           /\ respQ' = [respQ EXCEPT ![at] = Tail(@)] /\ UNCHANGED answers
  <2>1. PICK v \in Workers : v = at
    BY <1>3
  <2>2. PICK q \in Seq(Pods(N)) : q = respQ[v]
    BY <1>1
  <2>3. q # <<>>
    BY <1>3, <2>1, <2>2
  <2>4. /\ \A i \in DOMAIN Tail(q) : i + 1 \in DOMAIN q /\ Tail(q)[i] = q[i + 1]
    BY <2>3, HeadTailProperties, LenProperties
  <2>5. respQ'[v] = Tail(q) /\ \A u \in Workers : u # v => respQ'[u] = respQ[u]
    BY <1>1, <1>3, <2>1, <2>2
  <2>6. ASSUME NEW u \in Workers, NEW i \in DOMAIN respQ'[u]
        PROVE  Among(respQ'[u][i], answers[Request(respQ'[u][i])])
    <3>1. CASE u = v
      BY <2>2, <2>4, <2>5, <3>1, ZenonT(40) DEF RespInv
    <3>2. CASE u # v
      BY <2>5, <3>2 DEF RespInv
    <3>3. QED BY <3>1, <3>2
  <2>7. QED BY <1>3, <2>6 DEF RespInv
<1>4. ASSUME NEW w \in Workers, NEW a \in OrderPod, Responds(w, a) PROVE RespInv'
  <2>1. /\ \A r \in Requests : \A i \in DOMAIN answers[r] :
              i \in DOMAIN answers'[r] /\ answers'[r][i] = answers[r][i]
        /\ Among(a, answers'[Request(a)])
    BY <1>4, AnswerAdds
  <2>2. ASSUME NEW b, Request(b) \in Requests, Among(b, answers[Request(b)])
        PROVE  Among(b, answers'[Request(b)])
    BY <2>1, <2>2 DEF Among
  <2>3. PICK q \in Seq(Pods(N)) : q = respQ[w]
    BY <1>1
  <2>4. q \in Seq(Pods(N) \cup {a})
    <3>1. Pods(N) \subseteq Pods(N) \cup {a}
      OBVIOUS
    <3>2. QED BY <3>1, SeqMonotone
  <2>5. \A i \in DOMAIN Append(q, a) :
          Append(q, a)[i] = a \/ (i \in DOMAIN q /\ Append(q, a)[i] = q[i])
    <3>1. /\ DOMAIN Append(q, a) = 1 .. Len(q) + 1 /\ DOMAIN q = 1 .. Len(q) /\ Len(q) \in Nat
          /\ Append(q, a)[Len(q) + 1] = a /\ \A i \in 1 .. Len(q) : Append(q, a)[i] = q[i]
      BY <2>4, AppendProperties, LenProperties
    <3> DEFINE n == Len(q)
               p == Append(q, a)
    <3> HIDE DEF n, p
    <3>2. /\ DOMAIN p = 1 .. n + 1 /\ DOMAIN q = 1 .. n /\ n \in Nat
          /\ p[n + 1] = a /\ \A i \in 1 .. n : p[i] = q[i]
      BY <3>1 DEF n, p
    <3>3. \A i \in 1 .. n + 1 : i = n + 1 \/ i \in 1 .. n
      BY <3>2
    <3>4. ASSUME NEW i \in DOMAIN p PROVE p[i] = a \/ (i \in DOMAIN q /\ p[i] = q[i])
      <4>1. CASE i = n + 1
        BY <3>2, <4>1
      <4>2. CASE i \in 1 .. n
        BY <3>2, <4>2
      <4>3. QED BY <3>2, <3>3, <4>1, <4>2
    <3>5. QED BY <3>4 DEF p
  <2>6. /\ respQ'[w] \in {q, Append(q, a)}
        /\ \A u \in Workers : u # w => respQ'[u] = respQ[u]
    BY <1>1, <1>4, <2>3 DEF Responds
  <2>7. ASSUME NEW u \in Workers, NEW i \in DOMAIN respQ'[u]
        PROVE  Among(respQ'[u][i], answers'[Request(respQ'[u][i])])
    <3>1. respQ'[u][i] = a \/ (i \in DOMAIN respQ[u] /\ respQ'[u][i] = respQ[u][i])
      <4>1. CASE u = w
        <5>1. CASE respQ'[w] = q
          BY <2>3, <4>1, <5>1
        <5>2. CASE respQ'[w] = Append(q, a)
          <6>1. PICK p : p = Append(q, a)
            OBVIOUS
          <6>2. p[i] = a \/ (i \in DOMAIN q /\ p[i] = q[i])
            BY <2>5, <4>1, <5>2, <6>1
          <6>3. QED BY <2>3, <4>1, <5>2, <6>1, <6>2
        <5>3. QED BY <2>6, <5>1, <5>2
      <4>2. CASE u # w
        BY <2>6, <4>2
      <4>3. QED BY <4>1, <4>2
    <3>2. PICK b : b = respQ'[u][i]
      OBVIOUS
    <3>3. CASE b = a
      BY <2>1, <3>2, <3>3
    <3>4. CASE i \in DOMAIN respQ[u] /\ b = respQ[u][i]
      <4>1. Request(b) \in Requests /\ Among(b, answers[Request(b)])
        BY <1>1, <3>4 DEF RespInv
      <4>2. QED BY <2>2, <3>2, <4>1
    <3>5. QED BY <3>1, <3>2, <3>3, <3>4
  <2>8. QED BY <2>7 DEF RespInv
<1>5. QED BY <1>2, <1>3, <1>4, ResponsesFlow

\* The workers' responses are answers given, in every state.
LEMMA AlwaysAnswers == Spec => []RespInv
<1>1. Init => RespInv
  BY DEF Init, WorkerInit, RespInv
<1>2. TypesInv /\ RespInv /\ [Next]_vars => RespInv'
  BY FlowStep, ResponsesKept
<1>3. QED BY <1>1, <1>2, AlwaysTyped, PTL DEF Spec

-----------------------------------------------------------------------------
(* The account of an order's fills.                                        *)

\* What the client was told and is about to be told is what the broadcasts say
\* was traded, once and once more for each that was parsed again.
Counted(o) ==
  filled[o] + FilledIn(bdxQ, o) = TradedIn(tape, next, skipped, o) + RepeatedIn(tape, stale, o)
CountInv == \A o \in Orders : Silent(o) => Counted(o)

\* No broadcast is parsed while the queue of the BDX thread is full.
Room == BdxParse \/ BdxParseAgain => Len(bdxQ) < BdxQueueBound

\* The tape tells of trades one by one.
LEMMA TapeType == ASSUME TypesInv, NewsInv PROVE tape \in Tape(NumbersOf(book))
BY DEF TypesInv, ExchTypes, NewsInv, TapeTells, Tape

\* A step that only adds broadcasts.
LEMMA CountLifts ==
  ASSUME TypesInv, Grows(tape, tape'), UNCHANGED <<filled, bdxQ, next, skipped, stale>>,
         NEW o, Counted(o)
  PROVE  Counted(o)'
<1>1. next \in Nat /\ next <= Len(tape) + 1 /\ Len(tape) \in Nat
  <2>1. Len(tape) \in Nat /\ next \in 1..(Len(tape) + 1)
    BY LenProperties DEF TypesInv, ExchTypes, BdxPlaces
  <2>2. QED BY <2>1
<1>2. TradedIn(tape', next, skipped, o) = TradedIn(tape, next, skipped, o)
  BY <1>1, TradedLater
<1>3. RepeatedIn(tape', stale, o) = RepeatedIn(tape, stale, o)
  <2>1. DOMAIN tape = 1..Len(tape) /\ stale \in Seq(DOMAIN tape)
    BY LenProperties DEF TypesInv, ExchTypes, BufferPlaces
  <2>2. QED BY <2>1, RepeatedLater
<1>4. QED BY <1>2, <1>3 DEF Counted

\* A step after which the session is given the broadcasts from n on only.
LEMMA CountSkips ==
  ASSUME TypesInv, UNCHANGED <<filled, bdxQ, tape, stale>>, NEW n \in Nat, next <= n,
         next' = n, skipped' = skipped \cup next..(n - 1), NEW o, Counted(o)
  PROVE  Counted(o)'
<1>1. next \in Nat
  <2>1. Len(tape) \in Nat /\ next \in 1..(Len(tape) + 1)
    BY LenProperties DEF TypesInv, ExchTypes, BdxPlaces
  <2>2. QED BY <2>1
<1>2. TradedIn(tape, n, skipped \cup next..(n - 1), o) = TradedIn(tape, next, skipped, o)
  BY <1>1, TradedSkips
<1>3. QED BY <1>2 DEF Counted

\* What is put in the queue of a broadcast says what that one says was traded.
LEMMA EnqueuedTells ==
  ASSUME NEW M, bdxQ \in Seq(Published(Orders, M)), Len(bdxQ) < BdxQueueBound,
         NEW items \in Seq(SubItem(Orders, M)), TellsOne(items),
         bdxQ' = Enqueued(bdxQ, ParseBO5(items)), NEW o
  PROVE  /\ FilledIn(bdxQ, o) \in Int
         /\ FilledIn(bdxQ', o)
              = FilledIn(bdxQ, o) + IF Trades(items, o) THEN TradedBy(items) ELSE 0
<1>1. FilledIn(bdxQ, o) \in Int
  <2>1. CASE bdxQ = <<>>
    <3>1. FillsIn(bdxQ, o) = {}
      BY <2>1 DEF FillsIn
    <3>2. \A f : DOMAIN f = {} => SumFunction(f) = 0
      BY SumEmpty DEF SumFunction
    <3>3. QED BY <3>1, <3>2 DEF FilledIn
  <2>2. CASE bdxQ # <<>>
    BY <2>2, FilledTail
  <2>3. QED BY <2>1, <2>2
<1>2. CASE ~Has(items, 34920) /\ ParseBO5(items) = <<>>
  <2>1. bdxQ \o <<>> = bdxQ
    OBVIOUS
  <2>2. bdxQ' = bdxQ
    BY <1>2, <2>1 DEF Enqueued
  <2>3. ~Trades(items, o)
    BY <1>2 DEF Trades
  <2>4. QED BY <1>1, <2>2, <2>3
<1>3. ASSUME NEW p \in Published(Orders, M), ParseBO5(items) = <<p>>,
             p.status \in Fills <=> Has(items, 34920),
             Has(items, 34920) => /\ p.req = LastOf(items, 34005).req
                                  /\ p.last = TradedBy(items)
                                  /\ TradedBy(items) \in Int
      PROVE  FilledIn(bdxQ', o) = FilledIn(bdxQ, o) + IF Trades(items, o) THEN TradedBy(items) ELSE 0
  <2>1. Len(<<p>>) = 1 /\ Len(bdxQ) \in Nat /\ bdxQ \o <<p>> = Append(bdxQ, p)
    OBVIOUS
  <2>2. BdxQueueBound \in Nat
    BY BdxAssumption
  <2>3. Len(bdxQ) + 1 <= BdxQueueBound
    BY <2>1, <2>2
  <2>4. bdxQ' = Append(bdxQ, p)
    BY <1>3, <2>1, <2>3 DEF Enqueued
  <2>5. FilledIn(Append(bdxQ, p), o)
          = FilledIn(bdxQ, o) + IF p.req = o /\ p.status \in Fills THEN p.last ELSE 0
    BY FilledAppend
  <2>6. p.req = o /\ p.status \in Fills <=> Trades(items, o)
    BY <1>3 DEF Trades
  <2>7. CASE Trades(items, o)
    <3>1. p.last = TradedBy(items)
      BY <1>3, <2>7 DEF Trades
    <3>2. QED BY <2>4, <2>5, <2>6, <2>7, <3>1
  <2>8. CASE ~Trades(items, o)
    BY <2>4, <2>5, <2>6, <2>8
  <2>9. QED BY <2>7, <2>8
<1>4. \/ ~Has(items, 34920) /\ ParseBO5(items) = <<>>
      \/ \E p \in Published(Orders, M) :
             /\ ParseBO5(items) = <<p>>
             /\ p.status \in Fills <=> Has(items, 34920)
             /\ Has(items, 34920) => /\ p.req = LastOf(items, 34005).req
                                     /\ p.last = TradedBy(items)
                                     /\ TradedBy(items) \in Int
  BY ParsedOne
<1>5. QED BY <1>1, <1>2, <1>3, <1>4

\* A broadcast of a tape, and what it says was traded.
LEMMA TapeAt ==
  ASSUME NEW M, NEW t \in Tape(M), NEW i \in DOMAIN t
  PROVE  /\ t[i] \in Seq(SubItem(Orders, M)) /\ TellsOne(t[i])
         /\ \A o : Trades(t[i], o) => TradedBy(t[i]) \in Int
<1>1. t[i] \in Seq(SubItem(Orders, M)) /\ TellsOne(t[i])
  BY DEF Tape
<1>2. ASSUME NEW o, Trades(t[i], o) PROVE TradedBy(t[i]) \in Int
  <2>1. WellFormedTrade(t[i])
    BY <1>1, <1>2 DEF TellsOne, Trades
  <2>2. LastOf(t[i], 34005).qty \in UInt32s /\ LastOf(t[i], 34902).left \in UInt32s
    BY <1>1, <2>1, TradedType
  <2>3. QED BY <2>2 DEF TradedBy, UInt32s
<1>3. QED BY <1>1, <1>2

\* The sums the account is made of, and where the session is on the tape.
LEMMA CountTypes ==
  ASSUME TypesInv, NewsInv, NEW o \in Orders
  PROVE  /\ tape \in Tape(NumbersOf(book)) /\ bdxQ \in Seq(Published(Orders, NumbersOf(book)))
         /\ filled[o] \in Nat
         /\ DOMAIN tape = 1..Len(tape) /\ Len(tape) \in Nat
         /\ next \in Nat /\ next \in 1..(Len(tape) + 1)
         /\ stale \in Seq(DOMAIN tape) /\ again \in Seq(DOMAIN tape)
         /\ TradedIn(tape, next, skipped, o) \in Int /\ RepeatedIn(tape, stale, o) \in Int
<1>1. /\ tape \in Tape(NumbersOf(book)) /\ tape \in Seq(Seq(SubItem(Orders, NumbersOf(book))))
      /\ bdxQ \in Seq(Published(Orders, NumbersOf(book))) /\ filled[o] \in Nat
  BY TapeType DEF TypesInv, ToldTypes, ExchTypes
<1>2. DOMAIN tape = 1..Len(tape) /\ Len(tape) \in Nat
  BY <1>1, LenProperties
<1>3. next \in Nat /\ next \in 1..(Len(tape) + 1) /\ next <= Len(tape) + 1
  BY <1>2 DEF TypesInv, BdxPlaces
<1>4. stale \in Seq(DOMAIN tape) /\ again \in Seq(DOMAIN tape)
  BY DEF TypesInv, BufferPlaces
<1>5. TradedIn(tape, next, skipped, o) \in Int
  BY <1>1, <1>3, TradesType
<1>6. RepeatedIn(tape, stale, o) \in Int
  BY <1>1, <1>4, RepeatsType
<1>7. QED BY <1>1, <1>2, <1>3, <1>4, <1>5, <1>6

\* A broadcast is parsed.
LEMMA CountParsed ==
  ASSUME TypesInv, NewsInv, BdxParse, Room, UNCHANGED filled, NEW o \in Orders, Counted(o)
  PROVE  Counted(o)'
<1>1. PICK M : M = NumbersOf(book)
  OBVIOUS
<1>2. /\ tape \in Tape(M) /\ bdxQ \in Seq(Published(Orders, M)) /\ filled[o] \in Nat
      /\ TradedIn(tape, next, skipped, o) \in Int /\ RepeatedIn(tape, stale, o) \in Int
  BY <1>1, CountTypes
<1>3. next \in DOMAIN tape /\ next \notin skipped
  <2>1. Len(tape) \in Nat /\ DOMAIN tape = 1..Len(tape)
    BY CountTypes
  <2>2. /\ next \in 1..(Len(tape) + 1) /\ unread \in 0..(Len(tape) + 1 - next)
        /\ skipped \subseteq 1..(next - 1) /\ unread > 0
    BY DEF BdxParse, TypesInv, BdxPlaces
  <2>3. QED BY <2>1, <2>2
<1>4. PICK items : items = tape[next]
  OBVIOUS
<1>5. /\ tape' = tape /\ next' = next + 1 /\ skipped' = skipped /\ stale' = stale
      /\ bdxQ' = Enqueued(bdxQ, ParseBO5(items)) /\ Len(bdxQ) < BdxQueueBound
  BY <1>4 DEF BdxParse, exchVars, bufferVars, Room
<1>6. /\ items \in Seq(SubItem(Orders, M)) /\ TellsOne(items)
      /\ Trades(items, o) => TradedBy(items) \in Int
  BY <1>2, <1>3, <1>4, TapeAt
<1>7. PICK d \in Int : d = IF Trades(items, o) THEN TradedBy(items) ELSE 0
  BY <1>6
<1>8. TradedIn(tape, next + 1, skipped, o) = TradedIn(tape, next, skipped, o) + d
  BY <1>2, <1>3, <1>4, <1>7, TradedNext
<1>9. FilledIn(bdxQ', o) = FilledIn(bdxQ, o) + d /\ FilledIn(bdxQ, o) \in Int
  BY <1>2, <1>5, <1>6, <1>7, EnqueuedTells
<1>10. filled[o] + FilledIn(bdxQ', o)
         = TradedIn(tape, next + 1, skipped, o) + RepeatedIn(tape, stale, o)
  BY <1>2, <1>7, <1>8, <1>9 DEF Counted
<1>11. QED BY <1>5, <1>10 DEF Counted

\* A broadcast is parsed again.
LEMMA CountParsedAgain ==
  ASSUME TypesInv, NewsInv, BdxParseAgain, Room, UNCHANGED filled, NEW o \in Orders, Counted(o)
  PROVE  Counted(o)'
<1>1. PICK M : M = NumbersOf(book)
  OBVIOUS
<1>2. /\ tape \in Tape(M) /\ bdxQ \in Seq(Published(Orders, M)) /\ filled[o] \in Nat
      /\ TradedIn(tape, next, skipped, o) \in Int /\ RepeatedIn(tape, stale, o) \in Int
      /\ stale \in Seq(DOMAIN tape) /\ again \in Seq(DOMAIN tape)
  BY <1>1, CountTypes
<1>3. PICK i \in DOMAIN tape : i = Head(again)
  <2> DEFINE S == DOMAIN tape
  <2>1. again \in Seq(S) /\ again # <<>>
    BY <1>2 DEF BdxParseAgain
  <2> HIDE DEF S
  <2>2. Head(again) \in S
    BY <2>1, HeadTailProperties
  <2>3. QED BY <2>2 DEF S
<1>4. PICK items : items = tape[i]
  OBVIOUS
<1>5. /\ tape' = tape /\ next' = next /\ skipped' = skipped /\ stale' = Append(stale, i)
      /\ bdxQ' = Enqueued(bdxQ, ParseBO5(items)) /\ Len(bdxQ) < BdxQueueBound
  BY <1>3, <1>4 DEF BdxParseAgain, exchVars, Room
<1>6. /\ items \in Seq(SubItem(Orders, M)) /\ TellsOne(items)
      /\ Trades(items, o) => TradedBy(items) \in Int
  BY <1>2, <1>4, TapeAt
<1>7. PICK d \in Int : d = IF Trades(items, o) THEN TradedBy(items) ELSE 0
  BY <1>6
<1>8. RepeatedIn(tape, Append(stale, i), o) = RepeatedIn(tape, stale, o) + d
  BY <1>2, <1>4, <1>7, RepeatedNext
<1>9. FilledIn(bdxQ', o) = FilledIn(bdxQ, o) + d /\ FilledIn(bdxQ, o) \in Int
  BY <1>2, <1>5, <1>6, <1>7, EnqueuedTells
<1>10. filled[o] + FilledIn(bdxQ', o)
         = TradedIn(tape, next, skipped, o) + RepeatedIn(tape, Append(stale, i), o)
  BY <1>2, <1>7, <1>8, <1>9 DEF Counted
<1>11. QED BY <1>5, <1>10 DEF Counted

\* A broadcast's response is delivered.
LEMMA CountDelivered ==
  ASSUME TypesInv, bdxQ # <<>>, Deliver(Head(bdxQ)), bdxQ' = Tail(bdxQ),
         UNCHANGED <<tape, next, skipped, stale>>, NEW o \in Orders, Counted(o)
  PROVE  Counted(o)'
<1>1. PICK M : M = NumbersOf(book)
  OBVIOUS
<1>2. /\ bdxQ \in Seq(Published(Orders, M)) /\ filled \in [Orders -> Nat]
  BY <1>1 DEF TypesInv, ToldTypes
<1>3. PICK p \in Published(Orders, M) : p = Head(bdxQ)
  BY <1>2, HeadTailProperties
<1>4. /\ FilledIn(bdxQ, o) \in Int /\ FilledIn(Tail(bdxQ), o) \in Int
      /\ FilledIn(bdxQ, o)
           = FilledIn(Tail(bdxQ), o)
             + IF Head(bdxQ).req = o /\ Head(bdxQ).status \in Fills THEN Head(bdxQ).last ELSE 0
  BY <1>2, FilledTail
<1>5. p.last \in Int
  BY <1>3, LastType
<1>6. filled'[o] = filled[o] + IF p.req = o /\ p.status \in Fills THEN p.last ELSE 0
  <2>1. filled' = IF p.req \in Orders /\ p.status \in Fills
                  THEN [filled EXCEPT ![p.req] = filled[p.req] + p.last] ELSE filled
    BY <1>3 DEF Deliver, IsFill, Fills
  <2>2. filled[o] \in Nat
    BY <1>2
  <2>3. CASE p.req = o /\ p.status \in Fills
    BY <1>2, <2>1, <2>3
  <2>4. CASE ~(p.req = o /\ p.status \in Fills)
    <3>1. filled'[o] = filled[o]
      BY <1>2, <2>1, <2>4
    <3>2. QED BY <2>2, <2>4, <3>1
  <2>5. QED BY <2>3, <2>4
<1>7. filled[o] \in Int
  BY <1>2
<1>8. CASE p.req = o /\ p.status \in Fills
  <2>1. /\ FilledIn(bdxQ, o) = FilledIn(bdxQ', o) + p.last /\ filled'[o] = filled[o] + p.last
        /\ FilledIn(bdxQ', o) \in Int
    BY <1>3, <1>4, <1>6, <1>8
  <2>2. filled'[o] + FilledIn(bdxQ', o) = filled[o] + FilledIn(bdxQ, o)
    BY <1>5, <1>7, <2>1
  <2>3. QED BY <2>2 DEF Counted
<1>9. CASE ~(p.req = o /\ p.status \in Fills)
  <2>1. FilledIn(bdxQ, o) = FilledIn(bdxQ', o) /\ filled'[o] = filled[o]
    BY <1>3, <1>4, <1>6, <1>7, <1>9
  <2>2. QED BY <2>1 DEF Counted
<1>10. QED BY <1>8, <1>9

\* A worker's response is delivered, and it is not a fill of the order.
LEMMA CountAnswered ==
  ASSUME TypesInv, RespInv, at \in Workers, respQ[at] # <<>>, Deliver(Head(respQ[at])),
         UNCHANGED <<bdxQ, tape, next, skipped, stale>>, NEW o \in Orders, Silent(o), Counted(o)
  PROVE  Counted(o)'
<1>1. PICK M : M = NumbersOf(book)
  OBVIOUS
<1>2. respQ \in [Workers -> Seq(Pods(M))] /\ filled \in [Orders -> Nat]
  BY <1>1 DEF TypesInv, FlowTypes, ToldTypes
<1>3. PICK w \in Workers : w = at
  OBVIOUS
<1>4. PICK q \in Seq(Pods(M)) : q = respQ[w]
  BY <1>2
<1>5. q # <<>> /\ Head(q) = q[1] /\ 1 \in DOMAIN q /\ Head(q) \in Pods(M)
  <2>1. q # <<>>
    BY <1>3, <1>4
  <2>2. QED BY <2>1, HeadTailProperties
<1>6. PICK a \in OrderPod : a = Head(q)
  BY <1>5, PodType
<1>7. Among(a, answers[Request(a)])
  BY <1>4, <1>5, <1>6 DEF RespInv
<1>8. a.req = o => ~IsFill(a)
  <2>1. SUFFICES ASSUME a.req = o PROVE ~IsFill(a)
    OBVIOUS
  <2>2. Request(a) = <<o, a.act>> /\ a.act \in Acts
    BY <2>1 DEF Request, OrderPod
  <2>3. PICK j \in DOMAIN answers[<<o, a.act>>] : answers[<<o, a.act>>][j] = a
    BY <1>7, <2>2 DEF Among
  <2>4. ~IsFill(answers[<<o, a.act>>][j])
    BY <2>2, <2>3 DEF Silent
  <2>5. QED BY <2>3, <2>4
<1>9. filled'[o] = filled[o]
  <2>1. filled' = IF a.req \in Orders /\ IsFill(a)
                  THEN [filled EXCEPT ![a.req] = filled[a.req] + a.last] ELSE filled
    BY <1>3, <1>4, <1>6 DEF Deliver
  <2>2. QED BY <1>2, <1>8, <2>1
<1>10. QED BY <1>9 DEF Counted

\* Every step keeps the account of an order.
LEMMA CountStep ==
  ASSUME TypesInv, NewsInv, RespInv, [Next]_vars, Room, Grows(tape, tape'),
         NEW o \in Orders, Silent(o), Counted(o)
  PROVE  Counted(o)'
<1>1. CASE UNCHANGED <<filled, bdxQ, next, skipped, stale>>
  BY <1>1, CountLifts
<1>2. Len(tape) \in Nat /\ next \in 1..(Len(tape) + 1)
  BY LenProperties DEF TypesInv, ExchTypes, BdxPlaces
<1>3. ASSUME Subscribe, UNCHANGED <<filled, bdxQ, tape, stale>> PROVE Counted(o)'
  <2>1. next' = Len(tape) + 1 /\ skipped' = skipped \cup next..Len(tape)
    BY <1>3 DEF Subscribe
  <2>2. PICK n \in Nat : n = Len(tape) + 1
    BY <1>2
  <2>3. next <= n /\ n - 1 = Len(tape)
    BY <1>2, <2>2
  <2>4. next' = n /\ skipped' = skipped \cup next..(n - 1)
    BY <2>1, <2>2, <2>3
  <2>5. QED BY <1>3, <2>3, <2>4, CountSkips
<1>4. CASE Handler
  <2>1. CASE CopySeries \/ StartWorker \/ StartWaited \/ StopWorker \/ JoinWorker
    BY <1>1, <2>1 DEF CopySeries, StartWorker, StartWaited, StopWorker, JoinWorker, bdxVars,
                      StartUnchanged, StopUnchanged, clientVars, bufferVars
  <2>2. CASE StopBdx \/ JoinBdx
    BY <1>1, <2>2 DEF StopBdx, BdxRequestStop, JoinBdx, BdxJoin, StopUnchanged, clientVars,
                      bufferVars
  <2>3. CASE SendCheck \/ SendTry \/ SendEnqueue
    BY <1>1, <2>3 DEF SendCheck, SendTry, SendEnqueue, SendUnchanged, bdxVars, bufferVars
  <2>4. CASE StartBdx
    <3>1. UNCHANGED <<filled, bdxQ, tape, stale>>
      BY <2>4 DEF StartBdx, BdxStart, exchVars, StartUnchanged, clientVars, bufferVars
    <3>2. Subscribe \/ UNCHANGED <<next, skipped>>
      BY <2>4 DEF StartBdx, BdxStart
    <3>3. QED BY <1>1, <1>3, <3>1, <3>2
  <2>5. CASE PollBegin
    BY <1>1, <2>5 DEF PollBegin, bdxVars, bufferVars
  <2>6. CASE PollWorker
    <3>1. UNCHANGED <<bdxQ, tape, next, skipped, stale>> /\ at < WorkerCount
      BY <2>6 DEF PollWorker, PollUnchanged, bdxVars, exchVars, bufferVars
    <3>2. CASE UNCHANGED filled
      BY <1>1, <3>1, <3>2
    <3>3. CASE respQ[at] # <<>> /\ Deliver(Head(respQ[at]))
      <4>1. at \in Workers
        BY <3>1, HandlerAssumption DEF TypesInv, FlowTypes
      <4>2. QED BY <3>1, <3>3, <4>1, CountAnswered
    <3>4. QED BY <2>6, <3>2, <3>3 DEF PollWorker
  <2>7. CASE PollBdx
    <3>1. UNCHANGED <<tape, next, skipped, stale>>
      BY <2>7 DEF PollBdx, PollUnchanged, exchVars, bufferVars
    <3>2. CASE UNCHANGED <<filled, bdxQ>>
      BY <1>1, <3>1, <3>2
    <3>3. CASE bdxQ # <<>> /\ Deliver(Head(bdxQ)) /\ bdxQ' = Tail(bdxQ)
      BY <3>1, <3>3, CountDelivered
    <3>4. QED BY <2>7, <3>2, <3>3 DEF PollBdx
  <2>8. QED BY <1>4, <2>1, <2>2, <2>3, <2>4, <2>5, <2>6, <2>7 DEF Handler
<1>5. CASE Client \/ StopBegin
  BY <1>1, <1>5 DEF Client, SendBegin, SendUnchanged, StopBegin, StopUnchanged, bdxVars, clientVars,
                   bufferVars
<1>6. CASE Bdx
  <2>1. filled' = filled /\ tape' = tape
    BY <1>6 DEF Bdx, clientVars, BdxStep, BdxRead, BdxOverflow, BdxForcedLogout, BdxParse,
                BdxParseAgain, BdxSessionLost, BdxReconnectLogout, BdxRelogin, BdxLeave, exchVars
  <2>2. CASE BdxParse
    BY <2>1, <2>2, CountParsed
  <2>6. CASE BdxParseAgain
    BY <2>1, <2>6, CountParsedAgain
  <2>3. CASE BdxOverflow
    <3>1. PICK k \in 1..Pending : next' = next + k /\ skipped' = skipped \cup next..(next + k - 1)
      BY <2>3 DEF BdxOverflow
    <3>2. PICK n \in Nat : n = next + k /\ next <= n
      BY <1>2, <3>1 DEF Pending
    <3>3. next + k - 1 = n - 1
      BY <1>2, <3>2
    <3>4. next' = n /\ skipped' = skipped \cup next..(n - 1) /\ bdxQ' = bdxQ
          /\ stale' = stale
      BY <2>3, <3>1, <3>2, <3>3 DEF BdxOverflow, bufferVars
    <3>5. QED BY <2>1, <3>2, <3>4, CountSkips
  <2>4. CASE BdxRelogin
    <3>1. bdxQ' = bdxQ /\ stale' = stale
      BY <2>4 DEF BdxRelogin, bufferVars
    <3>2. Subscribe \/ UNCHANGED <<next, skipped>>
      BY <2>4 DEF BdxRelogin
    <3>3. QED BY <1>1, <1>3, <2>1, <3>1, <3>2
  <2>5. CASE BdxRead \/ BdxForcedLogout \/ BdxSessionLost \/ BdxReconnectLogout \/ BdxLeave
    BY <1>1, <2>1, <2>5 DEF BdxRead, BdxForcedLogout, BdxSessionLost, BdxReconnectLogout, BdxLeave,
                            Received, bufferVars
  <2>7. QED BY <1>6, <2>2, <2>3, <2>4, <2>5, <2>6 DEF Bdx, BdxStep
<1>7. CASE Trading \/ UNCHANGED vars \/ (\E s \in Disturbed : Disturb(s))
           \/ (\E w \in Workers : Worker(w))
  BY <1>1, <1>7 DEF Trading, vars, Disturb, Worker, bdxVars, bufferVars, clientVars
<1>8. QED BY <1>4, <1>5, <1>6, <1>7 DEF Next

\* The account is kept.
LEMMA CountKept ==
  TypesInv /\ NewsInv /\ RespInv /\ CountInv /\ [Next]_vars /\ Room => CountInv'
<1> SUFFICES ASSUME TypesInv, NewsInv, RespInv, CountInv, [Next]_vars, Room PROVE CountInv'
  OBVIOUS
<1>1. Grows(tape, tape')
  BY BookStep DEF TypesInv
<1>2. ASSUME NEW o \in Orders, Silent(o)' PROVE Counted(o)'
  <2>1. Silent(o)
    BY <1>2, FlowStep, SilentBefore
  <2>2. Counted(o)
    BY <2>1 DEF CountInv
  <2>3. QED BY <1>1, <2>1, <2>2, CountStep
<1>3. QED BY <1>2 DEF CountInv

\* At the start nothing was traded and nothing told.
LEMMA CountAtStart == Init => CountInv
<1> SUFFICES ASSUME Init, NEW o \in Orders PROVE Counted(o)
  BY DEF CountInv
<1>1. bdxQ = <<>> /\ next = 1 /\ filled[o] = 0 /\ stale = <<>>
  BY DEF Init, BdxInit
<1>2. /\ FillsIn(bdxQ, o) = {} /\ TradesIn(tape, next, skipped, o) = {}
      /\ RepeatsIn(tape, stale, o) = {}
  BY <1>1 DEF FillsIn, TradesIn, RepeatsIn
<1>3. \A f : DOMAIN f = {} => SumFunction(f) = 0
  BY SumEmpty DEF SumFunction
<1>4. /\ FilledIn(bdxQ, o) = 0 /\ TradedIn(tape, next, skipped, o) = 0
      /\ RepeatedIn(tape, stale, o) = 0
  BY <1>2, <1>3 DEF FilledIn, TradedIn, RepeatedIn
<1>5. QED BY <1>1, <1>4 DEF Counted

\* As long as no broadcast is parsed while the response queue of the BDX
\* thread is full (ParseBO5 would drop what it makes of it), no trade the
\* session was given is lost to the client, through packed buffers, lost
\* sessions, missed broadcasts and the end of the thread; and it is told of
\* exactly the lots traded, once and once more for every time an old buffer is
\* parsed again, if every trade of the order names the quantity left before it.
THEOREM FillsArrive == Spec /\ [][Room]_vars => []FillsAddUp
<1>1. ASSUME TypesInv, NewsInv, CountInv PROVE FillsAddUp
  <2> SUFFICES ASSUME NEW o \in Orders,
                      \A act \in Acts : \A i \in DOMAIN answers[<<o, act>>] :
                        ~IsFill(answers[<<o, act>>][i])
               PROVE  LET told == filled[o] + SumFunction([k \in FillsOf(o) |-> bdxQ[k].last])
                          traded == SumFunction([i \in GivenTrades(o) |-> Lots(i)])
                                      + SumFunction([k \in RepeatedTrades(o) |-> Lots(stale[k])])
                      IN /\ told >= traded
                         /\ (\A i \in TradesOf(o) : NamesWhatWasLeft(i)) => told = traded
    BY DEF FillsAddUp
  <2> DEFINE S == GivenTrades(o)
             R == RepeatedTrades(o)
             lots == [i \in S |-> Lots(i)]
             parsed == [i \in S |-> TradedBy(tape[i])]
             lotsAgain == [k \in R |-> Lots(stale[k])]
             parsedAgain == [k \in R |-> TradedBy(tape[stale[k]])]
             told == filled[o] + SumFunction([k \in FillsOf(o) |-> bdxQ[k].last])
  <2>1. Counted(o)
    BY <1>1 DEF CountInv, Silent
  <2>2. FillsOf(o) = FillsIn(bdxQ, o)
    BY DEF FillsOf, FillsIn, IsFill, Fills
  <2>3. /\ tape \in Tape(NumbersOf(book)) /\ DOMAIN tape = 1..Len(tape) /\ Len(tape) \in Nat
        /\ next \in Nat /\ next \in 1..(Len(tape) + 1) /\ stale \in Seq(DOMAIN tape)
    BY <1>1, CountTypes
  <2>4. S = TradesIn(tape, next, skipped, o)
    BY <2>3 DEF GivenTrades, TradesOf, TradesIn, Trades
  <2>5. R = RepeatsIn(tape, stale, o)
    <3>1. \A k \in DOMAIN stale : stale[k] \in DOMAIN tape
      BY <2>3, ElementOfSeq, LenProperties
    <3>2. QED BY <3>1 DEF RepeatedTrades, TradesOf, RepeatsIn, Trades
  <2>6. told = SumFunction(parsed) + SumFunction(parsedAgain)
    BY <2>1, <2>2, <2>4, <2>5 DEF Counted, FilledIn, TradedIn, RepeatedIn
  <2>7. /\ IsFiniteSet(S) /\ parsed \in [S -> Int] /\ \A i \in S : i \in DOMAIN tape
        /\ IsFiniteSet(R) /\ parsedAgain \in [R -> Int] /\ \A k \in R : stale[k] \in DOMAIN tape
    BY <2>3, <2>4, <2>5, TradesType, RepeatsType
  <2>8. ASSUME NEW i \in DOMAIN tape, Has(tape[i], 34920)
        PROVE  Lots(i) \in Int /\ Lots(i) <= TradedBy(tape[i])
    <3>1. Lots(i) \in 0..TradedBy(tape[i])
      BY <2>3, <2>8, TapeAt DEF TellsOne, Lots
    <3>2. TradedBy(tape[i]) \in Int
      BY <2>3, <2>8, TapeAt DEF Trades
    <3>3. QED BY <3>1, <3>2
  <2>9. \A i \in S : i \in TradesOf(o) /\ Has(tape[i], 34920)
    BY DEF GivenTrades, TradesOf
  <2>10. \A k \in R : stale[k] \in TradesOf(o) /\ Has(tape[stale[k]], 34920)
    BY DEF RepeatedTrades, TradesOf
  <2>11. lots \in [S -> Int] /\ \A i \in S : lots[i] <= parsed[i]
    BY <2>7, <2>8, <2>9
  <2>12. lotsAgain \in [R -> Int] /\ \A k \in R : lotsAgain[k] <= parsedAgain[k]
    BY <2>7, <2>8, <2>10
  <2>13. ASSUME \A i \in TradesOf(o) : NamesWhatWasLeft(i)
         PROVE  lots = parsed /\ lotsAgain = parsedAgain
    BY <2>9, <2>10, <2>13 DEF NamesWhatWasLeft, TradedBy
  <2> HIDE DEF S, R, lots, parsed, lotsAgain, parsedAgain, told
  <2>14. /\ SumFunction(lots) \in Int /\ SumFunction(parsed) \in Int
         /\ SumFunction(lots) <= SumFunction(parsed)
    BY <2>7, <2>11, SumAtLeast
  <2>15. /\ SumFunction(lotsAgain) \in Int /\ SumFunction(parsedAgain) \in Int
         /\ SumFunction(lotsAgain) <= SumFunction(parsedAgain)
    BY <2>7, <2>12, SumAtLeast
  <2>16. told >= SumFunction(lots) + SumFunction(lotsAgain)
    BY <2>6, <2>14, <2>15
  <2>17. (\A i \in TradesOf(o) : NamesWhatWasLeft(i))
           => told = SumFunction(lots) + SumFunction(lotsAgain)
    BY <2>6, <2>13
  <2>18. QED BY <2>16, <2>17 DEF told, lots, lotsAgain, S, R
<1>2. /\ TypesInv /\ NewsInv /\ RespInv /\ CountInv /\ [Next]_vars /\ [Room]_vars => CountInv'
  <2> SUFFICES ASSUME TypesInv, NewsInv, RespInv, CountInv, [Next]_vars, [Room]_vars
               PROVE  CountInv'
    OBVIOUS
  <2>1. CASE Room
    BY <2>1, CountKept
  <2>2. CASE UNCHANGED vars
    <3>1. UNCHANGED <<answers, filled, bdxQ, tape, next, skipped, stale>>
      BY <2>2 DEF vars, workerVars, ghostVars, clientVars, bdxVars, bufferVars, exchVars
    <3>2. QED BY <3>1 DEF CountInv, Silent, Counted
  <2>3. QED BY <2>1, <2>2
<1>3. QED BY <1>1, <1>2, CountAtStart, AlwaysTyped, AlwaysTells, AlwaysAnswers, PTL DEF Spec
==============================================================================
