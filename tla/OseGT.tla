-------------------------------- MODULE OseGT --------------------------------
(***************************************************************************)
(* OseGT, the OSE exchange handler: its workers, its BDX thread, and the   *)
(* thread of ExchangeManager::Run that starts them, hands orders out to    *)
(* the workers, collects the responses and stops the handler.              *)
(*                                                                         *)
(* That thread's calls are split at every read of state another thread     *)
(* writes.  The client above is known by the requests it makes and by what *)
(* OrderManagerV5 keeps of the responses: the order's exchordid and the    *)
(* sum of its fills.                                                       *)
(***************************************************************************)
EXTENDS OmnetWorker, OmnetBdxThread

CONSTANTS
  WorkerCount,
  ClientActs,   \* the kinds of requests the client makes
  Disturbed,    \* the sessions the gateway disturbs
  MaxDrops      \* bounds how often it does

ASSUME HandlerAssumption ==
  /\ WorkerCount \in Nat \ {0}
  /\ Workers = 0..(WorkerCount - 1)
  /\ FirstWorker = 0
  /\ BdxSession \notin Workers
  /\ ClientActs \subseteq Acts
  /\ Disturbed \subseteq Sessions /\ MaxDrops \in Nat

VARIABLES
  gpc,         \* where the handler's thread is
  at,          \* the worker or queue it is at
  started,     \* _started
  nextWorker,  \* _nextWorker, of which only the remainder by WorkerCount counts
  inSend,      \* the order Send() is at work on, NoOrder if none
  firstTry,    \* the worker Send() tries first
  fate,        \* what Send() made of each request: "none", "queued" or "refused"
  dispatched,  \* the requests queued for each worker, in order
  known,       \* the client's exchordid of each order, 0 if it has none
  filled,      \* the client's fillqty of each order
  drops        \* how often a session was disturbed

handlerVars == <<gpc, at, started, nextWorker, inSend, firstTry>>
clientVars == <<fate, dispatched, known, filled>>
vars == <<exchVars, sessVars, workerVars, bdxVars, handlerVars, clientVars, drops>>

Init ==
  /\ ExchInit /\ SessInit /\ WorkerInit /\ BdxInit
  /\ gpc = "start"
  /\ at = 0
  /\ started = FALSE
  /\ nextWorker = 0
  /\ inSend = NoOrder
  /\ firstTry = 0
  /\ fate = [r \in Requests |-> "none"]
  /\ dispatched = [w \in Workers |-> <<>>]
  /\ known = [o \in Orders |-> 0]
  /\ filled = [o \in Orders |-> 0]
  /\ drops = 0

HandlerGoto(pc, i) == gpc' = pc /\ at' = i

-----------------------------------------------------------------------------
(* Start: the workers one after the other, then the BDX thread; the first  *)
(* failure ends it with the threads started so far left running.           *)

StartUnchanged == UNCHANGED <<nextWorker, inSend, firstTry, clientVars>>

\* CopySeriesCache: worker 0 is running by now, and a query of its rebuilds
\* the cache that is being copied, so that anything may come of the copy.
CopySeries ==
  /\ gpc = "copy"
  /\ \E known0 \in BOOLEAN :
       /\ wpc[FirstWorker] # "requery" => known0 = hasSeries[FirstWorker]
       /\ hasSeries' = [hasSeries EXCEPT ![at] = known0]
  /\ HandlerGoto("start", at)
  /\ UNCHANGED <<wpc, active, setup, ready, cur, retry, reply, queueVars, ghostVars, exchVars,
                 sessVars, bdxVars, started>>
  /\ StartUnchanged

StartWorker ==
  /\ gpc = "start"
  /\ Start(at)
  /\ HandlerGoto("startWait", at)
  /\ UNCHANGED <<bdxVars, started>>
  /\ StartUnchanged

StartWaited ==
  /\ gpc = "startWait"
  /\ \/ /\ setup[at] = "ok"
        /\ IF at + 1 < WorkerCount THEN HandlerGoto("copy", at + 1) ELSE HandlerGoto("startBdx", 0)
     \/ /\ setup[at] = "failed"
        /\ HandlerGoto("run", 0)
  /\ UNCHANGED <<exchVars, sessVars, workerVars, bdxVars, started>>
  /\ StartUnchanged

StartBdx ==
  /\ gpc = "startBdx"
  /\ BdxStart
  /\ started' = bactive'
  /\ HandlerGoto("run", 0)
  /\ UNCHANGED workerVars
  /\ StartUnchanged

-----------------------------------------------------------------------------
(* Send *)

SendUnchanged ==
  UNCHANGED <<exchVars, sessVars, threadVars, respQ, ghostVars, bdxVars, started, known, filled>>

\* The client's next request of an order: a new order once, then, under the
\* exchange's number, an alteration and a deletion.
ClientMay(o) ==
  /\ fate[Request(o)] = "none"
  /\ o.num = known[o.req]
  /\ (o.act = "NEW") = (o.num = 0)
  /\ o.act = "MOD" => fate[<<o.req, "CXL">>] = "none"

Refuse ==
  /\ fate' = [fate EXCEPT ![Request(inSend)] = "refused"]
  /\ inSend' = NoOrder
  /\ HandlerGoto("run", 0)

\* ExchangeManager takes an order from its commands and calls Send.
SendBegin(o) ==
  /\ gpc = "run"
  /\ ClientMay(o)
  /\ inSend' = o
  /\ HandlerGoto("check", 0)
  /\ UNCHANGED <<orderQ, nextWorker, firstTry, fate, dispatched>>
  /\ SendUnchanged

\* Is any worker ready, one after the other.
SendCheck ==
  /\ gpc = "check"
  /\ \/ /\ at < WorkerCount
        /\ IF IsReady(at) /\ started
           THEN /\ firstTry' = nextWorker
                /\ nextWorker' = (nextWorker + 1) % WorkerCount
                /\ HandlerGoto("try", 0)
           ELSE /\ HandlerGoto("check", at + 1)
                /\ UNCHANGED <<nextWorker, firstTry>>
        /\ UNCHANGED <<fate, inSend>>
     \/ /\ at = WorkerCount
        /\ Refuse
        /\ UNCHANGED <<nextWorker, firstTry>>
  /\ UNCHANGED <<orderQ, dispatched>>
  /\ SendUnchanged

Tried == (firstTry + at) % WorkerCount

\* The next worker in turn, if it is ready.
SendTry ==
  /\ gpc = "try"
  /\ \/ /\ at < WorkerCount
        /\ IF IsReady(Tried) THEN HandlerGoto("enqueue", at) ELSE HandlerGoto("try", at + 1)
        /\ UNCHANGED <<fate, inSend>>
     \/ /\ at = WorkerCount
        /\ Refuse
  /\ UNCHANGED <<orderQ, nextWorker, firstTry, dispatched>>
  /\ SendUnchanged

\* Mutant of Enqueue: the newest order is the first to be taken.
MutEnqueue(q, o) == <<o>> \o q

Enqueue(q, o) == Append(q, o)

SendEnqueue ==
  /\ gpc = "enqueue"
  /\ \/ /\ Len(orderQ[Tried]) < OrderQueueBound
        /\ orderQ' = [orderQ EXCEPT ![Tried] = Enqueue(@, inSend)]
        /\ dispatched' = [dispatched EXCEPT ![Tried] = Append(@, Request(inSend))]
        /\ fate' = [fate EXCEPT ![Request(inSend)] = "queued"]
        /\ inSend' = NoOrder
        /\ HandlerGoto("run", 0)
     \/ /\ Len(orderQ[Tried]) = OrderQueueBound
        /\ HandlerGoto("try", at + 1)
        /\ UNCHANGED <<orderQ, dispatched, fate, inSend>>
  /\ UNCHANGED <<nextWorker, firstTry>>
  /\ SendUnchanged

-----------------------------------------------------------------------------
(* Poll: the workers' response queues in turn, then the BDX thread's.      *)

PollUnchanged ==
  UNCHANGED <<exchVars, sessVars, threadVars, orderQ, ghostVars, started, nextWorker, inSend,
              firstTry, fate, dispatched>>

\* Mutant of PollBegin: the queues are counted from 1.
MutPollBegin ==
  /\ gpc = "run"
  /\ HandlerGoto("poll", 1)
  /\ UNCHANGED <<respQ, bdxVars, known, filled>>
  /\ PollUnchanged

PollBegin ==
  /\ gpc = "run"
  /\ HandlerGoto("poll", 0)
  /\ UNCHANGED <<respQ, bdxVars, known, filled>>
  /\ PollUnchanged

IsFill(o) == o.status \in {"FILLED", "PARTIALLY_FILLED"}

\* What OrderManagerV5 keeps of a response: exchordid if there is one, and
\* fillqty += lastqty.
Deliver(o) ==
  /\ known' = IF o.req \in Orders /\ o.num # 0 THEN [known EXCEPT ![o.req] = o.num] ELSE known
  /\ filled' = IF o.req \in Orders /\ IsFill(o)
               THEN [filled EXCEPT ![o.req] = @ + o.last] ELSE filled

PollWorker ==
  /\ gpc = "poll"
  /\ at < WorkerCount
  /\ \/ /\ respQ[at] # <<>>
        /\ Deliver(Head(respQ[at]))
        /\ respQ' = [respQ EXCEPT ![at] = Tail(@)]
        /\ UNCHANGED <<gpc, at>>
     \/ /\ respQ[at] = <<>>
        /\ HandlerGoto("poll", at + 1)
        /\ UNCHANGED <<respQ, known, filled>>
  /\ UNCHANGED bdxVars
  /\ PollUnchanged

PollBdx ==
  /\ gpc = "poll"
  /\ at = WorkerCount
  /\ \/ /\ bdxQ # <<>>
        /\ Deliver(Head(bdxQ))
        /\ bdxQ' = Tail(bdxQ)
        /\ UNCHANGED <<gpc, at>>
     \/ /\ bdxQ = <<>>
        /\ HandlerGoto("run", 0)
        /\ UNCHANGED <<bdxQ, known, filled>>
  /\ UNCHANGED <<respQ, bpc, bactive, next, unread, skipped, bufferVars>>
  /\ PollUnchanged

-----------------------------------------------------------------------------
(* Stop: nothing unless Start went through; else each worker and then the  *)
(* BDX thread is told to stop and waited for.                              *)

StopUnchanged == UNCHANGED <<nextWorker, inSend, firstTry, clientVars>>

StopBegin ==
  /\ gpc = "run"
  /\ HandlerGoto(IF started THEN "stop" ELSE "stopped", 0)
  /\ UNCHANGED <<exchVars, sessVars, workerVars, bdxVars, started>>
  /\ StopUnchanged

StopWorker ==
  /\ gpc = "stop"
  /\ at < WorkerCount
  /\ RequestStop(at)
  /\ HandlerGoto("join", at)
  /\ UNCHANGED <<bdxVars, started>>
  /\ StopUnchanged

JoinWorker ==
  /\ gpc = "join"
  /\ at < WorkerCount
  /\ Join(at)
  /\ HandlerGoto("stop", at + 1)
  /\ UNCHANGED <<bdxVars, started>>
  /\ StopUnchanged

\* Mutant of StopBdx: nobody waits for the BDX thread.
MutStopBdx ==
  /\ gpc = "stop"
  /\ at = WorkerCount
  /\ BdxRequestStop
  /\ HandlerGoto("stopped", 0)
  /\ UNCHANGED <<workerVars, started>>
  /\ StopUnchanged

StopBdx ==
  /\ gpc = "stop"
  /\ at = WorkerCount
  /\ BdxRequestStop
  /\ HandlerGoto("join", at)
  /\ UNCHANGED <<workerVars, started>>
  /\ StopUnchanged

JoinBdx ==
  /\ gpc = "join"
  /\ at = WorkerCount
  /\ BdxJoin
  /\ started' = FALSE
  /\ HandlerGoto("stopped", 0)
  /\ UNCHANGED workerVars
  /\ StopUnchanged

-----------------------------------------------------------------------------
(* The handler's thread, the others and the world. *)

Handler ==
  \/ CopySeries \/ StartWorker \/ StartWaited \/ StartBdx
  \/ SendCheck \/ SendTry \/ SendEnqueue
  \/ PollBegin \/ PollWorker \/ PollBdx
  \/ StopWorker \/ JoinWorker \/ StopBdx \/ JoinBdx

Client ==
  \E req \in Orders, act \in ClientActs, qty \in Qty : SendBegin(Sent(req, act, qty, known[req]))

Worker(w) == WorkerStep(w) /\ UNCHANGED <<bdxVars, handlerVars, clientVars, drops>>

Bdx == BdxStep /\ UNCHANGED <<workerVars, handlerVars, clientVars, drops>>

Trading == Market /\ UNCHANGED <<sessVars, workerVars, bdxVars, handlerVars, clientVars, drops>>

\* The gateway drops or logs out a session, or the user's password expires.
Disturb(s) ==
  /\ drops < MaxDrops
  /\ drops' = drops + 1
  /\ \/ LinkLost(s, "down") \/ LinkLost(s, "out")
     \/ PasswordExpires(s)
  /\ UNCHANGED <<exchVars, workerVars, bdxVars, handlerVars, clientVars>>

Next ==
  \/ (Handler \/ Client \/ StopBegin) /\ UNCHANGED drops
  \/ \E w \in Workers : Worker(w)
  \/ Bdx
  \/ Trading
  \/ \E s \in Disturbed : Disturb(s)

Spec == Init /\ [][Next]_vars

\* Every thread runs on, and calls of the OMnet API return; nothing else has
\* to happen.
FairSpec ==
  /\ Spec
  /\ \A w \in Workers : WF_vars(Worker(w))
  /\ WF_vars(Bdx)
  /\ WF_vars(Handler /\ UNCHANGED drops)

-----------------------------------------------------------------------------
(* Properties *)

TypeOK ==
  /\ SessTypeOK /\ WorkerTypeOK /\ BdxTypeOK
  /\ gpc \in {"start", "copy", "startWait", "startBdx", "run", "check", "try", "enqueue",
               "poll", "stop", "join", "stopped"}
  /\ at \in 0..WorkerCount
  /\ started \in BOOLEAN
  /\ nextWorker \in Workers /\ firstTry \in Workers
  /\ fate \in [Requests -> {"none", "refused", "queued"}]
  /\ known \in [Orders -> Int]
  /\ filled \in [Orders -> Nat]

\* Where a request handed to a worker is: in an order queue, in a worker's
\* hand, answered, or left to the broadcasts.
InQueue(r) ==
  {p \in Workers \X (1..OrderQueueBound) :
     p[2] <= Len(orderQ[p[1]]) /\ Request(orderQ[p[1]][p[2]]) = r}
InHand(r) == {w \in Workers : cur[w] # NoOrder /\ Request(cur[w]) = r}
Places(r) ==
  Cardinality(InQueue(r)) + Cardinality(InHand(r)) + Len(answers[r])
    + IF r \in deferred THEN 1 ELSE 0

\* A request Send() took is always in exactly one place, whatever fails: it is
\* neither forgotten nor answered twice.  One whose answer met a full response
\* queue is in none, and so is one Send() refused.
RequestIsInOnePlace ==
  \A r \in Requests :
    Places(r) = IF fate[r] = "queued" /\ r \notin dropped THEN 1 ELSE 0

\* A worker carries its orders to the exchange in the order Send() queued
\* them, reconnects and retries included.
WorkersKeepOrder ==
  \A w \in Workers :
    \A i, j \in DOMAIN heard[w] :
      i < j => \E k, l \in DOMAIN dispatched[w] :
                 /\ k <= l
                 /\ dispatched[w][k] = heard[w][i]
                 /\ dispatched[w][l] = heard[w][j]

\* The trades of an order, those of them the BDX session was given, and those
\* it parsed again; the lots of each, which the parser does not read.
TradesOf(o) == {i \in DOMAIN tape : Has(tape[i], 34920) /\ LastOf(tape[i], 34005).req = o}
GivenTrades(o) == {i \in TradesOf(o) : i < next /\ i \notin skipped}
RepeatedTrades(o) == {k \in DOMAIN stale : stale[k] \in TradesOf(o)}
Lots(i) == LastOf(tape[i], 34920).lots

\* The broadcast of a trade names the quantity the order had before it.
NamesWhatWasLeft(i) == LastOf(tape[i], 34005).qty - LastOf(tape[i], 34902).left = Lots(i)

FillsOf(o) == {k \in DOMAIN bdxQ : bdxQ[k].req = o /\ IsFill(bdxQ[k])}

\* No trade the BDX session was given is lost on its way to the client, through
\* packed buffers, lost sessions and the end of the thread; and where every
\* trade of the order names the quantity left before it, the client is told of
\* exactly the lots traded, once, and once more each time an old buffer is
\* parsed again.  This is as long as the fills of the order come from the
\* broadcasts alone.
FillsAddUp ==
  \A o \in Orders :
    (\A act \in Acts : \A i \in DOMAIN answers[<<o, act>>] : ~IsFill(answers[<<o, act>>][i])) =>
      LET told == filled[o] + SumFunction([k \in FillsOf(o) |-> bdxQ[k].last])
          traded == SumFunction([i \in GivenTrades(o) |-> Lots(i)])
                      + SumFunction([k \in RepeatedTrades(o) |-> Lots(stale[k])])
      IN /\ told >= traded
         /\ (\A i \in TradesOf(o) : NamesWhatWasLeft(i)) => told = traded

\* After Stop() no thread of a started handler is left, and no session.
StoppedIsQuiet ==
  gpc = "stopped" /\ bpc # "none" =>
    /\ \A w \in Workers : wpc[w] = "joined"
    /\ bpc = "joined"
    /\ \A s \in Sessions : ~loggedIn[s]

Stopping == gpc \in {"stop", "join", "stopped"}

\* The answer was given, and the handler's thread has collected it.
Collected(r) ==
  /\ Answered(r)
  /\ \A w \in Workers : \A i \in DOMAIN respQ[w] : Request(respQ[w][i]) # r

\* Every request Send() took reaches an end, whatever happens to the sessions:
\* the handler collects its answer, or a broadcast is to tell of it, or the
\* handler is stopped; or a full response queue dropped the answer.
RequestIsAnswered ==
  \A r \in Orders \X ClientActs :
    fate[r] = "queued" ~> (Collected(r) \/ r \in deferred \/ r \in dropped \/ Stopping)

\* Stop() returns, in whatever state it finds the threads.
StopReturns == Stopping ~> gpc = "stopped"
=============================================================================
