# TLA+ models of the order path of the trading server

This directory models how an order gets through the trading server and back:
the client's requests and the order table, the sessions with the exchanges
(OSE over OMnet, CME over iLink 3, CFE over BOE 3) with their sequence numbers,
gaps, replays, resets and restarts, the lock-free queues between threads, and the
threads that start, feed, drain and stop it all. TLC checks the modules on small
instances; TLAPS proves the core facts for every value of the constants. Paths
below are relative to the repository; the code is under `src/src`.

## 1. The system

Raptor, the server, routes orders from trading algorithms and ZMQ clients to one
*exchange handler* per process, chosen by `Exchange.Name`
(`ExchangeHandler/ExchangeManager.cpp`): CME (`CmeGT5`), CFE (`CfeGT4`), EQT
(Lime) or OSE (`OseGT`). A handler turns requests into the exchange's messages
and the exchange's messages into order pods, which Raptor's threads run through
the order handlers' callbacks.

| component | state it keeps | operations | talks to |
|---|---|---|---|
| `Maps/SPSCRingBuffer.hpp` | two atomic indices, slots | enqueue/push, dequeue/try_dequeue/try_pop, size, empty | all queues of the OSE handler |
| `OmnetSession` | `_loggedIn`, `_hSession`, user code, facility | Login, Logout, MarkDead, SendTransaction, SendQuery, SubscribeAll, ReadEvent | OMnet gateway, by blocking calls |
| `OmnetWorker` (N threads) | `_active`, `_readyToTrade`, setup flags, series cache, reconnect counter | Start, Stop, Run, ProcessOrder, Reconnect, the queries | its session; an order queue in, a response queue out |
| `OmnetBdxThread` (1 thread) | `_active`, reconnect counter | Start, Stop, Run, Reconnect, ParseBO5, ParseBD6, ParseEB10, ParseNetworkEvent | its own session; the BDX response queue |
| `OseGT` | `_started`, `_nextWorker`, the queues | Start, Stop, Send, Poll, Command | workers, BDX thread; `ExchangeManager` calls it from one thread |
| `SessionStateManager`, `SessSvc` | state, UUID, sequence numbers, gap and its queue; the state file, written by a thread of its own | Set..., Update, GapDetected, drain, load and save | the handlers of CME and CFE |
| `CmeGT5` and `EFVITcpV5` (per market segment) | one iLink session | Dispatch (login), ProcessApplicationMessage, the sequence check, commands | session manager, TCP thread, exchange |
| `CfeGT4` and `StandardTcpV1` | one BOE session, reset and reconnect flags | Poll and its callbacks, Dispatch, CheckEvents | session manager, exchange; two threads with no lock |
| `OrderHandlerZmqV6` | snapshots for rejected requests, recovered orders | new, modify, cancel, callbacks, status | clients over ZMQ, order table |
| `OrderManagerV5` | order table, report queue | minOrderUpdate, minOrderExecution, rejects, Run | both of the above, algorithms |
| `OrderRecoveryService` | orders read from an API at the start | Find | `OrderHandlerZmqV6` |
| `Raptor2` | routing tables, start order | routing of orders and responses | everything |
| `SettlementCache`, RQ62 flags | map under a mutex, two atomic flags | Update, Get, BI7 / menu triggers | Worker[0], BDX thread, menu |
| EQT handler, market data, algorithms, reporters, databases, settings, `Risk` | | | see "Not modelled" |

What is hard:

* **interleaving**: the OSE handler reads a worker's `_loggedIn` and
  `_readyToTrade` and then enqueues, while the worker may lose its session in
  between; the order table is read, changed and written back by the ZMQ thread
  and by Raptor's with no lock; CFE's session belongs to two threads;
* **lost answers**: an OMnet transaction blocks on the network. When the session
  goes, nobody knows whether the exchange acted. ProcessOrder reconnects and
  sends the same order a second time;
* **sequence numbers**: a number is moved before its message is handled, is
  saved by another thread later, is read back at a reconnect or a restart, and
  may not fit the exchange's; a gap opens while another is being filled;
* **reconnects** that fail at any point, with or without an order in hand, and
  while the handler is being stopped;
* **crossing messages**: a fill leaves the exchange while a modification is on
  its way to it; the answer is computed from the quantity at another moment;
* **two reporting channels** of OSE: an order's answer comes through the
  worker's queue, its fills through broadcasts on another session;
* **parsing by accumulation**: ParseBO5 folds sub-items, in whatever order they
  come, into one order and only then decides what it means.

What makes each component correct: the ring is a FIFO queue whose threads never
touch one slot; an OMnet session in use has an open API handle; a worker answers
each request exactly once, in order, truthfully, resends only what may have been
lost, and is offered orders only after the exchange accepted its ready-to-trade;
the BDX thread publishes each fill once and nothing else as a fill; the OSE
handler loses no request it accepted and stops with no thread left; an iLink or
BOE session handles every message once and in order, or flags it as possibly
repeated, loses at most the message in hand at a crash, and comes up again; the
order table never counts more than was traded, and when all is quiet the client
knows what the exchange has.

## 2. The modules

| module | models | abstraction |
|---|---|---|
| `BoundedFifo` | the promise of a queue: a bounded FIFO whose Put and Get are instantaneous | abstract specification |
| `OrderedDelivery` | the promise of a session to the application: a number is taken over, and from there messages are handed on in order, each once, one at a time; when the process ends its numbers are forgotten | abstract specification |
| `SPSCRing` | `SPSCRingBuffer<T>`, with each call split into index test, copy of the slot, publishing store | items are model values; a slot being written holds `Torn` |
| `OmnetExchange` | the exchange behind OMnet: book, MO31/MO33/MO4, trades and deletions it broadcasts. Not in the repository: taken from what ProcessOrder and ParseBO5 expect of it | prices and sides left out |
| `Bo5` | `OmnetBdxThread::ParseBO5` as a fold over sub-items | the seven kinds of sub-item that leave a trace; every other kind is one |
| `OmnetSession` | `OmnetSession`, plus the gateway's own view of link and password | INTFAILURE and NOTCONNECTED are one status |
| `OmnetWorker` | `OmnetWorker`: Start/Stop, Run, ProcessOrder with retry, Reconnect | one program counter per worker; queues are bounded sequences |
| `OmnetBdxThread` | `OmnetBdxThread`: Start/Stop, Run, Reconnect, BN4, packed buffers | a broadcast tape with a read position, and the old buffer behind it |
| `OseGT` | composition: Start, Send, Poll, Stop in the handler's thread; the client's requests; gateway disturbances | the client keeps exchordid and fillqty, as OrderManagerV5 does |
| `CmeSession` | one market segment of `CmeGT5` with `SessionStateManager`, `SessSvc` and `EFVITcpV5`; the exchange from the messages and reject codes the handlers expect | an application message is its number; the bytes between exchange and processing thread are one FIFO |
| `CfeSession` | the session of `CfeGT4` with `StandardTcpV1`, `CfeResetSession`, `SessionStateManager`, `SessSvc` | a number carries the day it was given on, for the properties; pauses are reduced to their order |
| `ClientOrders` | `OrderHandlerZmqV6`, the table of `OrderManagerV5`, the queue to the handler, the reports `CmeGT5` makes, Raptor's routing, the client's reports | the exchange acts when the handler sends; an order pod is copied in one step |
| `SPSCRingProofs`, `ClientOrdersProofs`, `CmeSessionProofs`, `CfeSessionProofs` | the theorems about these modules | |
| `OseGTProofs`, `OseGTOrdersProofs` | the theorems about the composition: sessions and threads; orders and fills | |
| `Bo5Proofs`, `MCBo5Proofs` | induction, what the folds of the community modules compute, and the theorems about ParseBO5 | |
| `MCBo5`, `MCCmeSession`, `MCCfeSession`, `MCClientOrders` | the instances TLC checks | |

`OseGT` extends `OmnetWorker` and `OmnetBdxThread`, which extend
`OmnetExchange` (with `Bo5`) and `OmnetSession`. `SPSCRing` justifies the
sequences that stand for queues in the composition: it implements `BoundedFifo`,
which is that sequence with its bound. `CmeSession` implements `OrderedDelivery`:
messages reach the callbacks once and in order, as long as the operator commands
no retransmission; `ClientOrders` starts from there: a
message becomes the pod of its callback, and one that was lost comes back
flagged as retransmitted.

### From code to state and actions: OSE
* `wpc[w]` is the place of a worker's thread: `login`, `setup` (head of `Run`),
  `loop`, `transmit` (ProcessOrder before `omniapi_tx_ex` reaches the exchange),
  `wait` (the exchange has acted, the call has not returned), `logout`,
  `backoff`, `requery` (Reconnect), `ended`, `joined`. `cur[w]` is the order in
  ProcessOrder and `retry[w]` tells the second `SendTransaction` from the first.
  `Transmit`, then `Complete`, `LoseAnswer` or `AnswerTimesOut`, are the two ends of
  one blocking call, so that the session can be lost on either side of the
  exchange's action, and the call can fail on a session that is still there. Of
  that last case the code makes REJECTED at once (`OmnetWorker.cpp:404`, `:464`),
  whatever the exchange did. A transaction that times out (OMNIAPI_TX_TIMEOUT) is
  taken to have been acted upon by then or never; one the exchange acts on after
  the call has returned looks the same to the client.
* `Answer` drops an answer that meets a full response queue, as the code does,
  which ignores what enqueue returns; `dropped` records the request.
* `link[s]` is the gateway's truth about a session, `loggedIn[s]` and
  `handle[s]` the code's belief. `DeadStatus` gives the status a call then gets:
  NOT_LOGGED_IN leaves `_loggedIn` set, INTFAILURE clears it.
* `at` and `gpc` are the handler thread's place in Start, Send, Poll and Stop,
  split at each read of another thread's state. `IsReady` reads two flags one
  after the other; it is one step here, because a worker sets `_readyToTrade`
  only while `_loggedIn` holds, so that whenever the two reads give true there
  was an instant at which both held.
* `tape` holds the broadcasts the exchange sent, `next` the BDX session's
  position in it, `unread` what is left of the packed buffer in hand, `skipped`
  what the session never got (OVERFLOW, or sent while it was down). A session
  whose subscription failed is one whose broadcasts are all lost to OVERFLOW.
* `evbuf` is what Run's buffer may still hold of earlier reads. A read that returns
  OMNIAPI_ALLEVTS is parsed like one that returns SUCCESS (`OmnetBdxThread.cpp:134`)
  but leaves the length at that of the whole buffer (`OmnetSession.cpp:390`), so that
  the parser goes on behind the new broadcasts: `again` is what it finds there. New
  broadcasts overwrite the buffer from the front and the parser stops at a length
  that does not fit, so that what is parsed again is an end of what was there; the
  bytes a fresh buffer happens to hold are taken to parse to nothing, and so is an
  old BN4, which would only ask a thread to end that was told to.
* What a trade's broadcast names as the order's quantity (34005), the quantity entered
  or the one left before the trade, is the exchange's choice at each trade: the parser
  takes the difference to 34902 for the fill and does not read the quantity traded
  (`trade_quantity_i`), and the repository does not say which it is. `lots` keeps the
  true one for the property.
* `ui1`, `heard`, `lost`, `answers`, `dropped`, `deferred`, `fate`, `dispatched`,
  `skipped`, `stale`, `deaths` record what happened, for the properties only; no guard
  reads them, except `fate`, by which the client makes each request once, and the
  length of `stale`, which `MaxStale` bounds.

The two atomics of the ring are modelled as sequentially consistent. The code
loads the other thread's index with `relaxed` on the producer's side; the copy
into the slot depends on that load by a branch, and a store is not made before
its branch is decided on any target of the build, so the copy cannot come before
the test. Delayed visibility of a store (a store buffer) is the publishing
step happening later, up to the answer `full` or `empty` being late.

### CME session

* `st` is `SessionStateManager::CurrentState`, `sess` its UUID, previous UUID,
  `_SEQ_INa` and `_NEGOTIATEDa`; `gap` is `gapInfo` with its uint16 count,
  `recov` the messages queued while a gap is open, `batch` the loop that replays
  them. `saved` is the snapshot SessSvc holds and `disk` the file.
* `inHand` is a message past `CheckIncomingSeq` and not yet handled: SEQ_IN has
  moved, so that a crash here loses it. `link` is the process and its TCP
  connection; a connection that closes loses the end of `inbox`.
* With no state file `_NEGOTIATEDa` is read uninitialised: the fault `uninit` is
  the start at which it happens to be true.
* `times`, `ever`, `base`, `floor` and `fileFloor` are there for the properties.
  `base` is SEQ_IN as the process took it over, `floor` SEQ_IN as it was last
  forced by a negotiation or a reject, `fileFloor` the floor when the state file
  was written, which is that of the process that starts from the file.
* A batch is shorter than 65536 (`BatchAssumption`; 2500 in the code), so that
  it fits `gapInfo`'s count.

### CFE session

* Threads `poll` (Poll, the callbacks it makes, Dispatch) and `cmd`
  (CheckEvents); `step[t]` is a thread's place between stopping the handler,
  StartSessionManager and StartTcpConnection, or within a logout (`Logout`:
  `sessmgr.Stop()` saves, waits and marks the session down; the state is set before
  the message is sent and again after it). `needsReset`, `reconnecting` and
  `lastFd` are `needs_reset_reconnect`, `is_reconnecting` and Dispatch's static.
* `saves` is what SessSvc has queued, `file` the SEQ_IN in the state file, which
  BeginReset rewrites itself (`update_negotiated_in_file`). A reset that does not
  find its configuration or the file is `ResetFails`: the numbers are 0, the flag
  stays, and Dispatch tries again (`CfeGT4.cpp:539-541`). Before
  StartSessionManager reads the file the code sleeps for at least a second, and
  SessSvc wakes every 10 ms, so `saves` is empty then; this is the only use made
  of time.
* `excused` names the messages the code gives up on by design: the rest of a
  replay cut short (the login response has already moved SEQ_IN past it), those
  up to an older day's number that is not above the exchange's, the one in hand
  at a crash, and what was saved when a crash comes before a reset that is due.
  `gaveUp` marks a new handler that could not connect:
  StartTcpConnection does not try again.

### Client orders

* `stored` is `OrderManagerV5::_ords`, `prev` the snapshot that
  `reqIdToPrevOrderMap` keeps for a rejected request, `cmds` the queue to the
  handler, `responses` and `reports` the queues back. `zmq` and `raptor` are the
  places of the two threads in a request and in a callback: each reads a record
  in one step and writes it back in another.
* `told` is what the client was told. `spoiled[o]` names what an order met that
  its record may not survive: a request that raced with a callback (`race`) or
  followed another (`pipeline`), a rejected modification (`reject`), a request the
  handler could not send (`refused`), a retransmitted message (`retransmit`).
  Each exemption in a property is needed: without it TLC finds a counterexample
  that the code can show.
* No record ever leaves the table. `OrderManagerV5::Run` calls `_ords.erase` for an
  order that is filled, but `_ords` is a `CustomHFTMap` (`OrderManagerV5.hpp:327`),
  whose `erase` has an empty body (`CustomHFTMap.cpp:75-86`: all of it is commented
  out); and the test for nullptr before it never holds, for `get` returns the address
  of a default order where there is none (`CustomHFTMap.cpp:112-140`). A
  cancellation that crosses the last fill's report therefore finds the record.

## 3. What TLC checks

| run | question | properties | states |
|---|---|---|---|
| `ring` | is the ring a FIFO for every interleaving, and does it deliver? | TypeOK, SlotsAreOwned, ImplementsFifo, DeliversAll | 5 thousand |
| `bo5` | what does ParseBO5 make of any broadcast? | TradesReported, EchoesSilent, EndsNotFills | 31 thousand |
| `requests` | NEW, MOD, CXL of an OSE order, one worker, one disturbance anywhere, transactions that time out | TypeOK, RequestIsInOnePlace, AckNamesTheOrder, CanceledIsGone, WorkersKeepOrder | 3.6 million |
| `retry` | a NEW, two disturbances, passwords that expire and are replaced, transactions that time out | ResentOnlyAfterLoss, DeadOrderNeverLived, ReadyMeansAccepted, ConnectedMeansReady, LeakPerDeath, LoggedInHasHandle | 2.1 million |
| `fills` | an order of two lots and its alteration, BDX session disturbed, an old buffer parsed again | DeferredHasTrade, FillsAddUp | 2.3 million |
| `workers` | two workers, start, round robin, stop | StoppedIsQuiet | 0.4 million |
| `live` | progress of the OSE handler, under fairness | RequestIsAnswered, StopReturns | 0.1 million |
| `session` | one iLink session: losses, gaps, replays, rejects, disconnection, restart | TypeOK, HandledExactlyOnce, RestartLosesOne, WaitsForMissing, DeliversInOrder, GapCloses | 0.3 million |
| `cfe` | the BOE session over two days: cuts, refusals, crash, resets that succeed or fail, commands | TypeOK, NothingSkipped, ResetReadsZero, TwiceIsFlagged, SessionComesUp | 1.3 million |
| `client` | a client's order: requests, crossing fills, rejects, retransmissions, races | TypeOK, NeverOverstated, ToldWhatIsOpen, FillsToldOnce, NeverMoreThanAsked, SentIsResolved | 0.6 million |
| `cancel`, `retransmit` | a statement of a comment that the code does not keep | CanceledLeavesNoOrder; RetransmittedFillCounts, violated | |

The main properties:

* **RequestIsInOnePlace** - a request Send took is at every instant in exactly
  one of: an order queue, a worker's hand, the answers put in a response queue, or
  left to the broadcasts. It rules out losing, duplicating and answering twice,
  through every failure of a reconnect. The one exception is the code's: an answer
  that meets a full response queue is dropped, and its request is then in no place.
* **ResentOnlyAfterLoss** - the exchange gets a request twice only if an answer
  to it was lost, and never three times.
* **DeadOrderNeverLived** - a NEW answered REJECTED or CANCELED was never booked
  or traded, unless the exchange acted on it and the answer did not reach the
  worker: the session was lost, or the transaction timed out on a live one. In the
  second case the order can be in the book and the client be told REJECTED with no
  reconnect and no retry: `OmnetWorker.cpp:464` makes no difference between an
  order the exchange refused and one it did not answer for.
* **AckNamesTheOrder**, **CanceledIsGone** - the number an acknowledgement gives is
  that order's; a CANCELED deletion leaves nothing under the number it was sent
  with.
* **ReadyMeansAccepted**, **ConnectedMeansReady** - a worker is offered orders only
  if this login's UI1 was accepted; a worker with a live session is offered
  orders unless its UI1 was refused. The second is also where the code has no
  way out: a refused UI1 leaves the session logged in, so `Run` does not
  reconnect, and the worker is idle until the session is lost.
* **LeakPerDeath** - an exact account of API sessions that are overwritten
  without being closed: one for each session found dead.
* **TradesReported**, **EndsNotFills**, **EchoesSilent** - a well-formed trade is
  published with the right quantity and status whatever else is in the
  broadcast and in whatever order; a cancel or reject never hides a fill; what
  the transaction's answer already said is not said again.
* **FillsAddUp** - the lots the client was told of, with those in the queue to it,
  are those of the trades the BDX session was given, each counted once, and once
  more for each time an old buffer was parsed again; through packed buffers, lost
  sessions and the thread's end, as long as no worker's answer of that order is
  itself a fill. The sum is exact where each broadcast names the quantity left
  before the trade. Where one names the quantity entered, an earlier trade is
  counted with a later one, and the property says only that none is missed. The sum
  on the exchange's side is of lots traded, not of the parser's differences. The
  queue's bound is not reached here (see below).
* **HandledExactlyOnce**, **RestartLosesOne** (CME) - SEQ_IN says what was done: the
  messages after the first SEQ_IN of the process and up to the present one were
  handled, each once, through gaps, batches of retransmission, rejects and
  terminations; over restarts at most one message for each crash was never
  handled. **WaitsForMissing** and **GapCloses**: a session that waits lacks what it
  waits for, has queued what it does not, and does not wait for ever.
* **DeliversInOrder** (CME) - the session implements `OrderedDelivery`: whatever
  is lost, queued, drained or refused, each step of a process hands on nothing, or
  the next message, and SEQ_IN is forced only before the first one is handled.
* **NothingSkipped**, **TwiceIsFlagged** (CFE) - once the session is up and has taken
  what was sent, every message of the day was handled, or is one the code gives
  up on; one that is handled again comes before the end of the replay, when
  reports are flagged possRetransmit.
* **ResetReadsZero** (CFE) - the race the comment of Dispatch describes
  (`CfeGT4.cpp:499-507`: a save still queued undoes the reset in the file) does not
  come back, whichever thread restarts the session.
* **SessionComesUp** (CFE) - through refusals, cuts, new days and numbers that do
  not fit, the session is established again, unless the handler gave up.
* **NeverOverstated**, **NeverMoreThanAsked** (client) - no race, repetition or
  rejection makes the record count more than was traded, or leaves more in the
  market than was asked for. **FillsToldOnce**, **ToldWhatIsOpen**: when all is
  quiet, the client was told each fill once and what is open.
  **SentIsResolved**: no request stays in a state of having been sent.
* **RequestIsAnswered**, **StopReturns** (OSE) - progress.

### Bounds, and why they are enough

* Ring: four slots, two items. Indices wrap, full and empty are reached at
  every offset. Proved for every capacity.
* BO5: four sub-items over quantities 0 to 2 (`UInt32Range = 8` stands for 2^32).
  The promises relate at most four sub-items (order, change, trade, and one that
  competes), and are about trades whose sub-items are well-formed: the wrap of a
  lastqty without 34005 and 34005 after 34902 are outside them.
* Orders: one order and its three requests. Workers share no state about an
  order except through the client, and the queues hold two, so that one request
  can wait behind another. Two workers in `workers`; what is checked of requests
  with one worker is proved for any number.
* Quantities: one lot where trades do not matter, two lots where partial fills
  do.
* `MaxDrops`: disturbances by the gateway, one, or two in `retry`, which is what
  it takes to lose the first transaction and then its repetition.
* Queue bounds of 2 (4095 in the code) are as small as lets a request wait behind
  another. A third response is reached in `requests` (a new order, its alteration
  and its deletion, answered while the handler drains none) and dropped there. In
  `retry` and `live` there is one request and no answer is dropped. The BDX queue
  holds 8 in `fills`, so that no fill is dropped: FillsAddUp is about what happens
  short of that, and its theorem has this as a hypothesis (`Room`).
* `MaxStale`: no buffer is parsed again after this many broadcasts were; one in
  `fills`, none elsewhere, where fills do not matter.
* Deadlock is not checked in `OseGT`: after Stop nothing moves, which is meant.
* CME: six messages and batches of up to four, so that a gap needs two requests
  and a second gap opens while the first is filled; two sessions negotiated; two
  kinds of fault in one behaviour, each once, of thirteen. `Paced`: the handler
  is fewer than `MaxBatch` live messages behind the exchange (2500 in the code).
* CFE: two days of three messages, each mishap or command once, two kinds in one
  behaviour: enough for a reset that meets a command, and for a number of the day
  before that is followed by messages of this one. With two messages a day the
  loss described under "Don't establish session" below cannot happen.
* Client: one order, quantities up to two, two of requests, refusals and
  retransmissions together. Orders share nothing but the queues and the pod
  pool; two orders are in reach of the theorems, which hold for any number.
* Deadlock is not checked where the system may stop: after Stop, after a
  logout, at the bounds.

### Fairness

OSE (`FairSpec`): weak fairness of each thread. The scheduler runs every thread
and every call of the OMnet API returns (transactions have a timeout, backoffs
end). Nothing is assumed of the client, the gateway, the market or the outcome
of a login. Under it a request is answered even if no login ever succeeds again,
because a reconnect that fails rejects the order in hand; one queued but not
taken is sent or rejected by the same loop. RequestIsAnswered counts an answer that a
full response queue dropped as an end; with one request, as in `live`, none is.

CME: the processing thread, which never blocks, and the exchange's answers to
requests it has received. CFE: Poll, Dispatch, SessSvc and each thread between
stop and start run on, and a handler that lost its connection gets a new one in
the end (it tries again every 15 s and more); resets fail finitely often; the
exchange answers a login (accepting or refusing) and
hangs up on a client that has logged out or sends nothing, which is what the
heartbeats of both sides are for. Client: each of the four threads runs on.

### Disagreements between comments and code

Two are runs that end in a counterexample:

* `cancel`: "OMnet keeps the same order_number after alter - no update needed"
  (`OmnetWorker.cpp:330`); the retry after a reconnect overwrites the number of an
  altered order with a transaction id, so that the client's deletion finds
  nothing and is reported CANCELED while the order is in the book.
* `retransmit`: "check and see if we have this order's request id and meta info,
  otherwise, fill it in" (`OrderHandlerZmqV6.hpp:299`); a retransmitted fill is
  looked up among the orders loaded at the start only, and for an order of this
  run of the program it is counted nowhere.

Others were met while reading, and no run is spent on them:

* "Stop all workers first (finish pending orders)" (`OseGT.cpp:135`): the
  worker's loop tests `_active` first and leaves queued orders unanswered.
* "txstatus = number of contracts before change, NOT a fill indicator"
  (`OmnetWorker.cpp:336`): the retry reads 2 and 6 as fills (`:434`).
* "if we have meaningful order info" (`OmnetBdxThread.cpp:507`): a quantity
  change with no trade is published with status 0.
* "Don't establish session - let Dispatch() handle reset" (`CfeGT4.cpp:1382`): the
  replay-complete that follows sets Established all the same (`:1450`), and it
  stays so until the reset. Messages that come in the same Poll can then fit the
  stale number: SEQ_IN moves with them to a number of the new day and is saved,
  and a crash before the reset leaves a state file that passes over the messages
  before them. It takes three messages on the second day; it was found when the
  inductive invariant of NothingSkipped was written, and the property exempts it
  (the third term of `excused` in `CrashAndStart`).
* A pod of `OrderPodPool` is not cleared: the report of a modification carries the
  order number the pod had before (`CmeGT5.cpp:2381`). `podNum` models it.
* Menu commands on a CME session: RETRANS_REQ outside a gap can have a message
  handled twice, or leave the session waiting (the properties of `session`
  exclude it by `Commanded`); TERMINATE does not keep the session Terminating. A
  Sequence message whose fault-tolerance indicator changed does what TERMINATE does
  (`CmeGT5.cpp:1923-1928`), and the model's TerminateCommand stands for both.
* A restart on the file of a fresh negotiation skips message 1, or ends the
  program (`CmeGT5.cpp:1783-1787`); a closed TCP connection leaves the state
  Established (`EFVITcpV5.cpp:196-227`); a Sequence message's NextSeqNo is ignored
  (`CmeGT5.cpp:1914-1935`). The first is what `base` and `floor` allow for.
* A modification or cancellation of a partly filled order that is rejected is
  reported as FILLREPORT with the old last quantity (`OrderReporterV6.cpp:519-521`);
  only filltype and action tell it from a fill.

## 4. What is proved

`SPSCRingProofs`, from `CapacityAssumption` (a positive capacity) and
`ItemAssumption` (`Torn` and `NoItem` are not items):

* `TypeCorrect`, `SlotOwnership`: `Spec => []TypeOK` and `Spec => []SlotsAreOwned`.
  The inductive invariant `IInv` is their conjunction. Ownership alone is not
  inductive without the ranges of the indices; `TypeOK` alone is not, because
  that a copied slot holds an item needs that an enqueue in progress has one.
  The argument is arithmetic on the cyclic distance `Size`: `PublishGrows` and
  `TakeShrinks` say how it and the slots' numbering change, `WriteIsPrivate`
  that a write touches no published slot.
* `RingImplementsFifo`: `Spec => ImplementsFifo`. The mapping takes the published
  slots, oldest first, as the queue; `EnqueuePublish` is Put, `DequeuePublish`
  is Get, the two refusals are PutFull and GetEmpty, and every other step
  stutters.

`OseGTProofs`, from `WorkersAssumption`, `BdxAssumption` and `HandlerAssumption`
(the workers are numbered from 0, each has a session, and the BDX thread has one
that is no worker's): for every number of workers and requests, every set of
disturbed sessions and every number of disturbances,

* `SessionsHaveHandles`: `Spec => []LoggedInHasHandle`,
* `DeathsLeakSessions`: `Spec => []LeakPerDeath`,
* `ReadyIsAccepted`: `Spec => []ReadyMeansAccepted`,
* `ConnectedIsReady`: `Spec => []ConnectedMeansReady`,
* `StopLeavesNothing`: `Spec => []StoppedIsQuiet`.

None is inductive. A login over a session that still counts as logged in would
leak an API session without a death, and a failed one would leave `_loggedIn`
set without a handle; a login while `_readyToTrade` is left over would offer the
worker before its UI1. `IInv` adds what rules this out: a thread is logged out
wherever it may log in next (`none`, `login`, `backoff`), and a worker is not
ready from the head of a reconnect to its UI1. `LinkInv` relates the gateway's
truth about a session to where its thread is, `StopInv` the handler's place in
Stop to the threads it has joined. The lemmas give the effect of each session
operation (`LoginSucceedsKeeps`, ...), then of the moves of a worker's thread, and
`WorkerKeeps`, `BdxKeeps` and `HandlerKeeps` go through the actions of each
thread.

`OseGTOrdersProofs` builds on it, with `QtyAssumption` (quantities of 1 to
2^32 - 1), for the requests and their answers:

* `TypesHold`, `RequestsArePlaced`, `WorkersInOrder`, `RetriesAreBounded`,
  `AcksNameTheirOrder`, `CancelsAreFinal`, `DeferralsTraded`,
  `DeadOrdersNeverLived`: the eight invariants of the runs `requests`, `retry`,
  `workers` and `fills` about an order;
* `FillsArrive`: `Spec /\ [][Room]_vars => []FillsAddUp`, where `Room`
  says that no broadcast is parsed while the BDX response queue is full. Without
  it the statement is false: `Enqueued` drops what does not fit, as the code does
  (4095 entries).

`RequestsArePlaced` leaves out the requests whose answer a full response queue
dropped, and `DeadOrdersNeverLived` those whose answer did not reach the worker, as
the invariants say; neither loss is a hypothesis, both happen in the model.

Some forty actions change the state of an order in a dozen ways. They are first
sorted by what they do to it (`Flow`): begin, refuse, queue or take a request,
carry it to the exchange, repeat it, lose its answer, answer it (or drop the
answer), leave it to the broadcasts, or nothing. Each invariant is then shown for these kinds only, and
rests on those before it: `TypesInv` (types, the order numbers being ones of the
book), `PlaceInv`, `KeepsOrder`, `HeardInv` (how often a request was heard against
what was lost), `TruthInv` (an answer under way says what is so) and `LiveInv`
(what is in the book was answered so, or its answer was lost or dropped). For the
fills, `NewsInv` says what is on the tape, `RespInv` that what is in a response queue
was answered, and `CountInv` that the client's counter and the queue add up to what
the parser makes of the broadcasts it was given and of those it parsed again. What
the parser makes of a trade is the difference of two quantities the broadcast names,
which is never less than the lots traded and equal to them where it names the
quantity before the trade (`TellsOne`); `FillsAddUp` follows by comparing the sums.

`Bo5Proofs` and `MCBo5Proofs`, from `UInt32RangeAssumption` and
`QuantitiesAssumption`: for broadcasts of any length and any quantities,

* `FillIsReportedAlways`, a lemma on ParseBO5 by itself, and of the module TLC
  runs `TradesAreReported`, `EchoesAreSilent`, `EndsAreNotFills`.

This is induction over data. The library's theorems on it take an operator as a
parameter, which no installed prover instantiates; so an induction is stated here
of a set, the numbers a claim holds for, and follows from
`NatLessThanWellFounded` and `WFMin`, which say that a set of numbers has a least
element. With it the folds of the community modules are shown to exist and to be
what they say (a sum over a set with one element more), and ParseBO5 is unrolled
into the order pod after each sub-item: what holds of the pod after `n` sub-items
is then an ordinary invariant.

`ClientOrdersProofs`, from `OrderConstants`: for every set of orders, every
quantity, and any number of requests, refusals, retransmissions and races,

* `SpecTypeOK`: `Spec => []TypeOK`,
* `SpecNeverOverstated`: `Spec => []NeverOverstated`,
* `SpecNeverMoreThanAsked`: `Spec => NeverMoreThanAsked`,
* `SpecFillsToldOnce`: `Spec => []FillsToldOnce`,
* `SpecToldWhatIsOpen`: `Spec => []ToldWhatIsOpen`.

`NeverOverstated` alone says nothing of the messages that will be added to a
record, nor of the copy a thread is about to write back. `IInv` has four parts:
`Types`; `KnownFirst`, an order has a record before anything else knows of it;
`NewOnce`, a new order is sent once, to an exchange that does not know it; and
`CountsUp`, the heart of it: the record, the copies of it and each message in
front leave room for the last quantity of every message behind. One lemma per
place where a record is written shows that the room is kept.

FillsToldOnce needs equalities where these are bounds. `FillsInv` adds, for an
order that met no race and no retransmission: the lots under way add up, those in
messages from the record to the exchange's count, those in reports from the
client's count to the record (`FillsAddUp`); a thread's copy of the record is the
record (`CopyIsExact`); and only a fill trades (`OnlyFillsTrade`). The races and
retransmissions are exactly where the second and the first of these break.

ToldWhatIsOpen is about states in which nothing is under way, and says nothing of
how they are reached. `ToldInv` names, for every state, what the program takes to be
open (`View`): nothing before the first acknowledgement; the quantity of the record
after it; and while a modification is out, which has overwritten that quantity, the
one of the copy kept for its rejection. For an order that met no mishap, the
messages under way bring the view to what the exchange has open (`MessagesBring`),
and the last report brings the client to the view, but for a report that is still to
be made (`ReportsTell`). That a rejection restores the view is `CopyKept` and
`CopyTaken`: a copy shows what is open unless a fill came since, and then the fill
counts differ, which is the mishap "reject". The rest keeps these true: there is one
request or answer of an order at a time (`OneAtATime`); a record says that a
modification was sent only while that request, or an answer that resolves it, is
under way (`ModificationWaits`), so that it is never quiet in that state; and an
order's first acknowledgement is its first message (`NotYet`, `Birth`). The queues
are related from one state to the next by what a step did to one order's places in
them (`Same`, `More`, `Less`), so that an action is reasoned about once, for the
order it is about, and `Elsewhere` covers the others.

TypeOK of this module bounds the quantities. `SizedInv` does it by `Cap`, which a
request raises once by what it may ask for: a modification goes out as what is asked
for plus what the copy counts as filled, and no copy counts more than was traded
before the request was counted (`RequestSized`, `CommandsSized`). What the exchange
holds stays under `Cap`, and messages, records and reports take their quantities from
there. It also says that a rejected modification always has a copy to restore, so
that a record is never left in the status of that rejection (`CallbackSized`, with
`KnownFirst`). A bound on what the client is told of fills in all was part of TypeOK
before it was to be proved, and TLC shows it false with larger constants: after a
race a fill is told again, so that what was told can pass what could trade.

`CmeSessionProofs`, from `SessionConstants` and `BatchAssumption`: for any number of
messages, sessions, faults and commands,

* `SessionTypes`: `Spec => []TypeOK`, `RestartsLoseOne`: `Spec => []RestartLosesOne`,
* `EachHandledOnce`, `WaitsForWhatItMisses`: `HandledExactlyOnce` and
  `WaitsForMissing`, both under `Paced`,
* `SessionImplementsDelivery`: `Spec => DeliversInOrder`, under `Paced`.

The first two rest on `Phases`, which says what can be under way between process
and exchange at each point of the login, and `Losses`, which counts what the
messages handled, the state file and its floor leave open. The others need what
stands where in the inbox of an established session: `AckedInOrder`, `InSession`
and `Counted`, checked by TLC as an invariant of the run's instances before it was
proved. `Paced` (fewer live messages under way than a batch has) is a hypothesis
because without it the properties are false: a live message can have the number
at which the next batch of a gap would start. The attempt to prove RestartLosesOne
showed that the model's `floor` was wrong after two crashes in a row; `fileFloor`
came of it.

The refinement maps the number taken over, SEQ_IN, the message in hand and the
counts of what was handled to themselves while the process runs and the operator has
commanded no retransmission; after such a command, or the end of the process,
nothing more is promised of that process (`Running`). `StepKinds` sorts the steps:
one ends the process, starts one, forces SEQ_IN, counts a message, has one handled,
or does none of these; `StepDelivers` maps each to a step of `OrderedDelivery` or to a
stutter. It rests on the same invariants: they say that nothing was handled yet when
a login forces SEQ_IN (`LoggingIn`), and that a message about to be handled was not
handled before (`Counted`).

`CfeSessionProofs`, from `CfeConstants`: for any number of messages, days,
mishaps and commands,

* `SpecTypeOK`: `Spec => []TypeOK`,
* `SpecResetReadsZero`: `Spec => []ResetReadsZero`,
* `SpecTwiceIsFlagged`: `Spec => TwiceIsFlagged`,
* `SpecNothingSkipped`: `Spec => []NothingSkipped`.

`IInv` is `TypeOK`, `Flow`, `Connecting` and `Resetting`. `Flow` is about the
messages under way: those of the day come in the order of their numbers, the live
ones were never handled, the replayed ones come before the end of the replay,
while `replayComplete` is off; the message in hand is before them all.
`Connecting`: until a login is accepted nothing of an older connection is left to
handle, which is why a reconnect waits for onRecv to end. `Resetting`: from
BeginReset to StartTcpConnection the last number on its way to the file is 0.
The lemmas say what taking, losing, adding and handling a message do to `Flow`;
the actions are then instances of them.

NothingSkipped needs more, `SkipInv`, which TLC checked on the run's instance, and
with four kinds of mishap in one behaviour, before it was proved. It is about `Known`, the numbers a session may start
from: SEQ_IN, the file's, and those on their way there. `Synced` says that the last
one queued is SEQ_IN, so that StartSessionManager, which waits for SessSvc, takes
nothing back; no number is of a day to come (`NoneAhead`), and a reset that begins
is one that is due (`ResetIsDue`). `NonePassed` then holds while no reset is due:
every message of the day up to a known number was handled, is in hand, or is under
way behind a login that was taken (`Covered`); a login that still stands on the wire
and fits brings what it will move SEQ_IN past (`LoginBrings`); and a client that is
logged in has, or will have, the rest of the day (`AllSent`). `LoginLeads` keeps a
login before the messages of its connection: what is lost with a connection is then
either all of a replay with its login, and is asked for again, or behind a login that
was taken, and is given up. While a reset is due nothing is claimed: it is there that
a crash can lose messages (see "Don't establish session" above).

Every invariant and every step property that a passing run checks is proved, and
both refinements (`ImplementsFifo`, `DeliversInOrder`); `HandledExactlyOnce`,
`WaitsForMissing` and `DeliversInOrder` for the case they are checked in (`Paced`). Only model-checked: the liveness properties (`DeliversAll`, `RequestIsAnswered`,
`StopReturns`, `GapCloses`, `SessionComesUp`, `SentIsResolved`), which rest on
ENABLED and fairness, outside the prover's reach.

## 5. Not modelled

* Wire layout and encoding, prices, logging, notifications, waiting times and the
  backoff counters, which only choose a waiting time.
* CME: ProcessPrevUUID (unreachable), hedge instructions, spread legs, mass
  actions, the sequence numbers sent, the menu choice that sets SEQ_IN "for testing
  only" (`CmeGT5.cpp:905-915`), after which no statement about it can hold; CFE: heartbeats, the sequence numbers sent,
  order messages (built as CME's are).
* Client orders: JSON of the messages, mass cancellation, spread legs, hedges; the
  algorithms' own tables; torn copies of an order pod read while it is written.
* Settlement (EB10, BI7, RQ62, SettlementCache): market data with no effect on
  orders.
* BD6, which the code only logs; SendMassAction, a TODO in the code.
* A subscription that fails on a live OMnet session, and destruction of a handler
  whose Start failed part of the way (the program never deletes a handler).
* `Risk`: nothing outside its directory refers to it, no path of the program runs it.
* The EQT handler (the Lime library's callbacks are not in the repository), market
  data feeds and EFVI (I/O), algorithms (pricing data), reporters, loggers,
  databases, REST, JSON, settings, menu (output and configuration), generated and
  vendored code. These are most of the repository's lines, so that the share of
  lines the models cover is small; what they cover is the order path.

## 6. Plan

1. `OrderManagerV5` and the OSE answers in one module: a retried new order whose
   fill is both answered and broadcast, what the client then counts; a Send refused
   without a response.
2. The rate limiter, stop handler and instrument risk of `AklStacker`, as the
   algorithm's own view of its orders; the ring of order numbers that several
   threads read.
3. Destruction and partial start of the OSE handler; a failing SubscribeAll.
4. `Settlement`: the two flags, RQ62, the cache and its key.
5. Proofs: `OrderedDelivery` for the BOE session, where a message may be handed on
   again if its report is flagged.
